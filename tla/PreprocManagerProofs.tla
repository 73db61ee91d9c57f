------------------------ MODULE PreprocManagerProofs ------------------------
(***************************************************************************)
(* Proofs about the preprocessing manager: its safety invariants hold for  *)
(* any items, dependencies, workers, tests and numbers of values.          *)
(*                                                                         *)
(* IInv, the inductive invariant, is what is true between two messages.    *)
(* Within one the helpers call one another, each with the state the last   *)
(* one left; Good is what all of them keep.  It takes the answer that is   *)
(* being handled (the worker X, the count e) out of the bookkeeping, since *)
(* preprocessor_add_result settles that only after the dependents are      *)
(* queued and tasks assigned once.                                         *)
(*                                                                         *)
(* The chain of lemmas follows the calls: the search of                    *)
(* preprocessor_get_next_task, preprocessor_assign_tasks,                  *)
(* preprocessing_flush_queue, preprocessor_enqueue with the places in the  *)
(* line and the links of an item's values, preprocessor_enqueue_dependent, *)
(* preprocessor_add_result; then one lemma per message.  Loops are         *)
(* recursive functions on an interval: Iteration says that such a function *)
(* exists and that its values stay where its steps stay.                   *)
(***************************************************************************)
EXTENDS PreprocManager, TLAPS, WellFoundedInduction, FiniteSetTheorems

\* A set of numbers that is not empty has a least one.
LEMMA Least ==
  ASSUME NEW T, T \subseteq Nat, T # {}
  PROVE  \E x \in T : \A y \in T : x <= y
<1> DEFINE R == OpToRel(<, Nat)
<1>1. IsWellFoundedOn(R, Nat)
  BY NatLessThanWellFounded
<1>2. \A x, y \in Nat : <<x, y>> \in R <=> x < y
  BY DEF OpToRel
<1> HIDE DEF R
<1>3. PICK x \in T : \A y \in T : ~(<<y, x>> \in R)
  BY <1>1, WFMin
<1>4. \A y \in T : ~(y < x)
  BY <1>2, <1>3
<1> QED BY <1>3, <1>4

\* A set that holds 0 and the successor of each of its numbers holds all numbers.
LEMMA SetInduction ==
  ASSUME NEW S, 0 \in S, \A n \in Nat : n \in S => n + 1 \in S
  PROVE  Nat \subseteq S
<1> SUFFICES ASSUME Nat \ S # {} PROVE FALSE
  OBVIOUS
<1>1. PICK x \in Nat \ S : \A y \in Nat \ S : x <= y
  BY Least
<1>2. x - 1 \in Nat /\ x - 1 \in S
  BY <1>1
<1> QED BY <1>1, <1>2

\* A property of the first number that each number hands on to the next holds of all.
LEMMA Upwards ==
  ASSUME NEW a \in Nat, NEW b \in Nat, NEW S, a \in S,
         \A k \in a .. b - 1 : k \in S => k + 1 \in S
  PROVE  \A k \in a .. b : k \in S
<1> DEFINE T == {n \in Nat : a + n <= b => a + n \in S}
<1>1. 0 \in T
  OBVIOUS
<1>2. \A n \in Nat : n \in T => n + 1 \in T
  <2> SUFFICES ASSUME NEW n \in Nat, n \in T, a + (n + 1) <= b
               PROVE  a + (n + 1) \in S
    OBVIOUS
  <2>1. a + n \in a .. b - 1 /\ a + n \in S
    OBVIOUS
  <2> QED BY <2>1
<1> HIDE DEF T
<1>3. Nat \subseteq T
  BY <1>1, <1>2, SetInduction
<1> QED
  <2> SUFFICES ASSUME NEW k \in a .. b PROVE k \in S
    OBVIOUS
  <2>1. k - a \in T
    BY <1>3
  <2> QED BY <2>1 DEF T

\* Steps from a to b that start in a set and do not leave the sets given for each number.
Stays(a, b, S, Step, s0) ==
  /\ a \in Nat /\ b \in Nat /\ a <= b /\ s0 \in S[a]
  /\ \A k \in a + 1 .. b : \A s \in S[k - 1] : Step[k][s] \in S[k]

\* A function that makes these steps.
Runs(f, a, b, S, Step, s0) ==
  /\ f = [k \in a .. b |-> f[k]]
  /\ f[a] = s0
  /\ \A k \in a + 1 .. b : f[k] = Step[k][f[k - 1]]
  /\ \A k \in a .. b : f[k] \in S[k]

\* A recursive function on an interval exists, and its values stay in these sets.
LEMMA Iteration ==
  ASSUME NEW a, NEW b, NEW S, NEW Step, NEW s0, Stays(a, b, S, Step, s0)
  PROVE  \E f : Runs(f, a, b, S, Step, s0)
<1> USE DEF Stays
<1> DEFINE Fn(n) == {f \in [a .. n -> UNION {S[k] : k \in a .. n}] :
                       /\ f[a] = s0
                       /\ \A k \in a + 1 .. n : f[k] = Step[k][f[k - 1]]
                       /\ \A k \in a .. n : f[k] \in S[k]}
           T == {n \in a .. b : Fn(n) # {}}
<1>1. a \in T
  <2>1. [k \in a .. a |-> s0] \in Fn(a)
    OBVIOUS
  <2> QED BY <2>1
<1>2. \A n \in a .. b - 1 : n \in T => n + 1 \in T
  <2> SUFFICES ASSUME NEW n \in a .. b - 1, Fn(n) # {} PROVE Fn(n + 1) # {}
    <3>1. \A n \in a .. b - 1 : n + 1 \in a .. b
      OBVIOUS
    <3> QED BY <3>1
  <2>1. PICK f : f \in Fn(n)
    OBVIOUS
  <2> DEFINE last == Step[n + 1][f[n]]
             g == [k \in a .. n + 1 |-> IF k <= n THEN f[k] ELSE last]
  <2>2. f[n] \in S[n] /\ n + 1 \in a + 1 .. b /\ (n + 1) - 1 = n
    BY <2>1
  <2>3. last \in S[n + 1]
    BY <2>2
  <2>4. \A k \in a .. n : f[k] \in S[k]
    BY <2>1
  <2> HIDE DEF last
  <2>5. \A k \in a .. n + 1 : g[k] \in S[k]
    BY <2>3, <2>4
  <2>6. g \in [a .. n + 1 -> UNION {S[k] : k \in a .. n + 1}]
    BY <2>5
  <2>7. \A k \in a + 1 .. n : f[k] = Step[k][f[k - 1]]
    BY <2>1
  <2>8. g[a] = s0
    BY <2>1
  <2>9. \A k \in a + 1 .. n + 1 : g[k] = Step[k][g[k - 1]]
    <3> SUFFICES ASSUME NEW k \in a + 1 .. n + 1 PROVE g[k] = Step[k][g[k - 1]]
      OBVIOUS
    <3>1. CASE k <= n
      <4>1. k \in a + 1 .. n /\ k \in a .. n + 1 /\ k - 1 \in a .. n + 1 /\ k - 1 <= n
        BY <3>1
      <4>2. g[k] = f[k] /\ g[k - 1] = f[k - 1]
        BY <4>1
      <4> QED BY <4>1, <4>2, <2>7
    <3>2. CASE k = n + 1
      <4>1. g[k] = last /\ g[k - 1] = f[n]
        BY <3>2
      <4> QED BY <4>1, <3>2 DEF last
    <3> QED BY <3>1, <3>2
  <2> HIDE DEF g
  <2>10. g \in Fn(n + 1)
    BY <2>5, <2>6, <2>8, <2>9
  <2> QED BY <2>10
<1> HIDE DEF T
<1>3. b \in T
  <2>1. a .. b \subseteq Int /\ b \in a .. b
    OBVIOUS
  <2>2. \A k \in a .. b : k \in T
    BY <1>1, <1>2, Upwards
  <2> QED BY <2>1, <2>2
<1>4. PICK f : f \in Fn(b)
  BY <1>3 DEF T
<1>5. f = [k \in a .. b |-> f[k]]
  BY <1>4
<1> QED BY <1>4, <1>5 DEF Runs

\* The item from outside that an item depends on through its masters.
IsRoot(root) ==
  /\ root \in [Items -> Direct]
  /\ \A i \in Direct : root[i] = i
  /\ \A i \in Items : \A k \in DOMAIN Deps[i] : root[Deps[i][k]] = root[i]

Root == CHOOSE root : IsRoot(root)

\* An internal item without steps: its dependents may be queued by themselves.
Bare(i) == i \in Internal /\ Kinds[i] = "none"

\* The items whose order internal values cannot break.
Kept == {i \in Items : i \in Direct \/ ~Bare(Root[i])}

Live(mm, id) == InQueue(mm, id) /\ ~InState(mm, id, "DONE")

InLine(mm, id) == \E k \in 1 .. Len(mm.line) : mm.line[k] = id

\* The line, its requests, the position kept in it and its length.
Line(mm) ==
  /\ mm.left <= Len(mm.line)
  /\ \A j, k \in 1 .. Len(mm.line) : mm.line[j] = mm.line[k] => j = k
  /\ \A k \in 1 .. Len(mm.line) : InQueue(mm, mm.line[k]) <=> k > mm.left
  /\ \A id \in Ids : InQueue(mm, id) => InLine(mm, id)
  /\ mm.tail # None => InQueue(mm, mm.tail)
  /\ mm.queued = Len(mm.line) - mm.left

\* Nothing is in line that did not come, and a dependent only after its master was done.
Came(mm, arr) ==
  /\ \A k \in 1 .. Len(mm.line) : mm.line[k][2] <= arr[Root[mm.line[k][1]]]
  /\ \A i \in Items, n \in Nat : \A d \in DOMAIN Deps[i] :
       InLine(mm, <<Deps[i][d], n>>) => InLine(mm, <<i, n>>) /\ ~Live(mm, <<i, n>>)

Together(x, y) == x[1] \in Kept /\ y[1] \in Kept /\ Root[x[1]] = Root[y[1]]

\* The order of the line, and where the internal values in the queue stand.
Ordered(mm) ==
  /\ \A j, k \in 1 .. Len(mm.line) :
       j < k /\ Together(mm.line[j], mm.line[k]) => mm.line[j][2] <= mm.line[k][2]
  /\ \A k \in mm.left + 1 .. Len(mm.line) :
       mm.line[k][1] \in Kept /\ Root[mm.line[k][1]] \in Internal
         => mm.tail # None /\ \E t \in k .. Len(mm.line) : mm.line[t] = mm.tail

\* Each request by itself.
Sound(mm) ==
  /\ \A id \in Ids : InQueue(mm, id) =>
       /\ Live(mm, id) /\ ~mm.request[id].supported => id[1] \in Direct
       /\ InState(mm, id, "PROCESSING") => mm.request[id].supported
       /\ Kinds[id[1]] # "history" => mm.request[id].pending = None /\ ~InState(mm, id, "PENDING")
  /\ \A i \in Items : mm.conf[i].kind = Kinds[i]

\* The chains of the values of an item with history: pending leads from each to the next,
\* linked to the last.  The ranks say that they go round in no circle.
Chained(mm, rank) ==
  /\ \A x \in Ids : Live(mm, x) /\ mm.request[x].pending # None =>
       LET s == mm.request[x].pending
       IN  /\ InState(mm, s, "PENDING") /\ s[1] = x[1] /\ rank[x] < rank[s]
           /\ x[1] \in Direct => x[2] < s[2]
  /\ \A x, y \in Ids : Live(mm, x) /\ Live(mm, y) /\ mm.request[x].pending # None
                       /\ mm.request[x].pending = mm.request[y].pending => x = y
  /\ \A s \in Ids : InState(mm, s, "PENDING") =>
        \E x \in Ids : Live(mm, x) /\ mm.request[x].pending = s
  /\ \A x \in Ids : Live(mm, x) /\ Kinds[x[1]] = "history" /\ mm.request[x].pending = None
        => mm.linked[x[1]] = x
  /\ \A x, y \in Ids : Live(mm, x) /\ Live(mm, y) /\ Kinds[x[1]] = "history" /\ x[1] = y[1]
         /\ ~InState(mm, x, "PENDING") /\ ~InState(mm, y, "PENDING") => x = y
  /\ \A i \in Items : mm.linked[i] # None =>
       /\ Kinds[i] = "history" /\ mm.linked[i][1] = i /\ Live(mm, mm.linked[i])
       /\ mm.request[mm.linked[i]].pending = None
  /\ \A x \in Ids : Live(mm, x) /\ Kinds[x[1]] = "history" => mm.linked[x[1]] # None

Linked(mm) == \E rank \in [Ids -> Nat] : Chained(mm, rank)

\* preproc_num, but for what the handler has still to take off.
Counted(mm, e) == mm.preproc = Cardinality(Unanswered(mm)) + e

\* What the workers hold, but for those whose answer is being handled.
Worked(mm, X) ==
  \A w \in Workers \ X : mm.work[w].task \in Ids =>
    LET id == mm.work[w].task
    IN  /\ InState(mm, id, "PROCESSING")
        /\ \A x \in Workers \ X : mm.work[x].task = id => x = w
        /\ mm.conf[id[1]] = [kind |-> "history", ver |-> 0] => mm.history[id[1]] = mm.work[w].past

\* What the search for tasks leaves as it is.
Advanced(a, b) ==
  /\ a.line = b.line /\ a.left = b.left /\ a.tail = b.tail /\ a.queued = b.queued
  /\ a.preproc = b.preproc /\ a.conf = b.conf /\ a.registered = b.registered
  /\ \A id \in Ids :
       /\ InQueue(a, id) <=> InQueue(b, id)
       /\ InQueue(a, id) =>
            /\ a.request[id].supported = b.request[id].supported
            /\ InState(a, id, "DONE") => InState(b, id, "DONE")
            /\ InState(b, id, "DONE") /\ a.request[id].supported => InState(a, id, "DONE")

\* What an id is made of.
LEMMA IdsAre ==
  /\ \A i, n : <<i, n>> \in Ids <=> i \in Items /\ n \in 1 .. MaxValues[i]
  /\ \A id \in Ids : id = <<id[1], id[2]>> /\ id[1] \in Items /\ id[2] \in 1 .. MaxValues[id[1]]
                     /\ id[2] \in Nat
<1>1. \A i \in Items : MaxValues[i] \in Nat
  BY ManagerAssumption
<1>2. \A id : id \in Ids <=> \E i \in Items : id \in {i} \X (1 .. MaxValues[i])
  BY DEF Ids
<1>3. \A i, n : <<i, n>> \in Ids <=> i \in Items /\ n \in 1 .. MaxValues[i]
  BY <1>2
<1>4. ASSUME NEW id \in Ids
      PROVE  id = <<id[1], id[2]>> /\ id[1] \in Items /\ id[2] \in 1 .. MaxValues[id[1]]
             /\ id[2] \in Nat
  <2>1. PICK i \in Items : id \in {i} \X (1 .. MaxValues[i])
    BY <1>2
  <2>2. PICK n \in 1 .. MaxValues[i] : id = <<i, n>>
    BY <2>1
  <2> QED BY <2>2, <1>1
<1> QED BY <1>3, <1>4

\* None and the tests are no ids.
LEMMA NoneIsNoId == None \notin Ids /\ None \notin Tests /\ \A t \in Tests : t \notin Ids
  BY NoneAssumption

\* Root is such a function.
LEMMA RootIs == IsRoot(Root)
<1>1. \E root : IsRoot(root)
  BY MasterAssumption DEF IsRoot
<1> QED BY <1>1 DEF Root

\* The dependents of an item.
LEMMA DepsAre ==
  ASSUME NEW i \in Items, NEW k \in DOMAIN Deps[i]
  PROVE  /\ Deps[i] \in Seq(Items \ Direct) /\ k \in 1 .. Len(Deps[i])
         /\ Deps[i][k] \in Items /\ Deps[i][k] \notin Direct /\ Deps[i][k] \notin Internal
         /\ Root[Deps[i][k]] = Root[i] /\ Root[i] \in Direct
         /\ Deps[i][k] \in Kept => i \in Kept /\ ~Bare(i)
         /\ \A n : <<i, n>> \in Ids => <<Deps[i][k], n>> \in Ids
<1>1. Deps[i] \in Seq(Items \ Direct)
  BY ManagerAssumption
<1>2. k \in 1 .. Len(Deps[i]) /\ Deps[i][k] \in Items \ Direct
  BY <1>1
<1>3. Root[Deps[i][k]] = Root[i] /\ Root[i] \in Direct /\ (i \in Direct => Root[i] = i)
  BY RootIs DEF IsRoot
<1>4. Deps[i][k] \in Kept => i \in Kept /\ ~Bare(i)
  BY <1>2, <1>3, ManagerAssumption DEF Kept, Bare
<1>5. \A n : <<i, n>> \in Ids => <<Deps[i][k], n>> \in Ids
  BY <1>2, IdsAre, MasterAssumption
<1> QED BY <1>1, <1>2, <1>3, <1>4, <1>5, ManagerAssumption

\* Items from outside keep their order and are their own roots.
LEMMA KeptAre == Direct \subseteq Kept /\ Kept \subseteq Items /\ \A i \in Direct : Root[i] = i
  BY RootIs, ManagerAssumption DEF IsRoot, Kept

\* What InQueue and InState say of the requests.
LEMMA RequestIs ==
  ASSUME NEW mm \in Managers, NEW id \in Ids
  PROVE  /\ InQueue(mm, id) => mm.request[id] \in Requests
         /\ \A s : InState(mm, id, s) <=> InQueue(mm, id) /\ mm.request[id].state = s
  BY DEF Managers, InQueue, InState

\* The types of the fields that the order is about.
LEMMA FieldsAre ==
  ASSUME NEW mm \in Managers
  PROVE  /\ mm.line \in Seq(Ids) /\ mm.left \in Nat /\ mm.tail \in Ids \cup {None}
         /\ mm.linked \in [Items -> Ids \cup {None}]
         /\ \A k \in 1 .. Len(mm.line) : mm.line[k] \in Ids
         /\ Len(mm.line) \in Nat
  BY DEF Managers

\* What does not mind which values are in work stays true when the search advances.
LEMMA AdvancedKeeps ==
  ASSUME NEW a \in Managers, NEW b \in Managers, Advanced(a, b), NEW arr, NEW e
  PROVE  /\ Line(a) => Line(b)
         /\ Came(a, arr) => Came(b, arr)
         /\ Ordered(a) => Ordered(b)
         /\ Counted(a, e) => Counted(b, e)
<1>1. \A id \in Ids : (InQueue(a, id) <=> InQueue(b, id)) /\ (Live(b, id) => Live(a, id))
  BY DEF Advanced, Live
<1>2. \A id : InLine(a, id) <=> InLine(b, id)
  BY DEF Advanced, InLine
<1>3. a.line = b.line /\ a.left = b.left /\ a.tail = b.tail /\ a.queued = b.queued
  BY DEF Advanced
<1>4. a.line \in Seq(Ids) /\ a.tail \in Ids \cup {None}
  BY DEF Managers
<1>5. \A k \in 1 .. Len(a.line) : a.line[k] \in Ids
  BY <1>4
<1>6. Line(a) => Line(b)
  BY <1>1, <1>2, <1>3, <1>4, <1>5 DEF Line
<1>7. Came(a, arr) => Came(b, arr)
  <2>1. \A i \in Items, n \in Nat : InLine(a, <<i, n>>) => <<i, n>> \in Ids
    BY <1>5 DEF InLine
  <2> QED BY <1>1, <1>2, <1>3, <2>1 DEF Came
<1>8. Ordered(a) => Ordered(b)
  BY <1>3 DEF Ordered
<1>9. Counted(a, e) => Counted(b, e)
  <2>1. Unanswered(a) = Unanswered(b)
    BY DEF Unanswered, Advanced
  <2> QED BY <2>1 DEF Counted, Advanced
<1> QED BY <1>6, <1>7, <1>8, <1>9

\* Advancing twice is advancing.
LEMMA AdvancedFurther ==
  ASSUME NEW a, NEW b, NEW c, Advanced(a, b), Advanced(b, c)
  PROVE  Advanced(a, c)
  BY DEF Advanced

\* SetRequestStateDone changes states and links only.
DoneFrame(a, b) ==
  /\ a.line = b.line /\ a.left = b.left /\ a.tail = b.tail /\ a.queued = b.queued
  /\ a.preproc = b.preproc /\ a.conf = b.conf /\ a.registered = b.registered
  /\ a.direct = b.direct /\ a.work = b.work /\ a.history = b.history

\* preprocessor_set_request_state_done, request by request.
LEMMA DoneIs ==
  ASSUME NEW mm \in Managers, NEW id \in Ids, InQueue(mm, id),
         mm.request[id].pending # None => InQueue(mm, mm.request[id].pending),
         NEW d, d = SetRequestStateDone(mm, id)
  PROVE  /\ d \in Managers /\ DoneFrame(mm, d)
         /\ d.linked = [mm.linked EXCEPT ![id[1]] = IF @ = id THEN None ELSE @]
         /\ \A x \in Ids :
              /\ InQueue(d, x) <=> InQueue(mm, x)
              /\ InQueue(mm, x) =>
                   /\ d.request[x].supported = mm.request[x].supported
                   /\ d.request[x].set = mm.request[x].set
                   /\ d.request[x].pending = mm.request[x].pending
                   /\ d.request[x].steps = mm.request[x].steps
                   /\ d.request[x].state = IF x = id THEN "DONE"
                                           ELSE IF x = mm.request[id].pending THEN "QUEUED"
                                           ELSE mm.request[x].state
<1> DEFINE next == mm.request[id].pending
           req == [x \in Ids |-> IF x = id THEN [mm.request[x] EXCEPT !.state = "DONE"]
                                 ELSE IF x = next THEN [mm.request[x] EXCEPT !.state = "QUEUED"]
                                 ELSE mm.request[x]]
           lnk == [mm.linked EXCEPT ![id[1]] = IF @ = id THEN None ELSE @]
<1>1. d = [mm EXCEPT !.request = req, !.linked = lnk]
  BY DEF SetRequestStateDone
<1>2. \A x \in Ids : InQueue(mm, x) => mm.request[x] \in Requests
  BY RequestIs
<1>3. \A x \in Ids : (x = id \/ x = next) => InQueue(mm, x)
  BY NoneIsNoId
<1>4. req \in [Ids -> Requests \cup {None}]
  <2> SUFFICES ASSUME NEW x \in Ids PROVE req[x] \in Requests \cup {None}
    OBVIOUS
  <2>1. CASE x = id \/ x = next
    BY <2>1, <1>2, <1>3 DEF Requests
  <2>2. CASE x # id /\ x # next
    BY <2>2 DEF Managers
  <2> QED BY <2>1, <2>2
<1>5. lnk \in [Items -> Ids \cup {None}]
  BY FieldsAre, IdsAre
<1>6. \A x \in Ids :
              /\ req[x] # None <=> InQueue(mm, x)
              /\ InQueue(mm, x) =>
                   /\ req[x].supported = mm.request[x].supported
                   /\ req[x].set = mm.request[x].set
                   /\ req[x].pending = mm.request[x].pending
                   /\ req[x].steps = mm.request[x].steps
                   /\ req[x].state = IF x = id THEN "DONE"
                                           ELSE IF x = mm.request[id].pending THEN "QUEUED"
                                           ELSE mm.request[x].state
  <2> SUFFICES ASSUME NEW x \in Ids
      PROVE   /\ req[x] # None <=> InQueue(mm, x)
              /\ InQueue(mm, x) =>
                   /\ req[x].supported = mm.request[x].supported
                   /\ req[x].set = mm.request[x].set
                   /\ req[x].pending = mm.request[x].pending
                   /\ req[x].steps = mm.request[x].steps
                   /\ req[x].state = IF x = id THEN "DONE"
                                           ELSE IF x = mm.request[id].pending THEN "QUEUED"
                                           ELSE mm.request[x].state
    OBVIOUS
  <2>1. CASE x = id \/ x = next
    BY <2>1, <1>2, <1>3, NoneAssumption DEF Requests, InQueue
  <2>2. CASE x # id /\ x # next
    BY <2>2 DEF InQueue
  <2> QED BY <2>1, <2>2
<1> HIDE DEF req, lnk
<1>7. d \in Managers /\ d.request = req /\ d.linked = lnk /\ DoneFrame(mm, d)
  BY <1>1, <1>4, <1>5 DEF Managers, DoneFrame
<1> QED BY <1>6, <1>7 DEF InQueue, lnk

\* A value that is in the queue and not done, of an item with history that has no link, is
\* not there: its chain would end in the link.
LEMMA ChainEnds ==
  ASSUME NEW mm \in Managers, NEW rank \in [Ids -> Nat], Chained(mm, rank),
         NEW id \in Ids, Live(mm, id), ~InState(mm, id, "PENDING"),
         mm.request[id].pending = None,
         NEW x \in Ids, Live(mm, x), x[1] = id[1], Kinds[id[1]] = "history"
  PROVE  x = id
<1> DEFINE Others == {y \in Ids : Live(mm, y) /\ y[1] = id[1] /\ y # id}
<1> SUFFICES ASSUME x # id PROVE FALSE
  OBVIOUS
<1>1. {rank[y] : y \in Others} \subseteq Nat /\ {rank[y] : y \in Others} # {}
  OBVIOUS
<1>2. PICK y \in Others : \A z \in Others : rank[y] <= rank[z]
  <2>1. PICK n \in {rank[y] : y \in Others} : \A l \in {rank[y] : y \in Others} : n <= l
    BY <1>1, Least
  <2> QED BY <2>1
<1>3. InState(mm, y, "PENDING")
  BY <1>2 DEF Chained
<1>4. PICK z \in Ids : Live(mm, z) /\ mm.request[z].pending = y
  BY <1>3 DEF Chained
<1>5. z[1] = y[1] /\ rank[z] < rank[y]
  BY <1>4, NoneIsNoId DEF Chained
<1>6. z \in Others
  BY <1>2, <1>4, <1>5, NoneIsNoId
<1> QED BY <1>2, <1>5, <1>6

\* When a value is done the next of its item is released: the chains stay whole.
LEMMA DoneKeeps ==
  ASSUME NEW mm \in Managers, Sound(mm), Linked(mm),
         NEW id \in Ids, Live(mm, id), ~InState(mm, id, "PENDING"),
         NEW d, d = SetRequestStateDone(mm, id)
  PROVE  /\ d \in Managers /\ DoneFrame(mm, d) /\ Sound(d) /\ Linked(d)
         /\ \A x \in Ids :
              /\ InQueue(d, x) <=> InQueue(mm, x)
              /\ InQueue(mm, x) => d.request[x].supported = mm.request[x].supported
              /\ Live(d, x) <=> Live(mm, x) /\ x # id
              /\ InState(d, x, "DONE") <=> InState(mm, x, "DONE") \/ x = id
              /\ InState(d, x, "PROCESSING") <=> InState(mm, x, "PROCESSING") /\ x # id
              /\ InState(d, x, "QUEUED")
                   <=> (InState(mm, x, "QUEUED") /\ x # id) \/ x = mm.request[id].pending
         /\ mm.request[id].pending # None =>
              /\ InState(mm, mm.request[id].pending, "PENDING")
              /\ mm.request[id].pending[1] = id[1]
              /\ id[1] \in Direct => id[2] < mm.request[id].pending[2]
<1> DEFINE next == mm.request[id].pending
<1>1. PICK rank \in [Ids -> Nat] : Chained(mm, rank)
  BY DEF Linked
<1>2. InQueue(mm, id) /\ next \in Ids \cup {None}
  BY RequestIs DEF Live, Requests
<1>3. next # None =>
        /\ InState(mm, next, "PENDING") /\ next[1] = id[1] /\ rank[id] < rank[next]
        /\ id[1] \in Direct => id[2] < next[2]
  BY <1>1, <1>2 DEF Chained
<1>4. /\ d \in Managers /\ DoneFrame(mm, d)
      /\ d.linked = [mm.linked EXCEPT ![id[1]] = IF @ = id THEN None ELSE @]
      /\ \A x \in Ids :
           /\ InQueue(d, x) <=> InQueue(mm, x)
           /\ InQueue(mm, x) =>
                /\ d.request[x].supported = mm.request[x].supported
                /\ d.request[x].set = mm.request[x].set
                /\ d.request[x].pending = mm.request[x].pending
                /\ d.request[x].steps = mm.request[x].steps
                /\ d.request[x].state = IF x = id THEN "DONE"
                                        ELSE IF x = next THEN "QUEUED" ELSE mm.request[x].state
  <2>1. mm.request[id].pending # None => InQueue(mm, mm.request[id].pending)
    BY <1>3 DEF InState
  <2> QED BY <1>2, <2>1, DoneIs
<1> HIDE DEF next
<1>5. next # id
  BY <1>1, <1>2, <1>3, NoneIsNoId
<1>6. \A x \in Ids : \A s : InState(d, x, s) <=>
        InQueue(mm, x) /\ s = IF x = id THEN "DONE"
                              ELSE IF x = next THEN "QUEUED" ELSE mm.request[x].state
  BY <1>4, RequestIs
<1>7. \A x \in Ids :
        /\ Live(d, x) <=> Live(mm, x) /\ x # id
        /\ InState(d, x, "DONE") <=> InState(mm, x, "DONE") \/ x = id
        /\ InState(d, x, "PENDING") <=> InState(mm, x, "PENDING") /\ x # next
        /\ InState(d, x, "PROCESSING") <=> InState(mm, x, "PROCESSING") /\ x # id
        /\ InState(d, x, "QUEUED") <=> (InState(mm, x, "QUEUED") /\ x # id) \/ x = next
  <2>1. \A x \in Ids : \A s : InState(mm, x, s) <=> InQueue(mm, x) /\ mm.request[x].state = s
    BY RequestIs
  <2>2. next \in Ids => InState(mm, next, "PENDING")
    BY <1>3, NoneIsNoId
  <2>3. ~InState(mm, id, "PENDING") /\ Live(mm, id)
    OBVIOUS
  <2>4. InQueue(mm, id) /\ mm.request[id].state # "PENDING"
    BY <2>1, <2>3, <1>2
  <2>5. next \in Ids => InQueue(mm, next) /\ mm.request[next].state = "PENDING"
    BY <2>1, <2>2
  <2>6. \A x \in Ids : InState(d, x, "PENDING") <=> InState(mm, x, "PENDING") /\ x # next
    BY <1>6, <2>1, <2>4
  <2>7. \A x \in Ids : InState(d, x, "DONE") <=> InState(mm, x, "DONE") \/ x = id
    BY <1>6, <2>1, <2>4, <2>5, <1>5
  <2>8. \A x \in Ids : InState(d, x, "PROCESSING") <=> InState(mm, x, "PROCESSING") /\ x # id
    BY <1>6, <2>1, <2>4, <2>5, <1>5
  <2>9. \A x \in Ids : InState(d, x, "QUEUED") <=> (InState(mm, x, "QUEUED") /\ x # id) \/ x = next
    BY <1>6, <2>1, <2>4, <2>5, <1>5
  <2>10. \A x \in Ids : Live(d, x) <=> Live(mm, x) /\ x # id
    BY <2>7, <1>4 DEF Live
  <2> QED BY <2>6, <2>7, <2>8, <2>9, <2>10
<1>8. Sound(d)
  <2>1. d.conf = mm.conf
    BY <1>4 DEF DoneFrame
  <2>2. \A x \in Ids : InState(d, x, "PENDING") => InState(mm, x, "PENDING")
    BY <1>7
  <2> QED BY <1>4, <1>7, <2>1, <2>2 DEF Sound
<1>9. Chained(d, rank)
  <2>1. \A x \in Ids : Live(d, x) => Live(mm, x) /\ x # id /\ d.request[x].pending = mm.request[x].pending
    BY <1>4, <1>7 DEF Live
  <2>2. \A x \in Ids : Live(d, x) /\ d.request[x].pending # None => d.request[x].pending # next
    BY <1>1, <2>1, NoneIsNoId DEF Chained, next
  <2>3. \A x \in Ids : Live(d, x) /\ d.request[x].pending # None =>
         LET s == d.request[x].pending
         IN  /\ InState(d, s, "PENDING") /\ s[1] = x[1] /\ rank[x] < rank[s]
             /\ x[1] \in Direct => x[2] < s[2]
    <3> SUFFICES ASSUME NEW x \in Ids, Live(d, x), d.request[x].pending # None
                 PROVE  LET s == d.request[x].pending
                        IN  /\ InState(d, s, "PENDING") /\ s[1] = x[1] /\ rank[x] < rank[s]
                            /\ x[1] \in Direct => x[2] < s[2]
      OBVIOUS
    <3> DEFINE s == mm.request[x].pending
    <3>1. s # None /\ s # next /\ s = d.request[x].pending /\ Live(mm, x)
      BY <2>1, <2>2
    <3>2. s \in Ids
      BY <3>1, RequestIs DEF Live, Requests
    <3>3. InState(mm, s, "PENDING") /\ s[1] = x[1] /\ rank[x] < rank[s]
             /\ (x[1] \in Direct => x[2] < s[2])
      BY <3>1, <1>1 DEF Chained
    <3>4. InState(d, s, "PENDING")
      BY <3>1, <3>2, <3>3, <1>7
    <3> QED BY <3>1, <3>3, <3>4
  <2>4. \A x, y \in Ids : Live(d, x) /\ Live(d, y) /\ d.request[x].pending # None
                          /\ d.request[x].pending = d.request[y].pending => x = y
    BY <1>1, <2>1 DEF Chained
  <2>5. \A s \in Ids : InState(d, s, "PENDING") =>
          \E x \in Ids : Live(d, x) /\ d.request[x].pending = s
    <3> SUFFICES ASSUME NEW s \in Ids, InState(d, s, "PENDING")
                 PROVE  \E x \in Ids : Live(d, x) /\ d.request[x].pending = s
      OBVIOUS
    <3>1. InState(mm, s, "PENDING") /\ s # next
      BY <1>7
    <3>2. PICK x \in Ids : Live(mm, x) /\ mm.request[x].pending = s
      BY <1>1, <3>1 DEF Chained
    <3>3. x # id
      BY <3>1, <3>2 DEF next
    <3> QED BY <3>2, <3>3, <1>7, <2>1
  <2>6. \A x, y \in Ids : Live(d, x) /\ Live(d, y) /\ Kinds[x[1]] = "history" /\ x[1] = y[1]
          /\ ~InState(d, x, "PENDING") /\ ~InState(d, y, "PENDING") => x = y
    <3> SUFFICES ASSUME NEW x \in Ids, NEW y \in Ids, Live(d, x), Live(d, y), x # y,
                        Kinds[x[1]] = "history", x[1] = y[1],
                        ~InState(d, x, "PENDING"), ~InState(d, y, "PENDING")
                 PROVE  FALSE
      OBVIOUS
    <3>1. \A z \in {x, y} : z # next => Live(mm, z) /\ ~InState(mm, z, "PENDING") /\ z # id
      BY <1>7
    <3>2. \A z \in {x, y} : z # next => z[1] # id[1]
      BY <3>1, <1>1 DEF Chained
    <3>3. x # next \/ y # next
      OBVIOUS
    <3>4. x = next \/ y = next
      BY <1>1, <3>1 DEF Chained
    <3> QED BY <3>2, <3>3, <3>4, <1>3, NoneIsNoId
  <2>7. \A x \in Ids : Live(d, x) /\ Kinds[x[1]] = "history" /\ d.request[x].pending = None
          => d.linked[x[1]] = x
    <3> SUFFICES ASSUME NEW x \in Ids, Live(d, x), Kinds[x[1]] = "history", d.request[x].pending = None
                 PROVE  d.linked[x[1]] = x
      OBVIOUS
    <3>1. mm.linked[x[1]] = x /\ x # id
      BY <2>1, <1>1 DEF Chained
    <3> QED BY <3>1, <1>4, IdsAre, FieldsAre
  <2>8. \A i \in Items : d.linked[i] # None =>
          /\ Kinds[i] = "history" /\ d.linked[i][1] = i /\ Live(d, d.linked[i])
          /\ d.request[d.linked[i]].pending = None
    <3> SUFFICES ASSUME NEW i \in Items, d.linked[i] # None
                 PROVE  /\ Kinds[i] = "history" /\ d.linked[i][1] = i /\ Live(d, d.linked[i])
                        /\ d.request[d.linked[i]].pending = None
      OBVIOUS
    <3>1. d.linked[i] = mm.linked[i] /\ mm.linked[i] \in Ids
      BY <1>4, FieldsAre
    <3>2. /\ Kinds[i] = "history" /\ mm.linked[i][1] = i /\ Live(mm, mm.linked[i])
          /\ mm.request[mm.linked[i]].pending = None
      BY <3>1, <1>1 DEF Chained
    <3>3. mm.linked[i] # id
      BY <3>1, <3>2, <1>4, IdsAre, NoneIsNoId, FieldsAre
    <3>4. Live(d, mm.linked[i])
      BY <3>1, <3>2, <3>3, <1>7
    <3> QED BY <3>1, <3>2, <3>4, <2>1
  <2>9. \A x \in Ids : Live(d, x) /\ Kinds[x[1]] = "history" => d.linked[x[1]] # None
    <3> SUFFICES ASSUME NEW x \in Ids, Live(d, x), Kinds[x[1]] = "history", d.linked[x[1]] = None
                 PROVE  FALSE
      OBVIOUS
    <3>1. Live(mm, x) /\ x # id
      BY <2>1
    <3>2. mm.linked[x[1]] # None
      BY <3>1, <1>1 DEF Chained
    <3>3. x[1] = id[1] /\ mm.linked[x[1]] = id
      BY <3>2, <1>4, IdsAre, FieldsAre
    <3>4. mm.request[id].pending = None
      BY <3>2, <3>3, IdsAre, <1>1 DEF Chained
    <3> QED BY <3>1, <3>3, <3>4, <1>1, ChainEnds
  <2> QED BY <2>3, <2>4, <2>5, <2>6, <2>7, <2>8, <2>9 DEF Chained
<1> QED BY <1>1, <1>3, <1>4, <1>7, <1>8, <1>9 DEF Linked, next

\* The chains are a matter of what is still to be done.
LEMMA SameChains ==
  ASSUME NEW a \in Managers, NEW b \in Managers, a.linked = b.linked,
         \A x \in Ids : Live(a, x) <=> Live(b, x),
         \A x \in Ids : InState(a, x, "PENDING") <=> InState(b, x, "PENDING"),
         \A x \in Ids : Live(a, x) => a.request[x].pending = b.request[x].pending,
         Linked(a)
  PROVE  Linked(b)
<1>1. PICK rank \in [Ids -> Nat] : Chained(a, rank)
  BY DEF Linked
<1>2. \A x \in Ids : Live(a, x) => a.request[x].pending \in Ids \cup {None}
  BY RequestIs DEF Live, Requests
<1>3. \A i \in Items : a.linked[i] \in Ids \cup {None}
  BY FieldsAre
<1>4. Chained(b, rank)
  <2>1. \A x \in Ids : Live(b, x) /\ b.request[x].pending # None =>
         LET s == b.request[x].pending
         IN  /\ InState(b, s, "PENDING") /\ s[1] = x[1] /\ rank[x] < rank[s]
             /\ x[1] \in Direct => x[2] < s[2]
    BY <1>1, <1>2 DEF Chained
  <2>2. \A x, y \in Ids : Live(b, x) /\ Live(b, y) /\ b.request[x].pending # None
                          /\ b.request[x].pending = b.request[y].pending => x = y
    BY <1>1 DEF Chained
  <2>3. \A s \in Ids : InState(b, s, "PENDING") =>
          \E x \in Ids : Live(b, x) /\ b.request[x].pending = s
    BY <1>1 DEF Chained
  <2>4. \A x \in Ids : Live(b, x) /\ Kinds[x[1]] = "history" /\ b.request[x].pending = None
          => b.linked[x[1]] = x
    BY <1>1 DEF Chained
  <2>5. \A x, y \in Ids : Live(b, x) /\ Live(b, y) /\ Kinds[x[1]] = "history" /\ x[1] = y[1]
          /\ ~InState(b, x, "PENDING") /\ ~InState(b, y, "PENDING") => x = y
    BY <1>1 DEF Chained
  <2>6. \A i \in Items : b.linked[i] # None =>
          /\ Kinds[i] = "history" /\ b.linked[i][1] = i /\ Live(b, b.linked[i])
          /\ b.request[b.linked[i]].pending = None
    BY <1>1, <1>3 DEF Chained
  <2>7. \A x \in Ids : Live(b, x) /\ Kinds[x[1]] = "history" => b.linked[x[1]] # None
    BY <1>1 DEF Chained
  <2> QED BY <2>1, <2>2, <2>3, <2>4, <2>5, <2>6, <2>7 DEF Chained
<1> QED BY <1>4 DEF Linked

\* The history kept of an item may change; the rest does not mind.
LEMMA HistoryIs ==
  ASSUME NEW mm \in Managers, NEW i \in Items, NEW h \in Histories,
         NEW a, a = Remember(mm, i, h)
  PROVE  /\ a \in Managers
         /\ a.line = mm.line /\ a.left = mm.left /\ a.tail = mm.tail /\ a.queued = mm.queued
         /\ a.preproc = mm.preproc /\ a.conf = mm.conf /\ a.registered = mm.registered
         /\ a.direct = mm.direct /\ a.work = mm.work
         /\ a.request = mm.request /\ a.linked = mm.linked
         /\ a.history = [mm.history EXCEPT ![i] = h]
         /\ \A id : (InQueue(a, id) <=> InQueue(mm, id)) /\ (Live(a, id) <=> Live(mm, id))
         /\ \A id, s : InState(a, id, s) <=> InState(mm, id, s)
         /\ Sound(mm) => Sound(a)
         /\ Linked(mm) => Linked(a)
<1>1. /\ a \in Managers
      /\ a.line = mm.line /\ a.left = mm.left /\ a.tail = mm.tail /\ a.queued = mm.queued
      /\ a.preproc = mm.preproc /\ a.conf = mm.conf /\ a.registered = mm.registered
      /\ a.direct = mm.direct /\ a.work = mm.work
      /\ a.request = mm.request /\ a.linked = mm.linked
      /\ a.history = [mm.history EXCEPT ![i] = h]
  BY DEF Managers, Remember
<1>2. /\ \A id : (InQueue(a, id) <=> InQueue(mm, id)) /\ (Live(a, id) <=> Live(mm, id))
      /\ \A id, s : InState(a, id, s) <=> InState(mm, id, s)
  BY <1>1 DEF InQueue, InState, Live
<1>3. Sound(mm) => Sound(a)
  BY <1>1, <1>2 DEF Sound
<1>4. Linked(mm) => Linked(a)
  BY <1>1, <1>2, SameChains
<1> QED BY <1>1, <1>2, <1>3, <1>4

\* A value in the queue changes into processing.
LEMMA TakeIs ==
  ASSUME NEW mm \in Managers, NEW id \in Ids, InState(mm, id, "QUEUED"),
         mm.request[id].supported, Sound(mm), Linked(mm),
         NEW t, t = [mm EXCEPT !.request[id].state = "PROCESSING"]
  PROVE  /\ t \in Managers /\ Advanced(mm, t) /\ Sound(t) /\ Linked(t)
         /\ t.direct = mm.direct /\ t.work = mm.work /\ t.history = mm.history
         /\ InState(t, id, "PROCESSING")
         /\ \A x \in Ids : InState(mm, x, "PROCESSING") => InState(t, x, "PROCESSING") /\ x # id
<1>1. mm.request[id] \in Requests /\ mm.request[id].state = "QUEUED" /\ InQueue(mm, id)
  BY RequestIs
<1> DEFINE req == [mm.request EXCEPT ![id] = [@ EXCEPT !.state = "PROCESSING"]]
<1> DEFINE r == [mm.request[id] EXCEPT !.state = "PROCESSING"]
<1>a. /\ r \in Requests /\ r # None /\ r.state = "PROCESSING"
      /\ r.supported = mm.request[id].supported /\ r.pending = mm.request[id].pending
  <2>1. /\ r \in Requests /\ r.state = "PROCESSING"
        /\ r.supported = mm.request[id].supported /\ r.pending = mm.request[id].pending
    BY <1>1 DEF Requests
  <2> QED BY <2>1, NoneAssumption
<1>b. req = [mm.request EXCEPT ![id] = r]
  OBVIOUS
<1>3. t = [mm EXCEPT !.request = req]
  OBVIOUS
<1> HIDE DEF r, req
<1>2. req \in [Ids -> Requests \cup {None}]
  BY <1>a, <1>b DEF Managers
<1>4. /\ req[id] # None /\ req[id].state = "PROCESSING"
      /\ req[id].supported = mm.request[id].supported
      /\ req[id].pending = mm.request[id].pending
      /\ \A x \in Ids : x # id => req[x] = mm.request[x]
  BY <1>a, <1>b DEF Managers
<1>5. /\ t \in Managers /\ t.request = req
      /\ t.line = mm.line /\ t.left = mm.left /\ t.tail = mm.tail /\ t.queued = mm.queued
      /\ t.preproc = mm.preproc /\ t.conf = mm.conf /\ t.registered = mm.registered
      /\ t.direct = mm.direct /\ t.work = mm.work /\ t.history = mm.history
      /\ t.linked = mm.linked
  BY <1>2, <1>3 DEF Managers
<1>6. \A x \in Ids :
        /\ InQueue(t, x) <=> InQueue(mm, x)
        /\ InQueue(mm, x) => /\ t.request[x].supported = mm.request[x].supported
                             /\ t.request[x].pending = mm.request[x].pending
        /\ InState(t, x, "DONE") <=> InState(mm, x, "DONE")
        /\ InState(t, x, "PENDING") <=> InState(mm, x, "PENDING")
        /\ InState(t, x, "PROCESSING") <=> InState(mm, x, "PROCESSING") \/ x = id
        /\ Live(t, x) <=> Live(mm, x)
  BY <1>1, <1>4, <1>5 DEF InQueue, InState, Live
<1>7. Advanced(mm, t)
  BY <1>5, <1>6 DEF Advanced
<1>8. Sound(t)
  BY <1>5, <1>6 DEF Sound
<1>9. Linked(t)
  <2>1. \A x \in Ids : Live(mm, x) => mm.request[x].pending = t.request[x].pending
    BY <1>6 DEF Live
  <2>2. \A x \in Ids : Live(mm, x) <=> Live(t, x)
    BY <1>6
  <2>3. \A x \in Ids : InState(mm, x, "PENDING") <=> InState(t, x, "PENDING")
    BY <1>6
  <2>4. mm.linked = t.linked
    BY <1>5
  <2> QED BY <1>5, <2>1, <2>2, <2>3, <2>4, SameChains
<1>10. ~InState(mm, id, "PROCESSING")
  BY <1>1, RequestIs
<1> QED BY <1>5, <1>6, <1>7, <1>8, <1>9, <1>10

\* What the search for a task has done when it has come to position k.
Searched(mm, X, s, k) ==
  /\ s \in [m : Managers, task : Ids \cup {None}]
  /\ Advanced(mm, s.m) /\ s.m.direct = mm.direct /\ s.m.work = mm.work
  /\ Sound(s.m) /\ Linked(s.m) /\ Worked(s.m, X)
  /\ s.task = None => \A j \in mm.left + 1 .. k : ~InState(s.m, mm.line[j], "QUEUED")
  /\ s.task # None => /\ InState(s.m, s.task, "PROCESSING")
                      /\ \A w \in Workers \ X : mm.work[w].task # s.task

\* One step of preprocessor_get_next_task's search keeps what holds of the search so far.
LEMMA VisitKeeps ==
  ASSUME NEW mm \in Managers, NEW X, NEW s, NEW k \in mm.left + 1 .. Len(mm.line),
         Line(mm), Ordered(mm), Searched(mm, X, s, k - 1)
  PROVE  Searched(mm, X, Visit(s, mm.line[k]), k)
<1> DEFINE id == mm.line[k]
<1>1. mm.left \in Nat /\ mm.line \in Seq(Ids) /\ k \in 1 .. Len(mm.line) /\ id \in Ids
  BY FieldsAre
<1>2. /\ s \in [m : Managers, task : Ids \cup {None}]
      /\ Advanced(mm, s.m) /\ s.m.direct = mm.direct /\ s.m.work = mm.work
      /\ Sound(s.m) /\ Linked(s.m) /\ Worked(s.m, X)
      /\ s.task = None => \A j \in mm.left + 1 .. k - 1 : ~InState(s.m, mm.line[j], "QUEUED")
      /\ s.task # None => /\ InState(s.m, s.task, "PROCESSING")
                          /\ \A w \in Workers \ X : mm.work[w].task # s.task
  BY DEF Searched
<1>3. \A j \in mm.left + 1 .. k : j \in mm.left + 1 .. k - 1 \/ j = k
  BY <1>1
<1>4. s.m \in Managers
  BY <1>2
<1> HIDE DEF id
<1>5. CASE s.task # None \/ ~InState(s.m, id, "QUEUED")
  <2>1. Visit(s, id) = s
    BY <1>5 DEF Visit
  <2> QED BY <1>2, <1>3, <1>5, <2>1 DEF Searched, id
<1>6. CASE s.task = None /\ InState(s.m, id, "QUEUED") /\ ~s.m.request[id].supported
  <2> DEFINE a == Remember(s.m, id[1], None)
             d == SetRequestStateDone(a, id)
  <2>1. Visit(s, id) = [s EXCEPT !.m = d]
    BY <1>6 DEF Visit
  <2>2. None \in Histories /\ id[1] \in Items
    BY <1>1, IdsAre DEF Histories
  <2>3. /\ a \in Managers
        /\ a.line = s.m.line /\ a.left = s.m.left /\ a.tail = s.m.tail /\ a.queued = s.m.queued
        /\ a.preproc = s.m.preproc /\ a.conf = s.m.conf /\ a.registered = s.m.registered
        /\ a.direct = s.m.direct /\ a.work = s.m.work
        /\ a.request = s.m.request /\ a.linked = s.m.linked
        /\ a.history = [s.m.history EXCEPT ![id[1]] = None]
        /\ \A x : (InQueue(a, x) <=> InQueue(s.m, x)) /\ (Live(a, x) <=> Live(s.m, x))
        /\ \A x, st : InState(a, x, st) <=> InState(s.m, x, st)
        /\ Sound(a) /\ Linked(a)
    BY <1>2, <1>4, <2>2, HistoryIs
  <2> HIDE DEF a
  <2>4. /\ Live(s.m, id) /\ ~InState(s.m, id, "PENDING") /\ ~InState(s.m, id, "DONE")
        /\ ~InState(s.m, id, "PROCESSING")
    BY <1>1, <1>4, <1>6, RequestIs DEF Live
  <2>5. /\ d \in Managers /\ DoneFrame(a, d) /\ Sound(d) /\ Linked(d)
        /\ \A x \in Ids :
             /\ InQueue(d, x) <=> InQueue(a, x)
             /\ InQueue(a, x) => d.request[x].supported = a.request[x].supported
             /\ Live(d, x) <=> Live(a, x) /\ x # id
             /\ InState(d, x, "DONE") <=> InState(a, x, "DONE") \/ x = id
             /\ InState(d, x, "PROCESSING") <=> InState(a, x, "PROCESSING") /\ x # id
             /\ InState(d, x, "QUEUED")
                  <=> (InState(a, x, "QUEUED") /\ x # id) \/ x = a.request[id].pending
        /\ a.request[id].pending # None =>
             /\ InState(a, a.request[id].pending, "PENDING")
             /\ a.request[id].pending[1] = id[1]
             /\ id[1] \in Direct => id[2] < a.request[id].pending[2]
    BY <1>1, <2>3, <2>4, DoneKeeps
  <2> HIDE DEF d
  <2>6. Advanced(s.m, d)
    BY <2>3, <2>5, <1>6 DEF Advanced, DoneFrame
  <2>7. Worked(d, X)
    <3> SUFFICES ASSUME NEW w \in Workers \ X, d.work[w].task \in Ids
                 PROVE  LET t == d.work[w].task
                        IN  /\ InState(d, t, "PROCESSING")
                            /\ \A x \in Workers \ X : d.work[x].task = t => x = w
                            /\ d.conf[t[1]] = [kind |-> "history", ver |-> 0]
                                 => d.history[t[1]] = d.work[w].past
      BY DEF Worked
    <3> DEFINE t == d.work[w].task
    <3>1. d.work = s.m.work /\ d.conf = s.m.conf /\ d.history = [s.m.history EXCEPT ![id[1]] = None]
      BY <2>3, <2>5 DEF DoneFrame
    <3>2. /\ InState(s.m, t, "PROCESSING")
          /\ \A x \in Workers \ X : s.m.work[x].task = t => x = w
          /\ s.m.conf[t[1]] = [kind |-> "history", ver |-> 0]
               => s.m.history[t[1]] = s.m.work[w].past
      BY <1>2, <3>1 DEF Worked
    <3>3. t # id /\ InState(d, t, "PROCESSING")
      BY <2>3, <2>4, <2>5, <3>2
    <3>4. ASSUME d.conf[t[1]] = [kind |-> "history", ver |-> 0]
          PROVE  d.history[t[1]] = d.work[w].past
      <4>1. t[1] \in Items /\ Kinds[t[1]] = "history"
        BY <1>2, <3>1, <3>4, IdsAre DEF Sound
      <4>2. Live(s.m, t) /\ ~InState(s.m, t, "PENDING")
        BY <3>2, <1>4, RequestIs DEF Live
      <4>3. t[1] # id[1]
        <5>1. PICK rank \in [Ids -> Nat] : Chained(s.m, rank)
          BY <1>2 DEF Linked
        <5> QED BY <5>1, <4>1, <4>2, <2>4, <3>3, <1>1 DEF Chained
      <4>4. d.history[t[1]] = s.m.history[t[1]]
        BY <3>1, <4>1, <4>3, <1>4 DEF Managers
      <4> QED BY <3>1, <3>2, <3>4, <4>4
    <3> QED BY <3>1, <3>2, <3>3, <3>4
  <2>8. ASSUME NEW j \in mm.left + 1 .. k PROVE ~InState(d, mm.line[j], "QUEUED")
    <3> SUFFICES ASSUME InState(d, mm.line[j], "QUEUED") PROVE FALSE
      OBVIOUS
    <3>1. mm.line[j] \in Ids /\ j \in 1 .. Len(mm.line)
      BY <1>1
    <3>2. mm.line[j] = a.request[id].pending /\ mm.line[j] # id
      <4>1. CASE j = k
        BY <4>1, <2>3, <2>4, <2>5, <1>1, NoneIsNoId DEF id
      <4>2. CASE j \in mm.left + 1 .. k - 1
        <5>1. ~InState(s.m, mm.line[j], "QUEUED")
          BY <4>2, <1>2, <1>6
        <5> QED BY <5>1, <3>1, <2>3, <2>4, <2>5, NoneIsNoId
      <4> QED BY <4>1, <4>2, <1>3
    <3>3. mm.line[j][1] = id[1] /\ (id[1] \in Direct => id[2] < mm.line[j][2])
      BY <2>5, <3>1, <3>2, NoneIsNoId
    <3>4. id[1] \in Direct
      BY <1>1, <1>2, <1>6, <2>4 DEF Sound, Live
    <3>5. j < k
      BY <3>2, <1>3, <1>1 DEF id
    <3>6. Together(mm.line[j], mm.line[k])
      BY <3>3, <3>4, KeptAre DEF Together, id
    <3>7. mm.line[j][2] <= id[2]
      BY <3>1, <3>5, <3>6, <1>1 DEF Ordered, id
    <3> QED BY <3>1, <3>3, <3>4, <3>7, <1>1, IdsAre
  <2>9. Advanced(mm, d)
    BY <1>2, <2>6, AdvancedFurther
  <2>10. d.direct = mm.direct /\ d.work = mm.work
    BY <1>2, <2>3, <2>5 DEF DoneFrame
  <2>11. Visit(s, id).m = d /\ Visit(s, id).task = None /\ Visit(s, id) \in [m : Managers, task : Ids \cup {None}]
    BY <2>1, <2>5, <1>2, <1>6
  <2> QED BY <2>5, <2>7, <2>8, <2>9, <2>10, <2>11 DEF Searched, id
<1>7. CASE s.task = None /\ InState(s.m, id, "QUEUED") /\ s.m.request[id].supported
  <2> DEFINE t == [s.m EXCEPT !.request[id].state = "PROCESSING"]
  <2>1. Visit(s, id) = [m |-> t, task |-> id]
    BY <1>7 DEF Visit, Take
  <2>2. /\ t \in Managers /\ Advanced(s.m, t) /\ Sound(t) /\ Linked(t)
        /\ t.direct = s.m.direct /\ t.work = s.m.work /\ t.history = s.m.history
        /\ InState(t, id, "PROCESSING")
        /\ \A x \in Ids : InState(s.m, x, "PROCESSING") => InState(t, x, "PROCESSING") /\ x # id
    BY <1>1, <1>2, <1>4, <1>7, TakeIs
  <2> HIDE DEF t
  <2>3. Worked(t, X) /\ \A w \in Workers \ X : mm.work[w].task # id
    BY <1>1, <1>2, <2>2 DEF Worked, Advanced
  <2>4. Advanced(mm, t)
    BY <1>2, <2>2, AdvancedFurther
  <2>5. id # None
    BY <1>1, NoneIsNoId
  <2> QED BY <1>1, <1>2, <2>1, <2>2, <2>3, <2>4, <2>5 DEF Searched, id
<1> QED BY <1>5, <1>6, <1>7 DEF id

\* The search goes through the whole queue.
LEMMA NextTaskKeeps ==
  ASSUME NEW mm \in Managers, NEW X,
         Line(mm), Ordered(mm), Sound(mm), Linked(mm), Worked(mm, X)
  PROVE  Searched(mm, X, NextTask(mm), Len(mm.line))
<1> DEFINE a == mm.left
           b == Len(mm.line)
           s0 == [m |-> mm, task |-> None]
           Found == [m : Managers, task : Ids \cup {None}]
           S == [k \in a .. b |-> {s \in Found : Searched(mm, X, s, k)}]
           Step == [k \in a + 1 .. b |-> [s \in S[k - 1] |-> Visit(s, mm.line[k])]]
           Def(f) == f = [k \in mm.left .. Len(mm.line) |->
                            IF k = mm.left THEN [m |-> mm, task |-> None]
                            ELSE Visit(f[k - 1], mm.line[k])]
           found == CHOOSE f : Def(f)
<1>1. a \in Nat /\ b \in Nat /\ a <= b
  BY FieldsAre DEF Line
<1>2. s0 \in S[a]
  <2>1. Advanced(mm, mm)
    BY DEF Advanced
  <2>2. \A j \in mm.left + 1 .. a : FALSE
    BY <1>1
  <2>3. Searched(mm, X, s0, a)
    BY <2>1, <2>2 DEF Searched
  <2> QED BY <1>1, <2>3
<1>3. \A k \in a + 1 .. b : \A s \in S[k - 1] : Visit(s, mm.line[k]) \in S[k]
  <2> SUFFICES ASSUME NEW k \in a + 1 .. b, NEW s \in S[k - 1]
               PROVE  Visit(s, mm.line[k]) \in S[k]
    OBVIOUS
  <2>1. k - 1 \in a .. b /\ k \in a .. b
    BY <1>1
  <2>2. Searched(mm, X, s, k - 1)
    BY <2>1
  <2>3. Searched(mm, X, Visit(s, mm.line[k]), k)
    BY <2>2, VisitKeeps
  <2> QED BY <2>1, <2>3 DEF Searched
<1> HIDE DEF S
<1>4. \A k \in a + 1 .. b : \A s \in S[k - 1] : Step[k][s] \in S[k]
  BY <1>3
<1>5. \E f : Def(f)
  <2>1. Stays(a, b, S, Step, s0)
    BY <1>1, <1>2, <1>4 DEF Stays
  <2>2. PICK f : Runs(f, a, b, S, Step, s0)
    <3> HIDE DEF Step, s0, a, b
    <3> QED BY <2>1, Iteration
  <2>3. \A k \in a .. b : f[k] = IF k = mm.left THEN [m |-> mm, task |-> None]
                                 ELSE Visit(f[k - 1], mm.line[k])
    <3> SUFFICES ASSUME NEW k \in a .. b, k # a PROVE f[k] = Visit(f[k - 1], mm.line[k])
      BY <2>2 DEF Runs
    <3>1. k \in a + 1 .. b /\ k - 1 \in a .. b
      BY <1>1
    <3>2. f[k] = Step[k][f[k - 1]] /\ f[k - 1] \in S[k - 1]
      BY <2>2, <3>1 DEF Runs
    <3> QED BY <3>1, <3>2
  <2>4. f = [k \in a .. b |-> f[k]]
    BY <2>2 DEF Runs
  <2>5. Def(f)
    <3>1. [k \in a .. b |-> f[k]]
            = [k \in mm.left .. Len(mm.line) |->
                 IF k = mm.left THEN [m |-> mm, task |-> None] ELSE Visit(f[k - 1], mm.line[k])]
      BY <2>3
    <3> QED BY <2>4, <3>1
  <2> HIDE DEF Def
  <2> QED BY <2>5
<1>6. Def(found)
  <2> HIDE DEF Def
  <2> QED BY <1>5
<1>7. NextTask(mm) = found[b]
  BY DEF NextTask
<1>8. \A k \in a .. b : found[k] = IF k = a THEN s0 ELSE Visit(found[k - 1], mm.line[k])
  BY <1>6
<1> HIDE DEF found
<1>9. b \in {k \in a .. b : found[k] \in S[k]}
  <2> DEFINE T == {k \in a .. b : found[k] \in S[k]}
  <2>1. a \in T
    BY <1>1, <1>2, <1>8
  <2>2. \A k \in a .. b - 1 : k \in T => k + 1 \in T
    <3> SUFFICES ASSUME NEW k \in a .. b - 1, found[k] \in S[k] PROVE k + 1 \in a .. b /\ found[k + 1] \in S[k + 1]
      BY <1>1
    <3>1. k + 1 \in a + 1 .. b /\ k + 1 \in a .. b /\ k + 1 # a /\ (k + 1) - 1 = k
      BY <1>1
    <3>2. found[k + 1] = Visit(found[k], mm.line[k + 1])
      BY <1>8, <3>1
    <3> QED BY <1>3, <3>1, <3>2
  <2> HIDE DEF T
  <2>3. \A k \in a .. b : k \in T
    BY <1>1, <2>1, <2>2, Upwards
  <2> QED BY <2>3, <1>1 DEF T
<1> QED BY <1>1, <1>7, <1>9 DEF S

\* Nothing but who works on what is changed, and what the items' histories are.
SameQueue(a, b) ==
  /\ a.line = b.line /\ a.left = b.left /\ a.request = b.request /\ a.linked = b.linked
  /\ a.tail = b.tail /\ a.queued = b.queued /\ a.conf = b.conf

\* What holds of the queue minds nothing else.
LEMMA SameQueueKeeps ==
  ASSUME NEW a \in Managers, NEW b \in Managers, SameQueue(a, b)
  PROVE  /\ \A id : (InQueue(a, id) <=> InQueue(b, id)) /\ (Live(a, id) <=> Live(b, id))
         /\ \A id, s : InState(a, id, s) <=> InState(b, id, s)
         /\ Line(a) => Line(b)
         /\ Ordered(a) => Ordered(b)
         /\ \A arr : Came(a, arr) => Came(b, arr)
         /\ Sound(a) => Sound(b)
         /\ Linked(a) => Linked(b)
         /\ Unanswered(a) = Unanswered(b)
         /\ a.preproc = b.preproc /\ a.registered = b.registered => Advanced(a, b)
<1> USE DEF SameQueue
<1>1. /\ \A id : (InQueue(a, id) <=> InQueue(b, id)) /\ (Live(a, id) <=> Live(b, id))
      /\ \A id, s : InState(a, id, s) <=> InState(b, id, s)
      /\ \A id : InLine(a, id) <=> InLine(b, id)
  BY DEF InQueue, InState, Live, InLine
<1>2. Line(a) => Line(b)
  BY <1>1 DEF Line
<1>3. Ordered(a) => Ordered(b)
  BY DEF Ordered
<1>4. \A arr : Came(a, arr) => Came(b, arr)
  BY <1>1 DEF Came
<1>5. Sound(a) => Sound(b)
  BY <1>1 DEF Sound
<1>6. Linked(a) => Linked(b)
  BY <1>1, SameChains
<1>7. Unanswered(a) = Unanswered(b)
  BY <1>1 DEF Unanswered
<1>8. a.preproc = b.preproc /\ a.registered = b.registered => Advanced(a, b)
  BY <1>1 DEF Advanced
<1> QED BY <1>1, <1>2, <1>3, <1>4, <1>5, <1>6, <1>7, <1>8

\* A worker gets a task.
Give(mm, w, task) == [mm EXCEPT !.work[w] = TaskFor(mm, task)]

\* A task given to a free worker (preprocessor_create_task): no other worker holds it, and
\* what is sent with it is what the cache holds.
LEMMA GiveIs ==
  ASSUME NEW mm \in Managers, NEW w \in Workers, NEW X, w \notin X, NEW task \in Ids \cup Tests,
         task \in Ids => /\ InState(mm, task, "PROCESSING")
                         /\ \A x \in Workers \ X : mm.work[x].task # task,
         Sound(mm), Linked(mm), Worked(mm, X), mm.work[w].task = None,
         NEW g, g = Give(mm, w, task)
  PROVE  /\ g \in Managers /\ Advanced(mm, g) /\ Sound(g) /\ Linked(g) /\ Worked(g, X)
         /\ g.work[w].task # None /\ \A x \in Workers \ {w} : g.work[x] = mm.work[x]
         /\ g.direct = mm.direct
         /\ FreeWorkers(g) = FreeWorkers(mm) \ {w}
<1> DEFINE t == TaskFor(mm, task)
<1>1. task \in Ids => task \notin Tests /\ task[1] \in Items
  BY IdsAre, NoneIsNoId
<1>2. /\ t \in [task : Ids \cup Tests \cup {None}, past : Histories] /\ t.task = task
      /\ task \in Ids => t.past = mm.history[task[1]]
  BY <1>1 DEF TaskFor, IsTest, Managers, Histories
<1> DEFINE wk == [mm.work EXCEPT ![w] = t]
<1>3. g = [mm EXCEPT !.work = wk]
  BY DEF Give
<1> HIDE DEF t
<1>9. /\ wk \in [Workers -> [task : Ids \cup Tests \cup {None}, past : Histories]]
      /\ wk[w] = t /\ \A x \in Workers \ {w} : wk[x] = mm.work[x]
  BY <1>2 DEF Managers
<1> HIDE DEF wk
<1>4. /\ g \in Managers /\ SameQueue(mm, g) /\ g.preproc = mm.preproc
      /\ g.registered = mm.registered /\ g.direct = mm.direct /\ g.history = mm.history
      /\ g.work[w] = t /\ \A x \in Workers \ {w} : g.work[x] = mm.work[x]
  BY <1>3, <1>9 DEF Managers, SameQueue
<1>5. /\ Advanced(mm, g) /\ Sound(g) /\ Linked(g)
      /\ \A id, s : InState(mm, id, s) <=> InState(g, id, s)
  BY <1>4, SameQueueKeeps
<1>6. g.work[w].task # None
  BY <1>2, <1>4, NoneIsNoId
<1>7. Worked(g, X)
  <2> SUFFICES ASSUME NEW x \in Workers \ X, g.work[x].task \in Ids
               PROVE  LET id == g.work[x].task
                      IN  /\ InState(g, id, "PROCESSING")
                          /\ \A y \in Workers \ X : g.work[y].task = id => y = x
                          /\ g.conf[id[1]] = [kind |-> "history", ver |-> 0]
                               => g.history[id[1]] = g.work[x].past
    BY DEF Worked
  <2>1. CASE x = w
    <3>1. \A y \in Workers \ X : g.work[y].task = task => y = w
      BY <1>2, <1>4, <2>1
    <3> QED BY <1>2, <1>4, <1>5, <2>1, <3>1
  <2>2. CASE x # w
    <3>1. g.work[x] = mm.work[x] /\ mm.work[x].task \in Ids
      BY <1>4, <2>2
    <3>2. /\ InState(mm, mm.work[x].task, "PROCESSING")
          /\ \A y \in Workers \ X : mm.work[y].task = mm.work[x].task => y = x
          /\ mm.conf[mm.work[x].task[1]] = [kind |-> "history", ver |-> 0]
               => mm.history[mm.work[x].task[1]] = mm.work[x].past
      BY <3>1 DEF Worked
    <3>3. g.work[w].task # mm.work[x].task
      BY <1>2, <1>4, <3>1
    <3>4. \A y \in Workers \ X : g.work[y].task = mm.work[x].task => y = x
      BY <1>4, <3>2, <3>3
    <3>5. g.conf = mm.conf
      BY <1>4 DEF SameQueue
    <3> QED BY <1>4, <1>5, <3>1, <3>2, <3>4, <3>5
  <2> QED BY <2>1, <2>2
<1>8. FreeWorkers(g) = FreeWorkers(mm) \ {w}
  <2>1. mm.registered \subseteq Workers
    BY DEF Managers
  <2> QED BY <1>4, <1>6, <2>1 DEF FreeWorkers
<1> QED BY <1>4, <1>5, <1>6, <1>7, <1>8

\* A test request leaves the direct queue.
LEMMA DirectIs ==
  ASSUME NEW mm \in Managers, NEW X, mm.direct # <<>>, Sound(mm), Linked(mm), Worked(mm, X),
         NEW g, g = [mm EXCEPT !.direct = Tail(@)]
  PROVE  /\ g \in Managers /\ Advanced(mm, g) /\ Sound(g) /\ Linked(g) /\ Worked(g, X)
         /\ g.work = mm.work /\ g.registered = mm.registered /\ Head(mm.direct) \in Tests
<1>1. mm.direct \in Seq(Tests) /\ Head(mm.direct) \in Tests /\ Tail(mm.direct) \in Seq(Tests)
  BY DEF Managers
<1>2. /\ g \in Managers /\ SameQueue(mm, g) /\ g.preproc = mm.preproc
      /\ g.registered = mm.registered /\ g.work = mm.work /\ g.history = mm.history
  BY <1>1 DEF Managers, SameQueue
<1>3. /\ Advanced(mm, g) /\ Sound(g) /\ Linked(g)
      /\ \A id, s : InState(mm, id, s) <=> InState(g, id, s)
  BY <1>2, SameQueueKeeps
<1>4. Worked(g, X)
  BY <1>2, <1>3 DEF Worked, SameQueue
<1> QED BY <1>1, <1>2, <1>3, <1>4

\* What the assignment of tasks has done after n rounds.
Assigned(mm, X, s, n) ==
  /\ s \in [m : Managers, more : BOOLEAN]
  /\ Advanced(mm, s.m) /\ Sound(s.m) /\ Linked(s.m) /\ Worked(s.m, X)
  /\ \A w \in Workers : mm.work[w].task # None => s.m.work[w] = mm.work[w]
  /\ ~s.more => s.m.direct = <<>> /\ \A id \in Ids : ~InState(s.m, id, "QUEUED")
  /\ s.more => \/ FreeWorkers(s.m) = {}
               \/ Cardinality(FreeWorkers(s.m)) + n <= Cardinality(Workers)

\* A round of preprocessor_assign_tasks keeps what holds of the rounds so far.
LEMMA AssignTaskKeeps ==
  ASSUME NEW mm \in Managers, NEW X \in SUBSET Workers, \A x \in X : mm.work[x].task # None,
         Line(mm), Ordered(mm), NEW n \in Nat, NEW s, Assigned(mm, X, s, n)
  PROVE  Assigned(mm, X, AssignTask(s), n + 1)
<1>1. /\ s \in [m : Managers, more : BOOLEAN] /\ s.m \in Managers
      /\ Advanced(mm, s.m) /\ Sound(s.m) /\ Linked(s.m) /\ Worked(s.m, X)
      /\ \A w \in Workers : mm.work[w].task # None => s.m.work[w] = mm.work[w]
      /\ ~s.more => s.m.direct = <<>> /\ \A id \in Ids : ~InState(s.m, id, "QUEUED")
      /\ s.more => \/ FreeWorkers(s.m) = {}
                   \/ Cardinality(FreeWorkers(s.m)) + n <= Cardinality(Workers)
  BY DEF Assigned
<1>2. CASE ~s.more \/ FreeWorkers(s.m) = {}
  <2>1. AssignTask(s) = s
    BY <1>2 DEF AssignTask
  <2> QED BY <1>1, <1>2, <2>1 DEF Assigned
<1>3. CASE s.more /\ FreeWorkers(s.m) # {}
  <2> DEFINE next == GetNextTask(s.m)
             w == CHOOSE x \in FreeWorkers(s.m) : TRUE
             g == Give(next.m, w, next.task)
  <2>1. AssignTask(s) = IF next.task = None THEN [m |-> next.m, more |-> FALSE]
                        ELSE [m |-> g, more |-> TRUE]
    BY <1>3 DEF AssignTask, Give
  <2>2. w \in FreeWorkers(s.m) /\ FreeWorkers(s.m) \subseteq Workers
    BY <1>1, <1>3 DEF FreeWorkers, Managers
  <2>3. w \in Workers /\ s.m.work[w].task = None /\ w \notin X
    BY <1>1, <2>2 DEF FreeWorkers
  <2>4. Line(s.m) /\ Ordered(s.m)
    BY <1>1, AdvancedKeeps
  <2>5. /\ next.m \in Managers /\ next.task \in Ids \cup Tests \cup {None}
        /\ Advanced(s.m, next.m) /\ next.m.work = s.m.work
        /\ next.m.registered = s.m.registered
        /\ Sound(next.m) /\ Linked(next.m) /\ Worked(next.m, X)
        /\ next.task \in Ids => /\ InState(next.m, next.task, "PROCESSING")
                                /\ \A x \in Workers \ X : next.m.work[x].task # next.task
        /\ next.task = None =>
             next.m.direct = <<>> /\ \A id \in Ids : ~InState(next.m, id, "QUEUED")
    <3>1. CASE s.m.direct # <<>>
      <4> DEFINE d == [s.m EXCEPT !.direct = Tail(@)]
      <4>1. next.m = d /\ next.task = Head(s.m.direct)
        BY <3>1 DEF GetNextTask
      <4>2. /\ d \in Managers /\ Advanced(s.m, d) /\ Sound(d) /\ Linked(d) /\ Worked(d, X)
            /\ d.work = s.m.work /\ d.registered = s.m.registered /\ Head(s.m.direct) \in Tests
        BY <1>1, <3>1, DirectIs
      <4> HIDE DEF d, next
      <4> QED BY <4>1, <4>2, NoneIsNoId
    <3>2. CASE s.m.direct = <<>>
      <4>1. next = NextTask(s.m)
        BY <3>2 DEF GetNextTask
      <4> HIDE DEF next
      <4>2. Searched(s.m, X, next, Len(s.m.line))
        BY <1>1, <2>4, <4>1, NextTaskKeeps
      <4>3. next.task = None => \A id \in Ids : ~InState(next.m, id, "QUEUED")
        <5> SUFFICES ASSUME next.task = None, NEW id \in Ids, InState(next.m, id, "QUEUED")
                     PROVE  FALSE
          OBVIOUS
        <5>1. InQueue(s.m, id)
          BY <4>2 DEF Searched, Advanced, InState
        <5>2. PICK k \in 1 .. Len(s.m.line) : s.m.line[k] = id
          BY <2>4, <5>1 DEF Line, InLine
        <5>3. k \in s.m.left + 1 .. Len(s.m.line)
          BY <1>1, <2>4, <5>1, <5>2, FieldsAre DEF Line
        <5> QED BY <4>2, <5>2, <5>3 DEF Searched
      <4> QED BY <3>2, <4>2, <4>3, NoneIsNoId DEF Searched, Advanced
    <3> QED BY <3>1, <3>2
  <2>6. Advanced(mm, next.m)
    BY <1>1, <2>5, AdvancedFurther
  <2> HIDE DEF next, w, g
  <2>7. CASE next.task = None
    BY <1>1, <2>1, <2>5, <2>6, <2>7 DEF Assigned
  <2>8. CASE next.task # None
    <3>1. /\ g \in Managers /\ Advanced(next.m, g) /\ Sound(g) /\ Linked(g) /\ Worked(g, X)
          /\ g.work[w].task # None /\ \A x \in Workers \ {w} : g.work[x] = next.m.work[x]
          /\ FreeWorkers(g) = FreeWorkers(next.m) \ {w}
      <4>1. next.task \in Ids \cup Tests /\ next.m.work[w].task = None
        BY <2>3, <2>5, <2>8
      <4> QED BY <2>3, <2>5, <4>1, GiveIs DEF g
    <3>2. Advanced(mm, g)
      BY <2>6, <3>1, AdvancedFurther
    <3>3. FreeWorkers(next.m) = FreeWorkers(s.m)
      BY <2>5 DEF FreeWorkers
    <3>4. Cardinality(FreeWorkers(g)) + (n + 1) <= Cardinality(Workers)
      <4>1. IsFiniteSet(FreeWorkers(s.m))
        BY <2>2, ManagerAssumption, FS_Subset
      <4>2. Cardinality(FreeWorkers(g)) = Cardinality(FreeWorkers(s.m)) - 1
        <5> DEFINE F == FreeWorkers(s.m)
        <5>1. w \in F /\ IsFiniteSet(F) /\ FreeWorkers(g) = F \ {w}
          BY <2>2, <3>1, <3>3, <4>1
        <5> HIDE DEF F
        <5>2. Cardinality(F \ {w}) = Cardinality(F) - 1
          BY <5>1, FS_RemoveElement
        <5> QED BY <5>1, <5>2 DEF F
      <4>3. Cardinality(FreeWorkers(s.m)) + n <= Cardinality(Workers)
        BY <1>1, <1>3
      <4>4. Cardinality(FreeWorkers(s.m)) \in Nat /\ Cardinality(Workers) \in Nat
        BY <4>1, ManagerAssumption, FS_CardinalityType
      <4> QED BY <4>2, <4>3, <4>4
    <3>5. \A x \in Workers : mm.work[x].task # None => g.work[x] = mm.work[x]
      BY <1>1, <2>3, <2>5, <3>1
    <3>6. AssignTask(s) = [m |-> g, more |-> TRUE]
      BY <2>1, <2>8
    <3>7. AssignTask(s).m = g /\ AssignTask(s).more = TRUE
      BY <3>6
    <3>8. AssignTask(s) \in [m : Managers, more : BOOLEAN]
      BY <3>1, <3>6
    <3> HIDE DEF Give
    <3> QED BY <3>1, <3>2, <3>4, <3>5, <3>7, <3>8 DEF Assigned
  <2> QED BY <2>7, <2>8
<1> QED BY <1>2, <1>3

\* After the rounds no free worker is left, or nothing that it could be given.
LEMMA AssignTasksKeeps ==
  ASSUME NEW mm \in Managers, NEW X \in SUBSET Workers, \A x \in X : mm.work[x].task # None,
         Line(mm), Ordered(mm), Sound(mm), Linked(mm), Worked(mm, X),
         NEW d, d = AssignTasks(mm)
  PROVE  /\ d \in Managers /\ Advanced(mm, d) /\ Sound(d) /\ Linked(d) /\ Worked(d, X)
         /\ Line(d) /\ Ordered(d)
         /\ \A w \in Workers : mm.work[w].task # None => d.work[w] = mm.work[w]
         /\ FreeWorkers(d) # {} => d.direct = <<>> /\ \A id \in Ids : ~InState(d, id, "QUEUED")
<1> DEFINE b == Cardinality(Workers)
           s0 == [m |-> mm, more |-> TRUE]
           S == [k \in 0 .. b |-> {s \in [m : Managers, more : BOOLEAN] : Assigned(mm, X, s, k)}]
           Step == [k \in 1 .. b |-> [s \in S[k - 1] |-> AssignTask(s)]]
           Def(f) == f = [n \in 0 .. Cardinality(Workers) |->
                            IF n = 0 THEN [m |-> mm, more |-> TRUE] ELSE AssignTask(f[n - 1])]
           round == CHOOSE f : Def(f)
<1>1. b \in Nat
  BY ManagerAssumption, FS_CardinalityType
<1>2. s0 \in S[0]
  <2>1. Advanced(mm, mm)
    BY DEF Advanced
  <2>2. FreeWorkers(mm) \subseteq Workers
    BY DEF FreeWorkers, Managers
  <2>3. Cardinality(FreeWorkers(mm)) + 0 <= b
    BY <1>1, <2>2, ManagerAssumption, FS_Subset, FS_CardinalityType
  <2>4. Assigned(mm, X, s0, 0)
    BY <2>1, <2>3 DEF Assigned
  <2> QED BY <1>1, <2>4
<1> HIDE DEF b
<1>3. \A k \in 1 .. b : \A s \in S[k - 1] : AssignTask(s) \in S[k]
  <2> SUFFICES ASSUME NEW k \in 1 .. b, NEW s \in S[k - 1] PROVE AssignTask(s) \in S[k]
    OBVIOUS
  <2>1. k - 1 \in 0 .. b /\ k \in 0 .. b /\ k - 1 \in Nat /\ (k - 1) + 1 = k
    BY <1>1
  <2>2. Assigned(mm, X, s, k - 1)
    BY <2>1
  <2>3. Assigned(mm, X, AssignTask(s), (k - 1) + 1)
    BY <2>1, <2>2, AssignTaskKeeps
  <2> QED BY <2>1, <2>3 DEF Assigned
<1> HIDE DEF S
<1>4. \A k \in 1 .. b : \A s \in S[k - 1] : Step[k][s] \in S[k]
  BY <1>3
<1>5. \E f : Def(f)
  <2>1. Stays(0, b, S, Step, s0)
    <3>1. 0 + 1 = 1
      OBVIOUS
    <3> QED BY <1>1, <1>2, <1>4, <3>1 DEF Stays
  <2>2. PICK f : Runs(f, 0, b, S, Step, s0)
    <3> HIDE DEF Step, s0
    <3> QED BY <2>1, Iteration
  <2>3. \A k \in 0 .. b : f[k] = IF k = 0 THEN [m |-> mm, more |-> TRUE]
                                 ELSE AssignTask(f[k - 1])
    <3> SUFFICES ASSUME NEW k \in 0 .. b, k # 0 PROVE f[k] = AssignTask(f[k - 1])
      BY <2>2 DEF Runs
    <3>1. k \in 0 + 1 .. b /\ k \in 1 .. b /\ k - 1 \in 0 .. b
      BY <1>1
    <3>2. f[k] = Step[k][f[k - 1]] /\ f[k - 1] \in S[k - 1]
      BY <2>2, <3>1 DEF Runs
    <3> QED BY <3>1, <3>2
  <2>4. f = [k \in 0 .. b |-> f[k]]
    BY <2>2 DEF Runs
  <2>5. Def(f)
    <3>1. [k \in 0 .. b |-> f[k]]
            = [n \in 0 .. Cardinality(Workers) |->
                 IF n = 0 THEN [m |-> mm, more |-> TRUE] ELSE AssignTask(f[n - 1])]
      BY <2>3 DEF b
    <3> QED BY <2>4, <3>1
  <2> HIDE DEF Def
  <2> QED BY <2>5
<1>6. Def(round)
  <2> HIDE DEF Def
  <2> QED BY <1>5
<1>7. AssignTasks(mm) = round[b].m
  BY DEF AssignTasks, b
<1>8. \A k \in 0 .. b : round[k] = IF k = 0 THEN s0 ELSE AssignTask(round[k - 1])
  BY <1>6 DEF b
<1> HIDE DEF round
<1>9. round[b] \in S[b]
  <2> DEFINE T == {k \in 0 .. b : round[k] \in S[k]}
  <2>1. 0 \in T
    <3>1. 0 \in 0 .. b
      BY <1>1
    <3>2. round[0] = s0
      BY <1>8, <3>1
    <3> QED BY <1>2, <3>1, <3>2
  <2>2. \A k \in 0 .. b - 1 : k \in T => k + 1 \in T
    <3> SUFFICES ASSUME NEW k \in 0 .. b - 1, round[k] \in S[k]
                 PROVE  k + 1 \in 0 .. b /\ round[k + 1] \in S[k + 1]
      BY <1>1
    <3>1. k + 1 \in 1 .. b /\ k + 1 \in 0 .. b /\ k + 1 # 0 /\ (k + 1) - 1 = k
      BY <1>1
    <3>2. round[k + 1] = AssignTask(round[k])
      BY <1>8, <3>1
    <3> QED BY <1>3, <3>1, <3>2
  <2> HIDE DEF T
  <2>3. \A k \in 0 .. b : k \in T
    BY <1>1, <2>1, <2>2, Upwards
  <2> QED BY <2>3, <1>1 DEF T
<1>10. Assigned(mm, X, round[b], b)
  BY <1>1, <1>9 DEF S
<1>11. /\ d \in Managers /\ Advanced(mm, d) /\ Sound(d) /\ Linked(d) /\ Worked(d, X)
       /\ \A w \in Workers : mm.work[w].task # None => d.work[w] = mm.work[w]
  BY <1>7, <1>10 DEF Assigned
<1>12. Line(d) /\ Ordered(d)
  BY <1>11, AdvancedKeeps
<1>13. ASSUME FreeWorkers(d) # {}
       PROVE  d.direct = <<>> /\ \A id \in Ids : ~InState(d, id, "QUEUED")
  <2>1. FreeWorkers(d) \subseteq Workers
    BY <1>11 DEF FreeWorkers, Managers
  <2>2. IsFiniteSet(FreeWorkers(d))
    BY <2>1, ManagerAssumption, FS_Subset
  <2>3. Cardinality(FreeWorkers(d)) \in Nat /\ Cardinality(FreeWorkers(d)) # 0
    BY <1>13, <2>2, FS_CardinalityType, FS_EmptySet
  <2>4. ~round[b].more
    BY <1>1, <1>7, <1>10, <1>13, <2>3 DEF Assigned, b
  <2> QED BY <1>7, <1>10, <2>4 DEF Assigned
<1> QED BY <1>11, <1>12, <1>13

\* What is done leaves from the head, as far as nothing undone stands before it.
LEMMA FlushQueueIs ==
  ASSUME NEW mm \in Managers, Line(mm), NEW d, d = FlushQueue(mm)
  PROVE  /\ d \in Managers /\ d.line = mm.line /\ d.left \in mm.left .. Len(mm.line)
         /\ d.direct = mm.direct /\ d.registered = mm.registered /\ d.work = mm.work
         /\ d.conf = mm.conf /\ d.history = mm.history /\ d.linked = mm.linked
         /\ d.preproc = mm.preproc /\ d.queued = Len(mm.line) - d.left
         /\ d.left < Len(mm.line) => ~IsDone(mm, d.left + 1)
         /\ \A k \in mm.left + 1 .. d.left : IsDone(mm, k)
         /\ \A k \in 1 .. Len(mm.line) :
              d.request[mm.line[k]] = IF k > d.left THEN mm.request[mm.line[k]] ELSE None
         /\ \A id \in Ids : ~InLine(mm, id) => d.request[id] = mm.request[id]
         /\ \A k \in 1 .. Len(mm.line) : mm.tail = mm.line[k] =>
              d.tail = IF k > d.left THEN mm.tail ELSE None
         /\ mm.tail = None => d.tail = None
<1> DEFINE b == Len(mm.line)
           Stop(n) == /\ \A k \in mm.left + 1 .. n : IsDone(mm, k)
                      /\ n < Len(mm.line) => ~IsDone(mm, n + 1)
           last == CHOOSE n \in mm.left .. Len(mm.line) : Stop(n)
           gone == {mm.line[k] : k \in mm.left + 1 .. last}
           req == [id \in Ids |-> IF id \in gone THEN None ELSE mm.request[id]]
           tl == IF mm.tail \in gone THEN None ELSE mm.tail
<1>1. /\ mm.left \in Nat /\ b \in Nat /\ mm.left <= b /\ mm.line \in Seq(Ids)
      /\ \A k \in 1 .. b : mm.line[k] \in Ids
  BY FieldsAre DEF Line
<1>2. \E n \in mm.left .. b : Stop(n)
  <2> DEFINE T == {n \in mm.left .. b : n < b => ~IsDone(mm, n + 1)}
  <2>1. T \subseteq Nat /\ b \in T
    BY <1>1
  <2>2. PICK n \in T : \A k \in T : n <= k
    <3> HIDE DEF T
    <3> QED BY <2>1, Least
  <2>3. ASSUME NEW k \in mm.left + 1 .. n PROVE IsDone(mm, k)
    <3>1. k - 1 \in mm.left .. b /\ k - 1 < n /\ (k - 1) + 1 = k /\ n \in Nat /\ k \in Nat
      BY <1>1, <2>2
    <3>2. k - 1 \notin T
      BY <2>2, <3>1
    <3> QED BY <3>1, <3>2
  <2> QED BY <2>2, <2>3
<1>3. last \in mm.left .. b /\ Stop(last)
  <2> HIDE DEF Stop
  <2> QED BY <1>2
<1>4. d = [mm EXCEPT !.left = last, !.request = req, !.queued = @ - (last - mm.left), !.tail = tl]
  BY DEF FlushQueue
<1> HIDE DEF last
<1>5. last \in Nat /\ gone \subseteq Ids
  BY <1>1, <1>3
<1>6. \A k \in 1 .. b : mm.line[k] \in gone <=> k > mm.left /\ k <= last
  BY <1>1, <1>3 DEF Line
<1> HIDE DEF gone
<1>7. req \in [Ids -> Requests \cup {None}] /\ tl \in Ids \cup {None}
  BY DEF Managers
<1>8. \A id \in Ids : req[id] = IF id \in gone THEN None ELSE mm.request[id]
  OBVIOUS
<1> HIDE DEF req
<1>9. /\ d \in Managers /\ d.line = mm.line /\ d.left = last
      /\ d.direct = mm.direct /\ d.registered = mm.registered /\ d.work = mm.work
      /\ d.conf = mm.conf /\ d.history = mm.history /\ d.linked = mm.linked
      /\ d.preproc = mm.preproc /\ d.queued = mm.queued - (last - mm.left)
      /\ d.request = req /\ d.tail = tl
  <2> HIDE DEF tl
  <2>1. mm.queued - (last - mm.left) \in Int
    BY <1>1, <1>5 DEF Managers
  <2> QED BY <1>4, <1>5, <1>7, <2>1 DEF Managers
<1>10. d.queued = b - last
  BY <1>1, <1>5, <1>9 DEF Line
<1>11. \A k \in 1 .. b :
         d.request[mm.line[k]] = IF k > last THEN mm.request[mm.line[k]] ELSE None
  <2> SUFFICES ASSUME NEW k \in 1 .. b
               PROVE  req[mm.line[k]] = IF k > last THEN mm.request[mm.line[k]] ELSE None
    BY <1>9
  <2>1. k <= mm.left => mm.request[mm.line[k]] = None
    BY <1>1 DEF Line, InQueue
  <2> QED BY <1>1, <1>3, <1>5, <1>6, <1>8, <2>1
<1>12. \A id \in Ids : ~InLine(mm, id) => id \notin gone
  BY <1>1, <1>3, <1>5 DEF InLine, gone
<1>13. ASSUME NEW k \in 1 .. b, mm.tail = mm.line[k]
       PROVE  d.tail = IF k > last THEN mm.tail ELSE None
  <2>1. k > mm.left
    BY <1>1, <1>13, NoneIsNoId DEF Line
  <2> QED BY <1>1, <1>5, <1>6, <1>9, <1>13, <2>1
<1>14. mm.tail = None => d.tail = None
  BY <1>9
<1> HIDE DEF tl
<1> QED BY <1>3, <1>8, <1>9, <1>10, <1>11, <1>12, <1>13, <1>14

\* preprocessing_flush_queue keeps every invariant, and leaves no value that is done at the
\* head of the queue.
LEMMA FlushQueueKeeps ==
  ASSUME NEW mm \in Managers, Line(mm), NEW d, d = FlushQueue(mm)
  PROVE  /\ d \in Managers /\ Line(d)
         /\ \A arr : Came(mm, arr) => Came(d, arr)
         /\ Ordered(mm) => Ordered(d)
         /\ Sound(mm) => Sound(d)
         /\ Linked(mm) => Linked(d)
         /\ \A e : Counted(mm, e) => Counted(d, e)
         /\ \A X : Worked(mm, X) => Worked(d, X)
         /\ d.direct = mm.direct /\ d.registered = mm.registered /\ d.work = mm.work
         /\ d.conf = mm.conf /\ d.line = mm.line
         /\ \A id \in Ids : InState(d, id, "QUEUED") => InState(mm, id, "QUEUED")
         /\ d.left < Len(d.line) => ~IsDone(d, d.left + 1)
<1>1. /\ d \in Managers /\ d.line = mm.line /\ d.left \in mm.left .. Len(mm.line)
      /\ d.direct = mm.direct /\ d.registered = mm.registered /\ d.work = mm.work
      /\ d.conf = mm.conf /\ d.history = mm.history /\ d.linked = mm.linked
      /\ d.preproc = mm.preproc /\ d.queued = Len(mm.line) - d.left
      /\ d.left < Len(mm.line) => ~IsDone(mm, d.left + 1)
      /\ \A k \in mm.left + 1 .. d.left : IsDone(mm, k)
      /\ \A k \in 1 .. Len(mm.line) :
           d.request[mm.line[k]] = IF k > d.left THEN mm.request[mm.line[k]] ELSE None
      /\ \A id \in Ids : ~InLine(mm, id) => d.request[id] = mm.request[id]
      /\ \A k \in 1 .. Len(mm.line) : mm.tail = mm.line[k] =>
           d.tail = IF k > d.left THEN mm.tail ELSE None
      /\ mm.tail = None => d.tail = None
  BY FlushQueueIs
<1>2. /\ mm.left \in Nat /\ Len(mm.line) \in Nat /\ mm.left <= Len(mm.line)
      /\ mm.line \in Seq(Ids) /\ mm.tail \in Ids \cup {None} /\ d.left \in Nat
      /\ \A k \in 1 .. Len(mm.line) : mm.line[k] \in Ids
  BY <1>1, FieldsAre DEF Line
<1>3. \A k \in 1 .. Len(mm.line) :
        /\ InQueue(d, mm.line[k]) <=> k > d.left
        /\ k > d.left => d.request[mm.line[k]] = mm.request[mm.line[k]]
        /\ k <= d.left => ~Live(mm, mm.line[k])
  <2> SUFFICES ASSUME NEW k \in 1 .. Len(mm.line)
               PROVE  /\ InQueue(d, mm.line[k]) <=> k > d.left
                      /\ k > d.left => d.request[mm.line[k]] = mm.request[mm.line[k]]
                      /\ k <= d.left => ~Live(mm, mm.line[k])
    OBVIOUS
  <2>1. InQueue(mm, mm.line[k]) <=> k > mm.left
    BY DEF Line
  <2>2. k <= d.left => ~Live(mm, mm.line[k])
    BY <1>1, <1>2, <2>1 DEF Live, IsDone
  <2> QED BY <1>1, <1>2, <2>1, <2>2 DEF InQueue
<1>4. \A id \in Ids :
        /\ InQueue(d, id) => InQueue(mm, id) /\ d.request[id] = mm.request[id]
        /\ Live(mm, id) <=> Live(d, id)
        /\ InQueue(mm, id) /\ ~InQueue(d, id) => ~Live(mm, id)
  <2> SUFFICES ASSUME NEW id \in Ids
               PROVE  /\ InQueue(d, id) => InQueue(mm, id) /\ d.request[id] = mm.request[id]
                      /\ Live(mm, id) <=> Live(d, id)
                      /\ InQueue(mm, id) /\ ~InQueue(d, id) => ~Live(mm, id)
    OBVIOUS
  <2>1. CASE InLine(mm, id)
    <3>1. PICK k \in 1 .. Len(mm.line) : mm.line[k] = id
      BY <2>1 DEF InLine
    <3>2. InQueue(mm, id) <=> k > mm.left
      BY <3>1 DEF Line
    <3> QED BY <1>1, <1>2, <1>3, <3>1, <3>2, RequestIs DEF Live, InState
  <2>2. CASE ~InLine(mm, id)
    <3>1. d.request[id] = mm.request[id] /\ ~InQueue(mm, id)
      BY <1>1, <2>2 DEF Line
    <3> QED BY <3>1 DEF InQueue, Live
  <2> QED BY <2>1, <2>2
<1>5. \A id \in Ids : \A s \in {"QUEUED", "PENDING", "PROCESSING"} :
        InState(mm, id, s) <=> InState(d, id, s)
  <2> SUFFICES ASSUME NEW id \in Ids, NEW s \in {"QUEUED", "PENDING", "PROCESSING"}
               PROVE  InState(mm, id, s) <=> InState(d, id, s)
    OBVIOUS
  <2>1. CASE InQueue(d, id)
    BY <1>4, <2>1 DEF InState
  <2>2. CASE ~InQueue(d, id)
    BY <1>4, <2>2 DEF InState, Live
  <2> QED BY <2>1, <2>2
<1>6. d.tail # None => d.tail = mm.tail /\ InQueue(d, d.tail)
  <2> SUFFICES ASSUME d.tail # None PROVE d.tail = mm.tail /\ InQueue(d, d.tail)
    OBVIOUS
  <2>1. mm.tail # None /\ mm.tail \in Ids /\ InQueue(mm, mm.tail)
    BY <1>1, <1>2 DEF Line
  <2>2. PICK k \in 1 .. Len(mm.line) : mm.line[k] = mm.tail
    BY <2>1 DEF Line, InLine
  <2> QED BY <1>1, <1>3, <2>1, <2>2
<1>7. Line(d)
  <2>1. \A id \in Ids : InQueue(d, id) => InLine(d, id)
    BY <1>1, <1>4 DEF Line, InLine
  <2>2. \A j, k \in 1 .. Len(d.line) : d.line[j] = d.line[k] => j = k
    BY <1>1 DEF Line
  <2>3. \A k \in 1 .. Len(d.line) : InQueue(d, d.line[k]) <=> k > d.left
    BY <1>1, <1>3
  <2>4. d.left <= Len(d.line) /\ d.queued = Len(d.line) - d.left
    BY <1>1, <1>2
  <2> QED BY <1>6, <2>1, <2>2, <2>3, <2>4 DEF Line
<1>8. \A arr : Came(mm, arr) => Came(d, arr)
  <2>1. \A id : InLine(mm, id) <=> InLine(d, id)
    BY <1>1 DEF InLine
  <2>2. \A i \in Items, n \in Nat : InLine(mm, <<i, n>>) => <<i, n>> \in Ids
    BY <1>2 DEF InLine
  <2> QED BY <1>1, <1>4, <2>1, <2>2 DEF Came
<1>9. Ordered(mm) => Ordered(d)
  <2> SUFFICES ASSUME Ordered(mm) PROVE Ordered(d)
    OBVIOUS
  <2>1. ASSUME NEW k \in d.left + 1 .. Len(d.line),
               d.line[k][1] \in Kept /\ Root[d.line[k][1]] \in Internal
        PROVE  d.tail # None /\ \E t \in k .. Len(d.line) : d.line[t] = d.tail
    <3>1. k \in mm.left + 1 .. Len(mm.line)
      BY <1>1, <1>2
    <3>2. PICK t \in k .. Len(mm.line) : mm.line[t] = mm.tail /\ mm.tail # None
      BY <1>1, <2>1, <3>1 DEF Ordered
    <3>3. t > d.left /\ t \in 1 .. Len(mm.line)
      BY <1>1, <1>2, <3>1, <3>2
    <3>4. d.tail = mm.tail
      BY <1>1, <3>2, <3>3
    <3> QED BY <1>1, <3>2, <3>4
  <2> QED BY <1>1, <2>1 DEF Ordered
<1>10. Sound(mm) => Sound(d)
  BY <1>1, <1>4, <1>5 DEF Sound
<1>11. Linked(mm) => Linked(d)
  <2>1. \A x \in Ids : Live(mm, x) => mm.request[x].pending = d.request[x].pending
    BY <1>4 DEF Live
  <2>2. \A x \in Ids : Live(mm, x) <=> Live(d, x)
    BY <1>4
  <2>3. \A x \in Ids : InState(mm, x, "PENDING") <=> InState(d, x, "PENDING")
    BY <1>5
  <2>4. mm.linked = d.linked
    BY <1>1
  <2> QED BY <1>1, <2>1, <2>2, <2>3, <2>4, SameChains
<1>12. \A e : Counted(mm, e) => Counted(d, e)
  <2>1. \A id \in Ids : Live(mm, id) => d.request[id].supported = mm.request[id].supported
    BY <1>4 DEF Live
  <2>2. Unanswered(d) = Unanswered(mm)
    BY <1>4, <2>1 DEF Unanswered, Live
  <2> QED BY <1>1, <2>2 DEF Counted
<1>13. \A X : Worked(mm, X) => Worked(d, X)
  BY <1>1, <1>5 DEF Worked
<1>14. \A id \in Ids : InState(d, id, "QUEUED") => InState(mm, id, "QUEUED")
  BY <1>5
<1>15. d.left < Len(d.line) => ~IsDone(d, d.left + 1)
  <2> SUFFICES ASSUME d.left < Len(mm.line) PROVE ~IsDone(d, d.left + 1)
    BY <1>1
  <2>1. d.left + 1 \in 1 .. Len(mm.line) /\ d.left + 1 > d.left
    BY <1>2
  <2>2. d.request[mm.line[d.left + 1]] = mm.request[mm.line[d.left + 1]] /\ ~IsDone(mm, d.left + 1)
    BY <1>1, <1>3, <2>1
  <2> QED BY <1>1, <2>2 DEF IsDone, InState, InQueue
<1> QED BY <1>1, <1>7, <1>8, <1>9, <1>10, <1>11, <1>12, <1>13, <1>14, <1>15

\* Where the k-th value stands when another one is put behind the p-th.
Moved(p, k) == IF k <= p THEN k ELSE k + 1

\* t is s with x put behind the p-th value.
Inserted(s, t, p, x) ==
  /\ s \in Seq(Ids) /\ p \in 0 .. Len(s)
  /\ Len(t) = Len(s) + 1 /\ t[p + 1] = x
  /\ \A k \in 1 .. Len(s) : t[Moved(p, k)] = s[k]

\* InsertAt of the community modules puts a value behind the first p.
LEMMA InsertAtIs ==
  ASSUME NEW s \in Seq(Ids), NEW p \in 0 .. Len(s), NEW x \in Ids
  PROVE  InsertAt(s, p + 1, x) \in Seq(Ids) /\ Inserted(s, InsertAt(s, p + 1, x), p, x)
<1> DEFINE a == SubSeq(s, 1, p)
           b == SubSeq(s, p + 1, Len(s))
           t == (a \o <<x>>) \o b
<1>1. InsertAt(s, p + 1, x) = t
  <2>1. InsertAt(s, p + 1, x) = (SubSeq(s, 1, (p + 1) - 1) \o <<x>>) \o SubSeq(s, p + 1, Len(s))
    BY DEF InsertAt
  <2>2. (p + 1) - 1 = p
    OBVIOUS
  <2> QED BY <2>1, <2>2
<1>2. /\ a \in Seq(Ids) /\ Len(a) = p /\ \A k \in 1 .. p : a[k] = s[k]
      /\ b \in Seq(Ids) /\ Len(b) = Len(s) - p /\ \A k \in 1 .. Len(s) - p : b[k] = s[p + k]
  OBVIOUS
<1> HIDE DEF a, b
<1>3. /\ t \in Seq(Ids) /\ Len(t) = Len(s) + 1 /\ t[p + 1] = x
      /\ \A k \in 1 .. p : t[k] = s[k]
      /\ \A k \in p + 1 .. Len(s) : t[k + 1] = s[k]
  <2> DEFINE c == a \o <<x>>
  <2>1. /\ c \in Seq(Ids) /\ Len(c) = p + 1 /\ c[p + 1] = x
        /\ \A k \in 1 .. p : c[k] = s[k]
    BY <1>2
  <2> HIDE DEF c
  <2>2. c \o b \in Seq(Ids) /\ Len(c \o b) = Len(s) + 1
    <3>1. c \o b \in Seq(Ids) /\ Len(c \o b) = Len(c) + Len(b)
      <4>1. b \in Seq(Ids) /\ c \in Seq(Ids)
        BY <1>2, <2>1
      <4> QED BY ONLY <4>1
    <3>2. Len(c) + Len(b) = Len(s) + 1
      BY <1>2, <2>1
    <3> QED BY <3>1, <3>2
  <2>3. \A k \in 1 .. p + 1 : (c \o b)[k] = c[k]
    BY <1>2, <2>1
  <2>4. \A k \in p + 1 .. Len(s) : (c \o b)[k + 1] = s[k]
    <3> SUFFICES ASSUME NEW k \in p + 1 .. Len(s) PROVE (c \o b)[k + 1] = s[k]
      OBVIOUS
    <3>1. k - p \in 1 .. Len(s) - p /\ p + (k - p) = k
      OBVIOUS
    <3>2. (c \o b)[k + 1] = b[k - p]
      BY <1>2, <2>1, <3>1
    <3> QED BY <1>2, <3>1, <3>2
  <2> QED BY <2>1, <2>2, <2>3, <2>4 DEF c
<1> HIDE DEF t
<1> QED BY <1>1, <1>3 DEF Inserted, Moved

\* Append puts a value behind all.
LEMMA AppendIs ==
  ASSUME NEW s \in Seq(Ids), NEW x \in Ids
  PROVE  Append(s, x) \in Seq(Ids) /\ Inserted(s, Append(s, x), Len(s), x)
  BY DEF Inserted, Moved

\* A value put in moves the ones behind it by one, and keeps their order.
LEMMA InsertedIs ==
  ASSUME NEW s, NEW t, NEW p, NEW x, Inserted(s, t, p, x)
  PROVE  /\ \A k \in 1 .. Len(t) :
              k = p + 1 \/ \E j \in 1 .. Len(s) : k = Moved(p, j) /\ t[k] = s[j]
         /\ \A j, k \in 1 .. Len(s) : Moved(p, j) < Moved(p, k) <=> j < k
         /\ \A k \in 1 .. Len(s) : /\ Moved(p, k) \in 1 .. Len(t)
                                   /\ Moved(p, k) < p + 1 <=> k <= p
                                   /\ Moved(p, k) > p + 1 <=> k > p
                                   /\ Moved(p, k) >= k
<1> s \in Seq(Ids) /\ p \in 0 .. Len(s)
  BY DEF Inserted
<1>1. ASSUME NEW k \in 1 .. Len(t), k # p + 1
      PROVE  \E j \in 1 .. Len(s) : k = Moved(p, j) /\ t[k] = s[j]
  <2>1. CASE k <= p
    <3>1. k \in 1 .. Len(s) /\ Moved(p, k) = k
      BY <2>1 DEF Moved
    <3> QED BY <3>1 DEF Inserted
  <2>2. CASE k > p + 1
    <3>1. k - 1 \in 1 .. Len(s) /\ Moved(p, k - 1) = k
      BY <2>2 DEF Moved, Inserted
    <3> QED BY <3>1 DEF Inserted
  <2> QED BY <1>1, <2>1, <2>2
<1>2. /\ \A j, k \in 1 .. Len(s) : Moved(p, j) < Moved(p, k) <=> j < k
      /\ \A k \in 1 .. Len(s) : /\ Moved(p, k) \in 1 .. Len(t)
                                /\ Moved(p, k) < p + 1 <=> k <= p
                                /\ Moved(p, k) > p + 1 <=> k > p
                                /\ Moved(p, k) >= k
  BY DEF Moved, Inserted
<1> QED BY <1>1, <1>2

\* A value that was not in line is put into it: behind p, in the queue or out of it.
Entered(mm, d, x, p) ==
  /\ d \in Managers /\ p \in mm.left .. Len(mm.line)
  /\ Inserted(mm.line, d.line, p, x)
  /\ \A y \in Ids \ {x} : InQueue(d, y) <=> InQueue(mm, y)
  /\ \/ /\ d.left = mm.left /\ InQueue(d, x) /\ d.queued = mm.queued + 1
        /\ d.tail \in {mm.tail, x}
     \/ /\ d.left = mm.left + 1 /\ mm.left = Len(mm.line) /\ ~InQueue(d, x)
        /\ d.queued = mm.queued /\ d.tail = mm.tail

\* A value that was not in line enters it once.
LEMMA EnteredLine ==
  ASSUME NEW mm \in Managers, Line(mm), NEW x \in Ids, ~InLine(mm, x), NEW d, NEW p,
         Entered(mm, d, x, p)
  PROVE  Line(d) /\ \A y : InLine(d, y) <=> InLine(mm, y) \/ y = x
<1> DEFINE s == mm.line
           t == d.line
<1>1. /\ d \in Managers /\ p \in mm.left .. Len(s) /\ Inserted(s, t, p, x)
      /\ \A y \in Ids \ {x} : InQueue(d, y) <=> InQueue(mm, y)
      /\ \/ /\ d.left = mm.left /\ InQueue(d, x) /\ d.queued = mm.queued + 1
            /\ d.tail \in {mm.tail, x}
         \/ /\ d.left = mm.left + 1 /\ mm.left = Len(s) /\ ~InQueue(d, x)
            /\ d.queued = mm.queued /\ d.tail = mm.tail
  BY DEF Entered
<1>2. /\ s \in Seq(Ids) /\ Len(s) \in Nat /\ mm.left \in Nat /\ p \in 0 .. Len(s)
      /\ \A k \in 1 .. Len(s) : s[k] \in Ids /\ s[k] # x
      /\ Len(t) = Len(s) + 1 /\ t[p + 1] = x
      /\ \A k \in 1 .. Len(s) : t[Moved(p, k)] = s[k]
      /\ mm.left <= Len(s) /\ mm.tail \in Ids \cup {None}
  BY <1>1, FieldsAre DEF Line, InLine, Inserted
<1>3. /\ \A k \in 1 .. Len(t) :
           k = p + 1 \/ \E j \in 1 .. Len(s) : k = Moved(p, j) /\ t[k] = s[j]
      /\ \A j, k \in 1 .. Len(s) : Moved(p, j) < Moved(p, k) <=> j < k
      /\ \A k \in 1 .. Len(s) : /\ Moved(p, k) \in 1 .. Len(t)
                                /\ Moved(p, k) < p + 1 <=> k <= p
                                /\ Moved(p, k) > p + 1 <=> k > p
                                /\ Moved(p, k) >= k
  <2> HIDE DEF s, t
  <2> QED BY <1>1, InsertedIs
<1> HIDE DEF s, t
<1>4. p + 1 \in 1 .. Len(t)
  BY <1>2
<1>5. \A y : InLine(d, y) <=> InLine(mm, y) \/ y = x
  BY <1>2, <1>3, <1>4 DEF InLine, s, t
<1>6. \A j, k \in 1 .. Len(t) : t[j] = t[k] => j = k
  <2>1. \A j, k \in 1 .. Len(s) : s[j] = s[k] => j = k
    BY DEF Line, s
  <2>2. \A k \in 1 .. Len(t) : k # p + 1 => t[k] # x
    BY <1>2, <1>3
  <2> SUFFICES ASSUME NEW j \in 1 .. Len(t), NEW k \in 1 .. Len(t), t[j] = t[k] PROVE j = k
    OBVIOUS
  <2>3. CASE j = p + 1 \/ k = p + 1
    BY <1>2, <1>4, <2>2, <2>3
  <2>4. CASE j # p + 1 /\ k # p + 1
    <3>1. PICK u \in 1 .. Len(s) : j = Moved(p, u) /\ t[j] = s[u]
      BY <1>3, <2>4
    <3>2. PICK v \in 1 .. Len(s) : k = Moved(p, v) /\ t[k] = s[v]
      BY <1>3, <2>4
    <3> QED BY <2>1, <3>1, <3>2
  <2> QED BY <2>3, <2>4
<1>7. \A k \in 1 .. Len(t) : InQueue(d, t[k]) <=> k > d.left
  <2> SUFFICES ASSUME NEW k \in 1 .. Len(t) PROVE InQueue(d, t[k]) <=> k > d.left
    OBVIOUS
  <2>1. CASE k = p + 1
    BY <1>1, <1>2, <2>1
  <2>2. CASE k # p + 1
    <3>1. PICK j \in 1 .. Len(s) : k = Moved(p, j) /\ t[k] = s[j]
      BY <1>3, <2>2
    <3>2. InQueue(d, t[k]) <=> j > mm.left
      BY <1>1, <1>2, <3>1 DEF Line, s
    <3>3. k > d.left <=> j > mm.left
      BY <1>1, <1>2, <3>1 DEF Moved
    <3> QED BY <3>2, <3>3
  <2> QED BY <2>1, <2>2
<1>8. \A y \in Ids : InQueue(d, y) => InLine(d, y)
  BY <1>1, <1>5 DEF Line
<1>9. d.tail # None => InQueue(d, d.tail)
  <2>1. mm.tail # None => mm.tail \in Ids /\ mm.tail # x /\ InQueue(mm, mm.tail)
    <3>1. mm.tail # None => InQueue(mm, mm.tail) /\ mm.tail \in Ids
      BY <1>2 DEF Line
    <3> QED BY <3>1 DEF Line
  <2> QED BY <1>1, <2>1
<1>10. d.left <= Len(t) /\ d.queued = Len(t) - d.left
  BY <1>1, <1>2 DEF Line, s
<1> QED BY <1>5, <1>6, <1>7, <1>8, <1>9, <1>10 DEF Line, t

\* The order is kept if the value is put behind all that are to leave before it.
LEMMA EnteredOrdered ==
  ASSUME NEW mm \in Managers, Line(mm), Ordered(mm), NEW x \in Ids, ~InLine(mm, x),
         NEW d, NEW p, Entered(mm, d, x, p),
         \A k \in 1 .. Len(mm.line) : Together(mm.line[k], x) =>
            IF k <= p THEN mm.line[k][2] <= x[2] ELSE x[2] <= mm.line[k][2],
         d.left = mm.left =>
            /\ d.tail = x /\ mm.tail # None => p >= 1 /\ mm.line[p] = mm.tail
            /\ x[1] \in Kept /\ Root[x[1]] \in Internal =>
                 \/ d.tail = x
                 \/ mm.tail # None /\ \E t \in p + 1 .. Len(mm.line) : mm.line[t] = mm.tail
  PROVE  Ordered(d)
<1> DEFINE s == mm.line
           t == d.line
<1>1. /\ d \in Managers /\ p \in mm.left .. Len(s) /\ Inserted(s, t, p, x)
      /\ \/ d.left = mm.left /\ d.tail \in {mm.tail, x}
         \/ d.left = mm.left + 1 /\ mm.left = Len(s)
  BY DEF Entered
<1>2. /\ s \in Seq(Ids) /\ Len(s) \in Nat /\ mm.left \in Nat /\ p \in 0 .. Len(s)
      /\ \A k \in 1 .. Len(s) : s[k] \in Ids /\ s[k] # x
      /\ Len(t) = Len(s) + 1 /\ t[p + 1] = x
      /\ \A k \in 1 .. Len(s) : t[Moved(p, k)] = s[k]
  BY <1>1, FieldsAre DEF InLine, Inserted
<1>3. /\ \A k \in 1 .. Len(t) :
           k = p + 1 \/ \E j \in 1 .. Len(s) : k = Moved(p, j) /\ t[k] = s[j]
      /\ \A j, k \in 1 .. Len(s) : Moved(p, j) < Moved(p, k) <=> j < k
      /\ \A k \in 1 .. Len(s) : /\ Moved(p, k) \in 1 .. Len(t)
                                /\ Moved(p, k) < p + 1 <=> k <= p
                                /\ Moved(p, k) > p + 1 <=> k > p
                                /\ Moved(p, k) >= k
  <2> HIDE DEF s, t
  <2> QED BY <1>1, InsertedIs
<1>4. /\ \A j, k \in 1 .. Len(s) : j < k /\ Together(s[j], s[k]) => s[j][2] <= s[k][2]
      /\ \A k \in mm.left + 1 .. Len(s) :
           s[k][1] \in Kept /\ Root[s[k][1]] \in Internal
             => mm.tail # None /\ \E u \in k .. Len(s) : s[u] = mm.tail
      /\ \A k \in 1 .. Len(s) : Together(s[k], x) =>
            IF k <= p THEN s[k][2] <= x[2] ELSE x[2] <= s[k][2]
      /\ \A j, k \in 1 .. Len(s) : s[j] = s[k] => j = k
  BY DEF Ordered, Line
<1>5. d.left = mm.left =>
            /\ d.tail = x /\ mm.tail # None => p >= 1 /\ s[p] = mm.tail
            /\ x[1] \in Kept /\ Root[x[1]] \in Internal =>
                 \/ d.tail = x
                 \/ mm.tail # None /\ \E u \in p + 1 .. Len(s) : s[u] = mm.tail
  OBVIOUS
<1>6. mm.tail \in Ids \cup {None} /\ mm.left <= Len(s)
      /\ (mm.tail # None => InQueue(mm, mm.tail) /\ \E u \in 1 .. Len(s) : s[u] = mm.tail)
  BY FieldsAre DEF Line, InLine
<1> HIDE DEF s, t
<1>7. ASSUME NEW j \in 1 .. Len(t), NEW k \in 1 .. Len(t), j < k, Together(t[j], t[k])
      PROVE  t[j][2] <= t[k][2]
  <2>1. CASE j = p + 1
    <3>1. PICK v \in 1 .. Len(s) : k = Moved(p, v) /\ t[k] = s[v]
      BY <1>3, <1>7, <2>1
    <3>2. v > p /\ Together(s[v], x)
      BY <1>2, <1>3, <1>7, <2>1, <3>1 DEF Together
    <3> QED BY <1>2, <1>4, <2>1, <3>1, <3>2
  <2>2. CASE k = p + 1
    <3>1. PICK v \in 1 .. Len(s) : j = Moved(p, v) /\ t[j] = s[v]
      BY <1>3, <1>7, <2>2
    <3>2. v <= p /\ Together(s[v], x)
      BY <1>2, <1>3, <1>7, <2>2, <3>1
    <3> QED BY <1>2, <1>4, <2>2, <3>1, <3>2
  <2>3. CASE j # p + 1 /\ k # p + 1
    <3>1. PICK u \in 1 .. Len(s) : j = Moved(p, u) /\ t[j] = s[u]
      BY <1>3, <2>3
    <3>2. PICK v \in 1 .. Len(s) : k = Moved(p, v) /\ t[k] = s[v]
      BY <1>3, <2>3
    <3> QED BY <1>3, <1>4, <1>7, <3>1, <3>2
  <2> QED BY <2>1, <2>2, <2>3
<1>8. ASSUME NEW k \in d.left + 1 .. Len(t), t[k][1] \in Kept, Root[t[k][1]] \in Internal
      PROVE  d.tail # None /\ \E u \in k .. Len(t) : t[u] = d.tail
  <2>1. d.left = mm.left /\ d.tail \in {mm.tail, x}
    BY <1>1, <1>2, <1>8
  <2>2. k \in 1 .. Len(t) /\ x # None
    BY <1>2, <1>8, <2>1, NoneIsNoId
  <2>3. CASE k = p + 1
    <3>1. CASE d.tail = x
      BY <1>2, <2>2, <2>3, <3>1
    <3>2. CASE d.tail # x
      <4>1. d.tail = mm.tail /\ mm.tail # None
        BY <1>2, <1>5, <1>8, <2>1, <2>3, <3>2
      <4>2. PICK u \in p + 1 .. Len(s) : s[u] = mm.tail
        BY <1>2, <1>5, <1>8, <2>1, <2>3, <3>2
      <4>3. u \in 1 .. Len(s) /\ Moved(p, u) \in 1 .. Len(t) /\ Moved(p, u) > p + 1 /\ t[Moved(p, u)] = s[u]
        BY <1>2, <1>3, <4>2
      <4>4. Moved(p, u) \in k .. Len(t)
        BY <2>2, <2>3, <4>3
      <4> QED BY <4>1, <4>2, <4>3, <4>4
    <3> QED BY <3>1, <3>2
  <2>4. CASE k # p + 1
    <3>1. PICK v \in 1 .. Len(s) : k = Moved(p, v) /\ t[k] = s[v]
      BY <1>3, <2>2, <2>4
    <3>2. v \in mm.left + 1 .. Len(s)
      BY <1>1, <1>2, <1>8, <2>1, <3>1 DEF Moved
    <3>3. PICK u \in v .. Len(s) : s[u] = mm.tail /\ mm.tail # None
      BY <1>4, <1>8, <3>1, <3>2
    <3>4. u \in 1 .. Len(s) /\ Moved(p, u) \in 1 .. Len(t) /\ Moved(p, u) >= k /\ t[Moved(p, u)] = s[u]
      BY <1>2, <1>3, <3>1, <3>3 DEF Moved
    <3>5. CASE d.tail = mm.tail
      <4>1. Moved(p, u) \in k .. Len(t)
        BY <2>2, <3>4
      <4> QED BY <3>3, <3>4, <3>5, <4>1
    <3>6. CASE d.tail = x /\ d.tail # mm.tail
      <4>1. s[p] = mm.tail
        BY <1>5, <2>1, <3>3, <3>6
      <4>2. p >= 1
        BY <1>5, <2>1, <3>3, <3>6
      <4>3. u = p
        BY <1>2, <1>4, <3>3, <3>4, <4>1, <4>2
      <4>4. p + 1 \in k .. Len(t)
        BY <1>2, <1>3, <2>2, <3>1, <3>3, <4>3
      <4> QED BY <1>2, <2>2, <3>6, <4>4
    <3> QED BY <2>1, <3>5, <3>6
  <2> QED BY <2>3, <2>4
<1> QED BY <1>7, <1>8 DEF Ordered, t

\* Nothing enters the line before its master is done.
LEMMA EnteredCame ==
  ASSUME NEW mm \in Managers, Line(mm), NEW arr, Came(mm, arr), NEW x \in Ids, ~InLine(mm, x),
         NEW d, NEW p, Entered(mm, d, x, p), x[2] <= arr[Root[x[1]]],
         \A y \in Ids \ {x} : Live(d, y) => Live(mm, y),
         \A i \in Items : \A k \in DOMAIN Deps[i] : Deps[i][k] = x[1] =>
            InLine(mm, <<i, x[2]>>) /\ ~Live(mm, <<i, x[2]>>)
  PROVE  Came(d, arr)
<1>1. \A y : InLine(d, y) <=> InLine(mm, y) \/ y = x
  BY EnteredLine
<1>2. \A k \in 1 .. Len(mm.line) : mm.line[k] \in Ids
  BY FieldsAre
<1>3. d \in Managers
  BY DEF Entered
<1>4. \A k \in 1 .. Len(d.line) : d.line[k][2] <= arr[Root[d.line[k][1]]]
  <2> SUFFICES ASSUME NEW k \in 1 .. Len(d.line)
               PROVE  d.line[k][2] <= arr[Root[d.line[k][1]]]
    OBVIOUS
  <2>1. InLine(d, d.line[k])
    BY DEF InLine
  <2>2. CASE d.line[k] = x
    BY <2>2
  <2>3. CASE InLine(mm, d.line[k])
    <3>1. PICK j \in 1 .. Len(mm.line) : mm.line[j] = d.line[k]
      BY <2>3 DEF InLine
    <3> QED BY <3>1 DEF Came
  <2> QED BY <1>1, <2>1, <2>2, <2>3
<1>5. ASSUME NEW i \in Items, NEW n \in Nat, NEW e \in DOMAIN Deps[i], InLine(d, <<Deps[i][e], n>>)
      PROVE  InLine(d, <<i, n>>) /\ ~Live(d, <<i, n>>)
  <2>1. CASE InLine(mm, <<Deps[i][e], n>>)
    <3>1. InLine(mm, <<i, n>>) /\ ~Live(mm, <<i, n>>)
      BY <2>1 DEF Came
    <3>2. <<i, n>> \in Ids \ {x}
      BY <1>2, <3>1 DEF InLine
    <3> QED BY <1>1, <3>1, <3>2
  <2>2. CASE <<Deps[i][e], n>> = x
    <3>1. InLine(mm, <<i, n>>) /\ ~Live(mm, <<i, n>>)
      BY <2>2
    <3>2. <<i, n>> \in Ids \ {x}
      BY <1>2, <3>1 DEF InLine
    <3> QED BY <1>1, <3>1, <3>2
  <2> QED BY <1>1, <1>5, <2>1, <2>2
<1> QED BY <1>4, <1>5 DEF Came

\* A value that may be enqueued: it is not in line; one from outside is the last that came,
\* and a dependent's master is in line and done, in the queue or, without steps, out of it.
Enters(mm, v, master, arr) ==
  /\ v \in [id : Ids, supported : BOOLEAN, set : BOOLEAN] /\ ~InLine(mm, v.id)
  /\ v.id[2] <= arr[Root[v.id[1]]]
  /\ v.id[1] \in Direct => master = None /\ arr[v.id[1]] = v.id[2]
  /\ v.id[1] \notin Direct =>
       /\ v.supported
       /\ \E i \in Items : \E k \in DOMAIN Deps[i] :
            /\ Deps[i][k] = v.id[1] /\ InLine(mm, <<i, v.id[2]>>) /\ ~Live(mm, <<i, v.id[2]>>)
            /\ \/ master = <<i, v.id[2]>> /\ InQueue(mm, master)
               \/ master = None /\ i \in Direct /\ Kinds[i] = "none" /\ arr[i] = v.id[2]

\* The position of a value in the queue.
LEMMA PosIs ==
  ASSUME NEW mm \in Managers, Line(mm), NEW id \in Ids, InQueue(mm, id)
  PROVE  Pos(mm, id) \in mm.left + 1 .. Len(mm.line) /\ mm.line[Pos(mm, id)] = id
<1>1. \E k \in DOMAIN mm.line : mm.line[k] = id
  BY FieldsAre DEF Line, InLine
<1>2. Pos(mm, id) \in DOMAIN mm.line /\ mm.line[Pos(mm, id)] = id
  BY <1>1 DEF Pos
<1>3. Pos(mm, id) \in 1 .. Len(mm.line)
  BY <1>2, FieldsAre
<1>4. Pos(mm, id) > mm.left
  BY <1>2, <1>3 DEF Line
<1> QED BY <1>2, <1>3, <1>4, FieldsAre

\* The place that preprocessor_enqueue finds for a value keeps the order: internal values
\* pass only others, and dependents stand behind their master and what it brought in.
LEMMA PlaceIs ==
  ASSUME NEW mm \in Managers, NEW arr, Line(mm), Ordered(mm), Came(mm, arr), NEW v, NEW master,
         arr \in [Direct -> Nat], Enters(mm, v, master, arr), NEW p, p = Place(mm, v, master),
         NEW first, first <=> GoesFirst(v, master) \/ (master # None /\ master = mm.tail)
  PROVE  /\ p \in mm.left .. Len(mm.line)
         /\ QueueIsEmpty(mm) => p = Len(mm.line)
         /\ \A k \in 1 .. Len(mm.line) : Together(mm.line[k], v.id) =>
              IF k <= p THEN mm.line[k][2] <= v.id[2] ELSE v.id[2] <= mm.line[k][2]
         /\ first /\ mm.tail # None => p >= 1 /\ mm.line[p] = mm.tail
         /\ v.id[1] \in Kept /\ Root[v.id[1]] \in Internal =>
              first \/ (mm.tail # None /\ \E t \in p + 1 .. Len(mm.line) : mm.line[t] = mm.tail)
<1> DEFINE x == v.id
           s == mm.line
<1>1. /\ mm.left \in Nat /\ Len(s) \in Nat /\ mm.left <= Len(s) /\ mm.tail \in Ids \cup {None}
      /\ s \in Seq(Ids) /\ \A k \in 1 .. Len(s) : s[k] \in Ids
      /\ mm.tail # None => InQueue(mm, mm.tail)
  BY FieldsAre DEF Line
<1>2. /\ x \in Ids /\ ~InLine(mm, x) /\ v.supported \in BOOLEAN
      /\ x[1] \in Direct => master = None /\ arr[x[1]] = x[2]
      /\ x[1] \notin Direct =>
           \E i \in Items : \E k \in DOMAIN Deps[i] :
            /\ Deps[i][k] = x[1]
            /\ \/ master = <<i, x[2]>> /\ InQueue(mm, master)
               \/ master = None /\ i \in Direct /\ Kinds[i] = "none" /\ arr[i] = x[2]
  BY DEF Enters
<1>3. x[1] \in Items /\ x[2] \in Nat /\ \A k \in 1 .. Len(s) : s[k][1] \in Items /\ s[k][2] \in Nat
  BY <1>1, <1>2, IdsAre
<1>4. mm.tail # None => Pos(mm, mm.tail) \in mm.left + 1 .. Len(s) /\ s[Pos(mm, mm.tail)] = mm.tail
  BY <1>1, PosIs
<1>5. Internal \subseteq Direct /\ \A i \in Direct : Root[i] = i
  BY KeptAre, ManagerAssumption
<1>6. \A k \in 1 .. Len(s) : s[k][2] <= arr[Root[s[k][1]]]
  BY DEF Came
<1>7. /\ \A j, k \in 1 .. Len(s) : j < k /\ Together(s[j], s[k]) => s[j][2] <= s[k][2]
      /\ \A k \in mm.left + 1 .. Len(s) :
           s[k][1] \in Kept /\ Root[s[k][1]] \in Internal
             => mm.tail # None /\ \E t \in k .. Len(s) : s[t] = mm.tail
      /\ \A j, k \in 1 .. Len(s) : s[j] = s[k] => j = k
  BY DEF Ordered, Line
<1> HIDE DEF s
<1>8. QueueIsEmpty(mm) => mm.left = Len(s) /\ mm.tail = None
  <2>1. QueueIsEmpty(mm) => mm.left = Len(s)
    BY DEF QueueIsEmpty, s
  <2>2. mm.tail # None => mm.left < Len(s)
    BY <1>1, <1>4
  <2> QED BY <1>1, <2>1, <2>2
<1>9. CASE GoesFirst(v, master)
  <2>1. master = None /\ x[1] \in Internal /\ x[1] \in Direct /\ arr[x[1]] = x[2] /\ Root[x[1]] = x[1]
    BY <1>2, <1>5, <1>9 DEF GoesFirst
  <2>2. p = IF mm.tail = None THEN mm.left ELSE Pos(mm, mm.tail)
    BY <1>9 DEF Place
  <2>3. p \in mm.left .. Len(s)
    BY <1>1, <1>4, <2>2
  <2>4. ASSUME NEW k \in 1 .. Len(s), Together(s[k], x)
        PROVE  k <= p /\ s[k][2] <= x[2]
    <3>1. s[k][1] \in Kept /\ Root[s[k][1]] = x[1] /\ s[k][2] <= x[2]
      BY <1>6, <2>1, <2>4 DEF Together
    <3>2. ASSUME k > p PROVE FALSE
      <4>1. k \in mm.left + 1 .. Len(s)
        BY <1>1, <2>3, <3>2
      <4>2. PICK t \in k .. Len(s) : s[t] = mm.tail /\ mm.tail # None
        BY <1>7, <2>1, <3>1, <4>1
      <4>3. t \in 1 .. Len(s) /\ p \in 1 .. Len(s)
        BY <1>1, <1>4, <2>2, <4>2
      <4> QED BY <1>4, <1>7, <2>2, <3>2, <4>2, <4>3
    <3> QED BY <1>1, <2>3, <3>1, <3>2
  <2>5. mm.tail # None => p >= 1 /\ s[p] = mm.tail
    BY <1>1, <1>4, <2>2
  <2> QED BY <1>1, <1>8, <1>9, <2>2, <2>3, <2>4, <2>5 DEF s
<1>10. CASE ~GoesFirst(v, master) /\ master = None
  <2>1. p = Len(s) /\ ~first /\ x[1] \notin Internal
    BY <1>10 DEF Place, GoesFirst, s
  <2>2. arr[Root[x[1]]] = x[2] /\ ~(x[1] \in Kept /\ Root[x[1]] \in Internal)
    <3>1. CASE x[1] \in Direct
      BY <1>2, <1>5, <2>1, <3>1
    <3>2. CASE x[1] \notin Direct
      <4>1. PICK i \in Items : \E k \in DOMAIN Deps[i] :
              Deps[i][k] = x[1] /\ i \in Direct /\ Kinds[i] = "none" /\ arr[i] = x[2]
        <5>1. PICK i \in Items : \E k \in DOMAIN Deps[i] :
                /\ Deps[i][k] = x[1]
                /\ \/ master = <<i, x[2]>> /\ InQueue(mm, master)
                   \/ master = None /\ i \in Direct /\ Kinds[i] = "none" /\ arr[i] = x[2]
          BY <1>2, <3>2
        <5>2. <<i, x[2]>> \in Ids
          BY <1>2, <5>1, IdsAre, MasterAssumption
        <5>3. master # <<i, x[2]>>
          BY <1>10, <5>2, NoneIsNoId
        <5> QED BY <5>1, <5>3
      <4>2. Root[x[1]] = i
        BY <1>5, <4>1, DepsAre
      <4> QED BY <3>2, <4>1, <4>2 DEF Kept, Bare
    <3> QED BY <3>1, <3>2
  <2>3. \A k \in 1 .. Len(s) : Together(s[k], x) => s[k][2] <= x[2]
    BY <1>6, <2>2 DEF Together
  <2> QED BY <1>1, <2>1, <2>2, <2>3 DEF s
<1>11. CASE master # None
  <2>1. x[1] \notin Direct
    BY <1>2, <1>11
  <2>2. PICK i \in Items : \E k \in DOMAIN Deps[i] :
          Deps[i][k] = x[1] /\ master = <<i, x[2]>> /\ InQueue(mm, master)
    BY <1>2, <1>11, <2>1
  <2>3. Root[x[1]] = Root[i] /\ (x[1] \in Kept => i \in Kept)
    BY <2>2, DepsAre
  <2>4. master \in Ids /\ master[1] = i /\ master[2] = x[2] /\ InQueue(mm, master)
    BY <1>2, <2>2, IdsAre, MasterAssumption
  <2>5. p = Pos(mm, master)
    BY <1>11 DEF Place, GoesFirst
  <2>6. p \in mm.left + 1 .. Len(s) /\ p \in 1 .. Len(s) /\ s[p] = master
    BY <1>1, <2>4, <2>5, PosIs DEF s
  <2>7. ASSUME NEW k \in 1 .. Len(s), Together(s[k], x)
        PROVE  IF k <= p THEN s[k][2] <= x[2] ELSE x[2] <= s[k][2]
    <3>1. Together(s[k], s[p]) /\ Together(s[p], s[k])
      BY <2>3, <2>4, <2>6, <2>7 DEF Together
    <3>2. CASE k = p
      BY <1>3, <2>4, <2>6, <3>2
    <3>3. CASE k < p
      BY <1>7, <2>4, <2>6, <3>1, <3>3
    <3>4. CASE k > p
      <4>1. ~(k <= p)
        BY <2>6, <3>4
      <4> QED BY <1>7, <2>4, <2>6, <3>1, <3>4, <4>1
    <3> QED BY <2>6, <3>2, <3>3, <3>4
  <2>8. first <=> master = mm.tail
    BY <1>11 DEF GoesFirst
  <2>9. ASSUME x[1] \in Kept, Root[x[1]] \in Internal, master # mm.tail
        PROVE  mm.tail # None /\ \E t \in p + 1 .. Len(s) : s[t] = mm.tail
    <3>1. PICK t \in p .. Len(s) : s[t] = mm.tail /\ mm.tail # None
      BY <1>7, <2>3, <2>4, <2>6, <2>9
    <3>2. t # p
      BY <2>6, <2>9, <3>1
    <3>3. t \in p + 1 .. Len(s)
      BY <2>6, <3>1, <3>2
    <3> QED BY <3>1, <3>3
  <2>10. ~QueueIsEmpty(mm)
    BY <1>1, <1>8, <2>6
  <2> QED BY <1>1, <2>6, <2>7, <2>8, <2>9, <2>10 DEF s
<1> QED BY <1>9, <1>10, <1>11

\* A value that is to be preprocessed joins the chain of its item.
LEMMA LinkItemsIs ==
  ASSUME NEW b \in Managers, NEW x \in Ids, InState(b, x, "QUEUED"), b.request[x].pending = None,
         NEW last, last = b.linked[x[1]], last # x,
         last # None => Live(b, last),
         NEW d, d = LinkItems(b, x)
  PROVE  /\ d \in Managers
         /\ d.line = b.line /\ d.left = b.left /\ d.tail = b.tail /\ d.queued = b.queued
         /\ d.preproc = b.preproc /\ d.conf = b.conf /\ d.registered = b.registered
         /\ d.direct = b.direct /\ d.work = b.work /\ d.history = b.history
         /\ \A y \in Ids :
              /\ InQueue(d, y) <=> InQueue(b, y)
              /\ InQueue(b, y) => d.request[y].supported = b.request[y].supported
              /\ Live(d, y) <=> Live(b, y)
              /\ InState(d, y, "PROCESSING") <=> InState(b, y, "PROCESSING")
         /\ b.conf[x[1]].kind # "history" => d = b
         /\ b.conf[x[1]].kind = "history" =>
              /\ d.linked = [b.linked EXCEPT ![x[1]] = x]
              /\ \A y \in Ids : InQueue(b, y) =>
                   /\ d.request[y].pending = IF y = last THEN x ELSE b.request[y].pending
                   /\ InState(d, y, "PENDING") <=>
                        InState(b, y, "PENDING") \/ (y = x /\ last # None)
<1>1. /\ x[1] \in Items /\ last \in Ids \cup {None} /\ InQueue(b, x) /\ b.request[x].state = "QUEUED"
      /\ \A y \in Ids : InQueue(b, y) => b.request[y] \in Requests
  BY IdsAre, FieldsAre, RequestIs
<1>2. CASE b.conf[x[1]].kind # "history"
  <2>1. d = b
    BY <1>2 DEF LinkItems
  <2> QED BY <1>2, <2>1
<1> DEFINE l == [b.linked EXCEPT ![x[1]] = x]
<1>3. l \in [Items -> Ids \cup {None}]
  BY <1>1, FieldsAre
<1>4. CASE b.conf[x[1]].kind = "history" /\ last = None
  <2>1. d = [b EXCEPT !.linked = l]
    BY <1>4 DEF LinkItems
  <2> HIDE DEF l
  <2>2. /\ d \in Managers /\ d.request = b.request /\ d.linked = l
        /\ d.line = b.line /\ d.left = b.left /\ d.tail = b.tail /\ d.queued = b.queued
        /\ d.preproc = b.preproc /\ d.conf = b.conf /\ d.registered = b.registered
        /\ d.direct = b.direct /\ d.work = b.work /\ d.history = b.history
    BY <1>3, <2>1 DEF Managers
  <2>3. \A y \in Ids : /\ InQueue(d, y) <=> InQueue(b, y)
                       /\ Live(d, y) <=> Live(b, y)
                       /\ \A s : InState(d, y, s) <=> InState(b, y, s)
    BY <2>2 DEF InQueue, InState, Live
  <2> QED BY <1>4, <2>2, <2>3, NoneIsNoId DEF l
<1>5. CASE b.conf[x[1]].kind = "history" /\ last # None
  <2> DEFINE p == [b.request[last] EXCEPT !.pending = x]
             s == [b.request[x] EXCEPT !.state = "PENDING"]
             req == [[b.request EXCEPT ![last] = p] EXCEPT ![x] = s]
  <2>1. last \in Ids /\ InQueue(b, last) /\ ~InState(b, last, "DONE")
    BY <1>1, <1>5 DEF Live
  <2>2. d = [b EXCEPT !.linked = l, !.request = req]
    <3>1. d = [[b EXCEPT !.linked[x[1]] = x] EXCEPT !.request[last].pending = x, !.request[x].state = "PENDING"]
      BY <1>5, <2>1 DEF LinkItems
    <3>2. (x # last) /\ b.request \in [Ids -> Requests \cup {None}]
      BY DEF Managers
    <3> QED BY <3>1, <3>2, <2>1
  <2>3. /\ p \in Requests /\ p # None /\ p.state = b.request[last].state /\ p.pending = x
        /\ p.supported = b.request[last].supported
        /\ s \in Requests /\ s # None /\ s.state = "PENDING" /\ s.pending = b.request[x].pending
        /\ s.supported = b.request[x].supported
    <3>1. /\ p \in Requests /\ p.state = b.request[last].state /\ p.pending = x
          /\ p.supported = b.request[last].supported
          /\ s \in Requests /\ s.state = "PENDING" /\ s.pending = b.request[x].pending
          /\ s.supported = b.request[x].supported
      BY <1>1, <2>1 DEF Requests
    <3> QED BY <3>1, NoneAssumption
  <2> HIDE DEF p, s
  <2>4. /\ req \in [Ids -> Requests \cup {None}]
        /\ req[last] = p /\ req[x] = s
        /\ \A y \in Ids : y # last /\ y # x => req[y] = b.request[y]
    BY <2>1, <2>3 DEF Managers
  <2> HIDE DEF l, req
  <2>5. /\ d \in Managers /\ d.request = req /\ d.linked = l
        /\ d.line = b.line /\ d.left = b.left /\ d.tail = b.tail /\ d.queued = b.queued
        /\ d.preproc = b.preproc /\ d.conf = b.conf /\ d.registered = b.registered
        /\ d.direct = b.direct /\ d.work = b.work /\ d.history = b.history
    BY <1>3, <2>2, <2>4 DEF Managers
  <2>6. \A y \in Ids : y # last /\ y # x =>
           /\ InQueue(d, y) <=> InQueue(b, y)
           /\ Live(d, y) <=> Live(b, y)
           /\ \A st : InState(d, y, st) <=> InState(b, y, st)
           /\ d.request[y] = b.request[y]
    BY <2>4, <2>5 DEF InQueue, InState, Live
  <2>7. /\ InQueue(d, last) /\ Live(d, last) /\ \A st : InState(d, last, st) <=> InState(b, last, st)
        /\ d.request[last].pending = x /\ d.request[last].supported = b.request[last].supported
    <3>1. d.request[last] = p
      BY <2>4, <2>5
    <3>2. InQueue(d, last) /\ \A st : InState(d, last, st) <=> InState(b, last, st)
      BY <2>1, <2>3, <3>1 DEF InQueue, InState
    <3> QED BY <2>1, <2>3, <3>1, <3>2 DEF Live
  <2>8. /\ InQueue(d, x) /\ Live(d, x) /\ InState(d, x, "PENDING") /\ ~InState(d, x, "PROCESSING")
        /\ d.request[x].pending = b.request[x].pending
        /\ d.request[x].supported = b.request[x].supported
    BY <2>3, <2>4, <2>5 DEF InQueue, InState, Live
  <2>9. Live(b, x) /\ ~InState(b, x, "PROCESSING") /\ ~InState(b, x, "PENDING")
    BY <1>1 DEF Live, InState
  <2>10. \A y \in Ids :
              /\ InQueue(d, y) <=> InQueue(b, y)
              /\ InQueue(b, y) => d.request[y].supported = b.request[y].supported
              /\ Live(d, y) <=> Live(b, y)
              /\ InState(d, y, "PROCESSING") <=> InState(b, y, "PROCESSING")
    <3> SUFFICES ASSUME NEW y \in Ids
        PROVE /\ InQueue(d, y) <=> InQueue(b, y)
              /\ InQueue(b, y) => d.request[y].supported = b.request[y].supported
              /\ Live(d, y) <=> Live(b, y)
              /\ InState(d, y, "PROCESSING") <=> InState(b, y, "PROCESSING")
      OBVIOUS
    <3>1. CASE y # last /\ y # x
      BY <2>6, <3>1
    <3>2. CASE y = last
      BY <2>1, <2>7, <3>2 DEF Live
    <3>3. CASE y = x
      BY <1>1, <2>8, <2>9, <3>3
    <3> QED BY <3>1, <3>2, <3>3
  <2>11. \A y \in Ids : InQueue(b, y) =>
                   /\ d.request[y].pending = IF y = last THEN x ELSE b.request[y].pending
                   /\ InState(d, y, "PENDING") <=>
                        InState(b, y, "PENDING") \/ (y = x /\ last # None)
    BY <1>5, <2>6, <2>7, <2>8
  <2> QED BY <1>5, <2>5, <2>10, <2>11 DEF l
<1> QED BY <1>2, <1>4, <1>5

\* b is mm with a value x in the queue that is to be preprocessed and not linked yet.
Joins(mm, b, x) ==
  /\ b \in Managers /\ x \in Ids /\ ~InQueue(mm, x)
  /\ b.conf = mm.conf /\ b.linked = mm.linked
  /\ InState(b, x, "QUEUED") /\ b.request[x].pending = None
  /\ ~b.request[x].supported => x[1] \in Direct
  /\ \A y \in Ids \ {x} : b.request[y] = mm.request[y]
  /\ \A y \in Ids : Live(mm, y) /\ y[1] = x[1] /\ x[1] \in Direct => y[2] < x[2]

\* preprocessor_link_items keeps the chains whole when a value joins its item's.
LEMMA LinkItemsKeeps ==
  ASSUME NEW mm \in Managers, Sound(mm), Linked(mm), NEW b, NEW x, Joins(mm, b, x),
         NEW d, d = LinkItems(b, x)
  PROVE  /\ d \in Managers /\ Sound(d) /\ Linked(d)
         /\ d.line = b.line /\ d.left = b.left /\ d.tail = b.tail /\ d.queued = b.queued
         /\ d.preproc = b.preproc /\ d.conf = b.conf /\ d.registered = b.registered
         /\ d.direct = b.direct /\ d.work = b.work /\ d.history = b.history
         /\ \A y \in Ids :
              /\ InQueue(d, y) <=> InQueue(b, y)
              /\ InQueue(b, y) => d.request[y].supported = b.request[y].supported
              /\ Live(d, y) <=> Live(b, y)
              /\ InState(d, y, "PROCESSING") <=> InState(b, y, "PROCESSING")
<1> DEFINE last == b.linked[x[1]]
<1>0. last = b.linked[x[1]]
  OBVIOUS
<1> HIDE DEF last
<1>1. PICK rank \in [Ids -> Nat] : Chained(mm, rank)
  BY DEF Linked
<1>2. /\ b \in Managers /\ x \in Ids /\ ~InQueue(mm, x)
      /\ b.conf = mm.conf /\ b.linked = mm.linked
      /\ InState(b, x, "QUEUED") /\ b.request[x].pending = None
      /\ ~b.request[x].supported => x[1] \in Direct
      /\ \A y \in Ids : Live(mm, y) /\ y[1] = x[1] /\ x[1] \in Direct => y[2] < x[2]
      /\ \A y \in Ids : Live(mm, y) => y # x
      /\ x[1] \in Items
      /\ InQueue(b, x) /\ Live(b, x) /\ ~InState(b, x, "PROCESSING") /\ ~InState(b, x, "PENDING")
  BY IdsAre DEF Joins, Live, InState
<1>3. \A y \in Ids \ {x} :
        /\ InQueue(b, y) <=> InQueue(mm, y)
        /\ Live(b, y) <=> Live(mm, y)
        /\ \A s : InState(b, y, s) <=> InState(mm, y, s)
        /\ b.request[y] = mm.request[y]
  BY DEF Joins, InQueue, InState, Live
<1>4. last \in Ids \cup {None} /\ (last # None => Live(mm, last) /\ last # x
                                      /\ last[1] = x[1] /\ mm.request[last].pending = None)
  <2>1. last \in Ids \cup {None}
    BY <1>0, <1>2, FieldsAre
  <2>2. last # None => Live(mm, last) /\ last[1] = x[1] /\ mm.request[last].pending = None
    BY <1>0, <1>1, <1>2, NoneIsNoId DEF Chained
  <2> QED BY <1>2, <2>1, <2>2
<1>5. last # x /\ (last # None => Live(b, last))
  BY <1>2, <1>3, <1>4, NoneIsNoId
<1>6. /\ d \in Managers
      /\ d.line = b.line /\ d.left = b.left /\ d.tail = b.tail /\ d.queued = b.queued
      /\ d.preproc = b.preproc /\ d.conf = b.conf /\ d.registered = b.registered
      /\ d.direct = b.direct /\ d.work = b.work /\ d.history = b.history
      /\ \A y \in Ids :
           /\ InQueue(d, y) <=> InQueue(b, y)
           /\ InQueue(b, y) => d.request[y].supported = b.request[y].supported
           /\ Live(d, y) <=> Live(b, y)
           /\ InState(d, y, "PROCESSING") <=> InState(b, y, "PROCESSING")
      /\ b.conf[x[1]].kind # "history" => d = b
      /\ b.conf[x[1]].kind = "history" =>
           /\ d.linked = [b.linked EXCEPT ![x[1]] = x]
           /\ \A y \in Ids : InQueue(b, y) =>
                /\ d.request[y].pending = IF y = last THEN x ELSE b.request[y].pending
                /\ InState(d, y, "PENDING") <=>
                     InState(b, y, "PENDING") \/ (y = x /\ last # None)
  BY <1>0, <1>2, <1>5, LinkItemsIs
<1>7. b.conf[x[1]].kind = Kinds[x[1]]
  BY <1>2 DEF Sound
<1>8. Sound(d)
  <2> SUFFICES ASSUME NEW y \in Ids, InQueue(d, y)
               PROVE  /\ Live(d, y) /\ ~d.request[y].supported => y[1] \in Direct
                      /\ InState(d, y, "PROCESSING") => d.request[y].supported
                      /\ Kinds[y[1]] # "history" =>
                           d.request[y].pending = None /\ ~InState(d, y, "PENDING")
    BY <1>2, <1>6 DEF Sound
  <2>1. CASE y = x
    BY <1>2, <1>5, <1>6, <1>7, <2>1
  <2>2. CASE y # x
    <3>1. /\ Live(mm, y) /\ ~mm.request[y].supported => y[1] \in Direct
          /\ InState(mm, y, "PROCESSING") => mm.request[y].supported
          /\ Kinds[y[1]] # "history" =>
               mm.request[y].pending = None /\ ~InState(mm, y, "PENDING")
      BY <1>3, <1>6, <2>2 DEF Sound
    <3>2. InQueue(b, y) /\ (Live(d, y) <=> Live(mm, y))
          /\ d.request[y].supported = mm.request[y].supported
          /\ (InState(d, y, "PROCESSING") <=> InState(mm, y, "PROCESSING"))
      BY <1>3, <1>6, <2>2
    <3>3. Kinds[y[1]] # "history" => d.request[y].pending = None /\ ~InState(d, y, "PENDING")
      <4>1. CASE Kinds[x[1]] # "history"
        BY <1>3, <1>6, <1>7, <2>2, <3>1, <4>1
      <4>2. CASE Kinds[x[1]] = "history"
        <5>1. Kinds[y[1]] # "history" => y # last
          BY <1>4, <4>2, NoneIsNoId
        <5> QED BY <1>3, <1>6, <1>7, <2>2, <3>1, <3>2, <4>2, <5>1
      <4> QED BY <4>1, <4>2
    <3> QED BY <3>1, <3>2, <3>3
  <2> QED BY <2>1, <2>2
<1>9. Linked(d)
  <2>1. CASE Kinds[x[1]] # "history"
    <3>1. d = b
      BY <1>6, <1>7, <2>1
    <3>2. Chained(b, rank)
      <4>1. \A y \in Ids : Live(mm, y) /\ mm.request[y].pending # None => mm.request[y].pending \in Ids \ {x}
        <5> SUFFICES ASSUME NEW y \in Ids, Live(mm, y), mm.request[y].pending # None
                     PROVE  mm.request[y].pending \in Ids \ {x}
          OBVIOUS
        <5>1. mm.request[y].pending \in Ids
          BY RequestIs DEF Live, Requests
        <5>2. InState(mm, mm.request[y].pending, "PENDING")
          BY <1>1 DEF Chained
        <5> QED BY <1>2, <5>1, <5>2 DEF InState
      <4>2. \A y \in Ids : Live(b, y) /\ b.request[y].pending # None => y # x /\ Live(mm, y)
               /\ b.request[y].pending = mm.request[y].pending
        BY <1>2, <1>3
      <4>3. \A y \in Ids : InState(b, y, "PENDING") <=> InState(mm, y, "PENDING")
        BY <1>2, <1>3 DEF InState
      <4>4. \A y \in Ids : Live(b, y) /\ Kinds[y[1]] = "history" => y # x /\ Live(mm, y)
               /\ b.request[y].pending = mm.request[y].pending
        BY <1>2, <1>3, <2>1
      <4>5. \A y \in Ids : Live(mm, y) => y # x /\ Live(b, y) /\ b.request[y] = mm.request[y]
        BY <1>2, <1>3
      <4>6. \A i \in Items : mm.linked[i] # None => mm.linked[i] \in Ids
        BY FieldsAre
      <4>a. \A y \in Ids : Live(b, y) /\ b.request[y].pending # None =>
              LET s == b.request[y].pending
              IN  /\ InState(b, s, "PENDING") /\ s[1] = y[1] /\ rank[y] < rank[s]
                  /\ y[1] \in Direct => y[2] < s[2]
        BY <1>1, <4>1, <4>2, <4>3 DEF Chained
      <4>b. \A y, z \in Ids : Live(b, y) /\ Live(b, z) /\ b.request[y].pending # None
                            /\ b.request[y].pending = b.request[z].pending => y = z
        BY <1>1, <4>2 DEF Chained
      <4>c. \A s \in Ids : InState(b, s, "PENDING") =>
              \E y \in Ids : Live(b, y) /\ b.request[y].pending = s
        BY <1>1, <4>3, <4>5 DEF Chained
      <4>d. \A y \in Ids : Live(b, y) /\ Kinds[y[1]] = "history" /\ b.request[y].pending = None
              => b.linked[y[1]] = y
        BY <1>1, <1>2, <4>4 DEF Chained
      <4>e. \A y, z \in Ids : Live(b, y) /\ Live(b, z) /\ Kinds[y[1]] = "history" /\ y[1] = z[1]
               /\ ~InState(b, y, "PENDING") /\ ~InState(b, z, "PENDING") => y = z
        BY <1>1, <4>3, <4>4 DEF Chained
      <4>f. \A i \in Items : b.linked[i] # None =>
             /\ Kinds[i] = "history" /\ b.linked[i][1] = i /\ Live(b, b.linked[i])
             /\ b.request[b.linked[i]].pending = None
        BY <1>1, <1>2, <4>5, <4>6 DEF Chained
      <4>g. \A y \in Ids : Live(b, y) /\ Kinds[y[1]] = "history" => b.linked[y[1]] # None
        BY <1>1, <1>2, <4>4 DEF Chained
      <4> QED BY <4>a, <4>b, <4>c, <4>d, <4>e, <4>f, <4>g DEF Chained
    <3> QED BY <3>1, <3>2 DEF Linked
  <2>2. CASE Kinds[x[1]] = "history"
    <3> DEFINE rank2 == [rank EXCEPT ![x] = IF last = None THEN 0 ELSE rank[last] + 1]
    <3>1. /\ d.linked[x[1]] = x /\ \A i \in Items \ {x[1]} : d.linked[i] = mm.linked[i]
          /\ \A y \in Ids : InQueue(b, y) =>
                /\ d.request[y].pending = IF y = last THEN x ELSE b.request[y].pending
                /\ InState(d, y, "PENDING") <=>
                     InState(b, y, "PENDING") \/ (y = x /\ last # None)
      BY <1>2, <1>6, <1>7, <2>2, FieldsAre
    <3>2. /\ rank2 \in [Ids -> Nat] /\ (last # None => rank2[x] = rank[last] + 1)
          /\ \A y \in Ids \ {x} : rank2[y] = rank[y]
      BY <1>2, <1>4
    <3> HIDE DEF rank2
    <3>3. \A y \in Ids : InState(d, y, "PENDING") <=>
            InState(mm, y, "PENDING") \/ (y = x /\ last # None)
      <4>1. \A y \in Ids : InState(b, y, "PENDING") => InQueue(b, y)
        BY DEF InState
      <4>2. \A y \in Ids : InState(d, y, "PENDING") => InQueue(b, y)
        BY <1>6 DEF InState
      <4>3. ~InState(mm, x, "PENDING")
        BY <1>2 DEF InState
      <4> QED BY <1>2, <1>3, <3>1, <4>1, <4>2, <4>3
    <3>4. /\ Live(d, x) /\ d.request[x].pending = None
          /\ \A y \in Ids \ {x} : Live(d, y) <=> Live(mm, y)
          /\ \A y \in Ids \ {x} : Live(mm, y) =>
               d.request[y].pending = IF y = last THEN x ELSE mm.request[y].pending
      BY <1>2, <1>3, <1>5, <1>6, <3>1 DEF Live
    <3>5. \A y \in Ids : Live(mm, y) /\ mm.request[y].pending # None =>
             /\ y # x /\ y # last /\ mm.request[y].pending \in Ids \ {x}
             /\ InState(mm, mm.request[y].pending, "PENDING")
      <4> SUFFICES ASSUME NEW y \in Ids, Live(mm, y), mm.request[y].pending # None
                   PROVE  /\ y # x /\ y # last /\ mm.request[y].pending \in Ids \ {x}
                          /\ InState(mm, mm.request[y].pending, "PENDING")
        OBVIOUS
      <4>1. mm.request[y].pending \in Ids
        BY RequestIs DEF Live, Requests
      <4>2. InState(mm, mm.request[y].pending, "PENDING")
        BY <1>1 DEF Chained
      <4> QED BY <1>2, <1>4, <4>1, <4>2, NoneIsNoId DEF InState
    <3>6. last # None => last \in Ids \ {x} /\ last[1] = x[1] /\ Live(d, last) /\ Live(mm, last)
                         /\ d.request[last].pending = x
      BY <1>4, <3>4, NoneIsNoId
    <3>7. Chained(d, rank2)
      <4>a. ASSUME NEW y \in Ids, Live(d, y), d.request[y].pending # None,
                   NEW s, s = d.request[y].pending
            PROVE  /\ InState(d, s, "PENDING") /\ s[1] = y[1] /\ rank2[y] < rank2[s]
                   /\ y[1] \in Direct => y[2] < s[2]
        <5>1. CASE y = last
          <6>1. s = x /\ last # None /\ rank2[y] = rank[y] /\ rank2[s] = rank[y] + 1 /\ rank[y] \in Nat
            BY <3>2, <3>6, <4>a, <5>1, NoneIsNoId
          <6> QED BY <1>2, <3>3, <3>6, <5>1, <6>1
        <5>2. CASE y # last
          <6>1. y # x /\ Live(mm, y) /\ s = mm.request[y].pending /\ s # None
            BY <3>4, <4>a, <5>2
          <6>2. s \in Ids \ {x}
            BY <3>5, <6>1
          <6>3. /\ InState(mm, s, "PENDING") /\ s[1] = y[1] /\ rank[y] < rank[s]
                /\ y[1] \in Direct => y[2] < s[2]
            BY <1>1, <6>1 DEF Chained
          <6> QED BY <3>2, <3>3, <6>1, <6>2, <6>3
        <5> QED BY <5>1, <5>2
      <4>b. ASSUME NEW y \in Ids, NEW z \in Ids, Live(d, y), Live(d, z),
                   d.request[y].pending # None, d.request[y].pending = d.request[z].pending
            PROVE  y = z
        <5>1. y # x /\ z # x /\ Live(mm, y) /\ Live(mm, z)
          BY <3>4, <4>b
        <5>2. CASE y = last \/ z = last
          BY <1>4, <3>4, <3>5, <4>b, <5>1, <5>2
        <5>3. CASE y # last /\ z # last
          BY <1>1, <3>4, <4>b, <5>1, <5>3 DEF Chained
        <5> QED BY <5>2, <5>3
      <4>c. ASSUME NEW s \in Ids, InState(d, s, "PENDING")
            PROVE  \E y \in Ids : Live(d, y) /\ d.request[y].pending = s
        <5>1. CASE s = x
          BY <1>2, <3>3, <3>6, <4>c, <5>1 DEF InState
        <5>2. CASE s # x
          <6>1. PICK y \in Ids : Live(mm, y) /\ mm.request[y].pending = s
            BY <1>1, <3>3, <4>c, <5>2 DEF Chained
          <6> QED BY <3>4, <3>5, <6>1, NoneIsNoId
        <5> QED BY <5>1, <5>2
      <4>d. ASSUME NEW y \in Ids, Live(d, y), Kinds[y[1]] = "history", d.request[y].pending = None
            PROVE  d.linked[y[1]] = y
        <5>1. CASE y = x
          BY <3>1, <5>1
        <5>2. CASE y # x
          <6>1. y # last /\ Live(mm, y) /\ mm.request[y].pending = None
            BY <1>2, <3>4, <4>d, <5>2, NoneIsNoId
          <6>2. mm.linked[y[1]] = y
            BY <1>1, <4>d, <6>1 DEF Chained
          <6>3. y[1] # x[1]
            BY <1>0, <1>2, <6>1, <6>2
          <6> QED BY <3>1, <6>2, <6>3, IdsAre
        <5> QED BY <5>1, <5>2
      <4>e. ASSUME NEW y \in Ids, NEW z \in Ids, Live(d, y), Live(d, z), Kinds[y[1]] = "history",
                   y[1] = z[1], ~InState(d, y, "PENDING"), ~InState(d, z, "PENDING")
            PROVE  y = z
        <5>1. \A u \in Ids : Live(mm, u) /\ u[1] = x[1] => last # None
          BY <1>0, <1>1, <1>2, <2>2 DEF Chained
        <5>2. CASE y = x \/ z = x
          BY <3>3, <3>4, <4>e, <5>1, <5>2
        <5>3. CASE y # x /\ z # x
          BY <1>1, <3>3, <3>4, <4>e, <5>3 DEF Chained
        <5> QED BY <5>2, <5>3
      <4>f. ASSUME NEW i \in Items, d.linked[i] # None
            PROVE  /\ Kinds[i] = "history" /\ d.linked[i][1] = i /\ Live(d, d.linked[i])
                   /\ d.request[d.linked[i]].pending = None
        <5>1. CASE i = x[1]
          BY <2>2, <3>1, <3>4, <5>1
        <5>2. CASE i # x[1]
          <6>1. d.linked[i] = mm.linked[i] /\ mm.linked[i] \in Ids
            BY <3>1, <4>f, <5>2, FieldsAre
          <6>2. /\ Kinds[i] = "history" /\ mm.linked[i][1] = i /\ Live(mm, mm.linked[i])
                /\ mm.request[mm.linked[i]].pending = None
            BY <1>1, <4>f, <6>1 DEF Chained
          <6>3. mm.linked[i] # x /\ mm.linked[i] # last
            BY <1>2, <1>4, <5>2, <6>1, <6>2, NoneIsNoId
          <6> QED BY <3>4, <6>1, <6>2, <6>3
        <5> QED BY <5>1, <5>2
      <4>g. ASSUME NEW y \in Ids, Live(d, y), Kinds[y[1]] = "history"
            PROVE  d.linked[y[1]] # None
        <5>1. CASE y[1] = x[1]
          BY <1>2, <3>1, <5>1, NoneIsNoId
        <5>2. CASE y[1] # x[1]
          BY <1>1, <3>1, <3>4, <4>g, <5>2, IdsAre DEF Chained
        <5> QED BY <5>1, <5>2
      <4>1. \A y \in Ids : Live(d, y) /\ d.request[y].pending # None =>
              LET s == d.request[y].pending
              IN  /\ InState(d, s, "PENDING") /\ s[1] = y[1] /\ rank2[y] < rank2[s]
                  /\ y[1] \in Direct => y[2] < s[2]
        BY <4>a
      <4> QED BY <4>1, <4>b, <4>c, <4>d, <4>e, <4>f, <4>g DEF Chained
    <3> QED BY <3>2, <3>7 DEF Linked
  <2> QED BY <2>1, <2>2
<1> QED BY <1>6, <1>8, <1>9

\* There are finitely many values.
LEMMA IdsAreFinite == IsFiniteSet(Ids)
<1> DEFINE S == {{i} \X (1 .. MaxValues[i]) : i \in Items}
<1>1. IsFiniteSet(S)
  <2> DEFINE f == [i \in Items |-> {i} \X (1 .. MaxValues[i])]
  <2>1. f \in Surjection(Items, S)
    BY DEF Surjection
  <2> HIDE DEF f, S
  <2> QED BY <2>1, ManagerAssumption, FS_Surjection
<1>2. \A T \in S : IsFiniteSet(T)
  <2> SUFFICES ASSUME NEW i \in Items PROVE IsFiniteSet({i} \X (1 .. MaxValues[i]))
    OBVIOUS
  <2>1. IsFiniteSet({i}) /\ IsFiniteSet(1 .. MaxValues[i])
    <3>1. 1 \in Int /\ MaxValues[i] \in Int
      BY ManagerAssumption
    <3>2. IsFiniteSet(1 .. MaxValues[i])
      BY <3>1, FS_Interval
    <3> QED BY <3>2, FS_Singleton
  <2> QED BY <2>1, FS_Product
<1> HIDE DEF S
<1>3. IsFiniteSet(UNION S)
  BY <1>1, <1>2, FS_UNION
<1> QED BY <1>3 DEF S, Ids

\* The request of a value that is enqueued, and the place it gets.
LEMMA InsertIs ==
  ASSUME NEW mm \in Managers, NEW arr \in [Direct -> Nat], NEW v, NEW master,
         Line(mm), Ordered(mm), Came(mm, arr), Enters(mm, v, master, arr),
         NEW b, b = Count(Insert(mm, v, master), v)
  PROVE  /\ b \in Managers /\ Entered(mm, b, v.id, Place(mm, v, master))
         /\ b.linked = mm.linked /\ b.conf = mm.conf /\ b.work = mm.work /\ b.direct = mm.direct
         /\ b.registered = mm.registered /\ b.history = mm.history
         /\ b.preproc = IF ~NeedsNoSteps(mm, v) /\ v.supported THEN mm.preproc + 1 ELSE mm.preproc
         /\ b.request[v.id] = NewRequest(mm, v) /\ NewRequest(mm, v) # None
         /\ \A y \in Ids \ {v.id} : b.request[y] = mm.request[y]
         /\ Ordered(b) /\ Line(b)
<1> DEFINE x == v.id
           p == Place(mm, v, master)
           first == GoesFirst(v, master) \/ (master # None /\ master = mm.tail)
           r == NewRequest(mm, v)
           l == InsertAt(mm.line, p + 1, x)
           req == [mm.request EXCEPT ![x] = r]
           tl == IF first THEN x ELSE mm.tail
           n == IF ~NeedsNoSteps(mm, v) /\ v.supported THEN mm.preproc + 1 ELSE mm.preproc
<1>1. /\ x \in Ids /\ v.supported \in BOOLEAN /\ v.set \in BOOLEAN /\ ~InLine(mm, x)
      /\ x[1] \in Items
  BY IdsAre DEF Enters
<1>2. /\ p \in mm.left .. Len(mm.line)
      /\ \A k \in 1 .. Len(mm.line) : Together(mm.line[k], v.id) =>
              IF k <= p THEN mm.line[k][2] <= v.id[2] ELSE v.id[2] <= mm.line[k][2]
      /\ first /\ mm.tail # None => p >= 1 /\ mm.line[p] = mm.tail
      /\ v.id[1] \in Kept /\ Root[v.id[1]] \in Internal =>
              first \/ (mm.tail # None /\ \E t \in p + 1 .. Len(mm.line) : mm.line[t] = mm.tail)
  <2>1. p = Place(mm, v, master) /\ (first <=> GoesFirst(v, master) \/ (master # None /\ master = mm.tail))
    OBVIOUS
  <2> HIDE DEF p, first
  <2> QED BY <2>1, PlaceIs
<1>3. /\ mm.line \in Seq(Ids) /\ mm.left \in Nat /\ p \in 0 .. Len(mm.line)
      /\ mm.tail \in Ids \cup {None} /\ mm.queued \in Int /\ mm.preproc \in Int
  BY <1>2, FieldsAre DEF Managers
<1>4. r \in Requests /\ r # None
  <2>1. r \in Requests
    BY <1>1 DEF NewRequest, Requests, Managers
  <2> QED BY <2>1, NoneAssumption
<1>5. l \in Seq(Ids) /\ Inserted(mm.line, l, p, x)
  <2> HIDE DEF p
  <2> QED BY <1>1, <1>3, InsertAtIs
<1>6. b = [mm EXCEPT !.line = l, !.request = req, !.queued = @ + 1, !.tail = tl, !.preproc = n]
  <2>1. Insert(mm, v, master) = [mm EXCEPT !.line = l, !.request = req, !.queued = @ + 1, !.tail = tl]
    BY DEF Insert
  <2>2. NeedsNoSteps(Insert(mm, v, master), v) <=> NeedsNoSteps(mm, v)
    BY <2>1 DEF NeedsNoSteps, Managers
  <2>3. b = IF ~NeedsNoSteps(mm, v) /\ v.supported
            THEN [Insert(mm, v, master) EXCEPT !.preproc = @ + 1] ELSE Insert(mm, v, master)
    BY <2>2 DEF Count
  <2> HIDE DEF l, req, tl, p, first, r
  <2> QED BY <2>1, <2>3 DEF Managers
<1> HIDE DEF l, r, p, first
<1>7. /\ req \in [Ids -> Requests \cup {None}] /\ req[x] = r
      /\ \A y \in Ids \ {x} : req[y] = mm.request[y]
  BY <1>1, <1>4 DEF Managers
<1>8. tl \in Ids \cup {None} /\ tl \in {mm.tail, x} /\ n \in Int
  BY <1>1, <1>3
<1>9. first => tl = x
  OBVIOUS
<1>a. tl = x /\ mm.tail # x => first
  OBVIOUS
<1> HIDE DEF req, tl, n
<1>10. /\ b \in Managers /\ b.line = l /\ b.request = req /\ b.queued = mm.queued + 1
       /\ b.tail = tl /\ b.preproc = n /\ b.left = mm.left
       /\ b.linked = mm.linked /\ b.conf = mm.conf /\ b.work = mm.work /\ b.direct = mm.direct
       /\ b.registered = mm.registered /\ b.history = mm.history
  <2>1. /\ b.line = l /\ b.request = req /\ b.queued = mm.queued + 1
        /\ b.tail = tl /\ b.preproc = n /\ b.left = mm.left
        /\ b.linked = mm.linked /\ b.conf = mm.conf /\ b.work = mm.work /\ b.direct = mm.direct
        /\ b.registered = mm.registered /\ b.history = mm.history
    BY <1>6 DEF Managers
  <2>2. mm.queued + 1 \in Int
    BY <1>3
  <2>3. b \in Managers
    BY <1>5, <1>6, <1>7, <1>8, <2>2 DEF Managers
  <2> QED BY <2>1, <2>3
<1>11. Entered(mm, b, x, p)
  BY <1>2, <1>4, <1>5, <1>7, <1>8, <1>10 DEF Entered, InQueue
<1>12. mm.tail # x
  BY <1>1, NoneIsNoId DEF Line
<1>13. Ordered(b)
  <2>1. b.left = mm.left =>
            /\ b.tail = x /\ mm.tail # None => p >= 1 /\ mm.line[p] = mm.tail
            /\ x[1] \in Kept /\ Root[x[1]] \in Internal =>
                 \/ b.tail = x
                 \/ mm.tail # None /\ \E t \in p + 1 .. Len(mm.line) : mm.line[t] = mm.tail
    BY <1>2, <1>9, <1>a, <1>10, <1>12
  <2> HIDE DEF x
  <2> QED BY <1>1, <1>2, <1>11, <2>1, EnteredOrdered DEF x
<1>14. Line(b)
  BY <1>1, <1>11, EnteredLine
<1> QED BY <1>4, <1>7, <1>10, <1>11, <1>13, <1>14 DEF p, r, n

\* What putting a value into the queue leaves as it is, and what it adds.
Added(mm, d, v) ==
  /\ d.linked \in [Items -> Ids \cup {None}]
  /\ d.work = mm.work /\ d.direct = mm.direct /\ d.registered = mm.registered
  /\ d.conf = mm.conf /\ d.history = mm.history
  /\ \A y \in Ids \ {v.id} :
       /\ InQueue(d, y) <=> InQueue(mm, y)
       /\ Live(d, y) <=> Live(mm, y)
       /\ InQueue(mm, y) => d.request[y].supported = mm.request[y].supported
       /\ InState(d, y, "PROCESSING") <=> InState(mm, y, "PROCESSING")
  /\ IF NeedsNoSteps(mm, v)
     THEN ~Live(d, v.id) /\ d.preproc = mm.preproc
     ELSE /\ Live(d, v.id) /\ ~InState(d, v.id, "PROCESSING")
          /\ d.request[v.id].supported = v.supported
          /\ d.preproc = IF v.supported THEN mm.preproc + 1 ELSE mm.preproc

\* The ways to put a value into the queue.
LEMMA PutIs ==
  ASSUME NEW mm \in Managers, NEW arr \in [Direct -> Nat], NEW v, NEW master,
         Line(mm), Ordered(mm), Came(mm, arr), Sound(mm), Linked(mm), Enters(mm, v, master, arr),
         NEW d, d = Put(mm, v, master)
  PROVE  /\ d \in Managers /\ Entered(mm, d, v.id, Place(mm, v, master)) /\ Added(mm, d, v)
         /\ Line(d) /\ Ordered(d) /\ Sound(d) /\ Linked(d)
         /\ InQueue(d, v.id) <=> ~(QueueIsEmpty(mm) /\ NeedsNoSteps(mm, v))
         /\ QueueIsEmpty(mm) /\ NeedsNoSteps(mm, v) => QueueIsEmpty(d)
<1> DEFINE x == v.id
           p == Place(mm, v, master)
           b == Count(Insert(mm, v, master), v)
<1>1. /\ x \in Ids /\ ~InLine(mm, x) /\ ~InQueue(mm, x)
      /\ x[1] \in Direct => arr[x[1]] = x[2]
      /\ ~v.supported => x[1] \in Direct
      /\ v.supported \in BOOLEAN /\ v.set \in BOOLEAN /\ mm.linked \in [Items -> Ids \cup {None}]
      /\ mm.line \in Seq(Ids) /\ mm.left \in Nat
  BY FieldsAre DEF Enters, Line
<1>2. p = Place(mm, v, master) /\ p \in mm.left .. Len(mm.line)
      /\ (QueueIsEmpty(mm) => p = Len(mm.line))
  <2>1. GoesFirst(v, master) \/ (master # None /\ master = mm.tail)
          <=> GoesFirst(v, master) \/ (master # None /\ master = mm.tail)
    OBVIOUS
  <2> QED BY <2>1, PlaceIs
<1>3. CASE NeedsNoSteps(mm, v) /\ QueueIsEmpty(mm)
  <2>1. d = [mm EXCEPT !.line = Append(mm.line, x), !.left = mm.left + 1]
    BY <1>3 DEF Put
  <2>2. Append(mm.line, x) \in Seq(Ids) /\ Inserted(mm.line, Append(mm.line, x), Len(mm.line), x)
    BY <1>1, AppendIs
  <2>3. /\ d \in Managers /\ d.line = Append(mm.line, x) /\ d.left = mm.left + 1
        /\ d.request = mm.request /\ d.linked = mm.linked /\ d.tail = mm.tail
        /\ d.queued = mm.queued /\ d.preproc = mm.preproc
        /\ d.work = mm.work /\ d.direct = mm.direct /\ d.registered = mm.registered
        /\ d.conf = mm.conf /\ d.history = mm.history
    <3> DEFINE l == Append(mm.line, x)
               n == mm.left + 1
    <3>1. l \in Seq(Ids) /\ n \in Nat /\ d = [mm EXCEPT !.line = l, !.left = n]
      BY <1>1, <2>1, <2>2
    <3> HIDE DEF l, n
    <3>2. d \in Managers
      BY <3>1 DEF Managers
    <3>3. /\ d.line = l /\ d.left = n
          /\ d.request = mm.request /\ d.linked = mm.linked /\ d.tail = mm.tail
          /\ d.queued = mm.queued /\ d.preproc = mm.preproc
          /\ d.work = mm.work /\ d.direct = mm.direct /\ d.registered = mm.registered
          /\ d.conf = mm.conf /\ d.history = mm.history
      BY <3>1 DEF Managers
    <3> QED BY <3>2, <3>3 DEF l, n
  <2>4. \A y \in Ids : /\ InQueue(d, y) <=> InQueue(mm, y)
                       /\ Live(d, y) <=> Live(mm, y)
                       /\ \A s : InState(d, y, s) <=> InState(mm, y, s)
    BY <2>3 DEF InQueue, InState, Live
  <2>5. p = Len(mm.line) /\ mm.left = Len(mm.line)
    BY <1>2, <1>3 DEF QueueIsEmpty
  <2> HIDE DEF p, x
  <2>6. Entered(mm, d, x, p)
    BY <1>1, <1>2, <2>2, <2>3, <2>4, <2>5 DEF Entered
  <2>7. Line(d)
    BY <1>1, <2>6, EnteredLine
  <2>8. d.left = Len(d.line)
    BY <2>2, <2>3, <2>5 DEF Inserted
  <2>9. Ordered(d)
    <3>1. \A k \in 1 .. Len(mm.line) : Together(mm.line[k], x) =>
            IF k <= p THEN mm.line[k][2] <= x[2] ELSE x[2] <= mm.line[k][2]
      <4>1. GoesFirst(v, master) \/ (master # None /\ master = mm.tail)
              <=> GoesFirst(v, master) \/ (master # None /\ master = mm.tail)
        OBVIOUS
      <4> QED BY <1>2, <4>1, PlaceIs DEF x
    <3>2. d.left # mm.left
      BY <1>1, <2>3
    <3> QED BY <1>1, <2>6, <3>1, <3>2, EnteredOrdered
  <2>10. Sound(d)
    BY <2>3, <2>4 DEF Sound
  <2>11. Linked(d)
    BY <2>3, <2>4, SameChains
  <2>12. Added(mm, d, v)
    BY <1>1, <1>3, <2>3, <2>4 DEF Added, Live, x
  <2> QED BY <1>1, <1>3, <2>3, <2>4, <2>6, <2>7, <2>8, <2>9, <2>10, <2>11, <2>12 DEF x, p, QueueIsEmpty
<1>4. /\ b \in Managers /\ Entered(mm, b, x, p)
      /\ b.linked = mm.linked /\ b.conf = mm.conf /\ b.work = mm.work /\ b.direct = mm.direct
      /\ b.registered = mm.registered /\ b.history = mm.history
      /\ b.preproc = IF ~NeedsNoSteps(mm, v) /\ v.supported THEN mm.preproc + 1 ELSE mm.preproc
      /\ b.request[x] = NewRequest(mm, v) /\ NewRequest(mm, v) # None
      /\ \A y \in Ids \ {x} : b.request[y] = mm.request[y]
      /\ Ordered(b) /\ Line(b)
  BY InsertIs
<1>5. \A y \in Ids \ {x} : /\ InQueue(b, y) <=> InQueue(mm, y)
                           /\ Live(b, y) <=> Live(mm, y)
                           /\ \A s : InState(b, y, s) <=> InState(mm, y, s)
                           /\ b.request[y] = mm.request[y]
  BY <1>4 DEF InQueue, InState, Live
<1>6. /\ InQueue(b, x) /\ b.request[x].pending = None /\ b.request[x].supported = v.supported
      /\ InState(b, x, IF NeedsNoSteps(mm, v) THEN "DONE" ELSE "QUEUED")
  BY <1>4 DEF InQueue, InState, NewRequest
<1>7. CASE NeedsNoSteps(mm, v) /\ ~QueueIsEmpty(mm)
  <2>1. d = b
    BY <1>7 DEF Put
  <2> HIDE DEF b, x, p
  <2>2. ~Live(d, x) /\ ~InState(d, x, "PENDING") /\ ~InState(d, x, "PROCESSING")
    BY <1>6, <1>7, <2>1 DEF Live, InState
  <2>3. ~Live(mm, x) /\ ~InState(mm, x, "PENDING")
    BY <1>1 DEF Live, InState
  <2>4. Sound(d)
    <3>1. \A i \in Items : d.conf[i].kind = Kinds[i]
      BY <1>4, <2>1 DEF Sound
    <3> SUFFICES ASSUME NEW y \in Ids, InQueue(d, y)
                 PROVE  /\ Live(d, y) /\ ~d.request[y].supported => y[1] \in Direct
                        /\ InState(d, y, "PROCESSING") => d.request[y].supported
                        /\ Kinds[y[1]] # "history" =>
                             d.request[y].pending = None /\ ~InState(d, y, "PENDING")
      BY <3>1 DEF Sound
    <3>2. CASE y = x
      BY <1>6, <2>1, <2>2, <3>2
    <3>3. CASE y # x
      BY <1>5, <2>1, <3>3 DEF Sound
    <3> QED BY <3>2, <3>3
  <2>5. Linked(d)
    <3>1. \A y \in Ids : Live(mm, y) <=> Live(d, y)
      BY <1>5, <2>1, <2>2, <2>3
    <3>2. \A y \in Ids : InState(mm, y, "PENDING") <=> InState(d, y, "PENDING")
      BY <1>5, <2>1, <2>2, <2>3
    <3>3. \A y \in Ids : Live(mm, y) => mm.request[y].pending = d.request[y].pending
      BY <1>5, <2>1, <2>3
    <3>4. mm.linked = d.linked
      BY <1>4, <2>1
    <3> QED BY <1>4, <2>1, <3>1, <3>2, <3>3, <3>4, SameChains
  <2>6. Added(mm, d, v)
    BY <1>1, <1>4, <1>5, <1>7, <2>1, <2>2 DEF Added, x
  <2> QED BY <1>4, <1>6, <1>7, <2>1, <2>4, <2>5, <2>6 DEF x, p
<1>8. CASE ~NeedsNoSteps(mm, v)
  <2>1. d = LinkItems(b, x)
    BY <1>8 DEF Put
  <2> HIDE DEF b, x, p
  <2>2. Joins(mm, b, x)
    <3>1. ASSUME NEW y \in Ids, Live(mm, y), y[1] = x[1], x[1] \in Direct PROVE y[2] < x[2]
      <4>1. PICK k \in 1 .. Len(mm.line) : mm.line[k] = y
        BY <3>1 DEF Live, Line, InLine
      <4>2. y[2] <= arr[Root[y[1]]] /\ Root[y[1]] = x[1]
        BY <3>1, <4>1, KeptAre DEF Came
      <4>3. y # x
        BY <1>1, <3>1 DEF Live
      <4>4. y = <<y[1], y[2]>> /\ x = <<x[1], x[2]>> /\ y[2] \in Nat /\ x[2] \in Nat
        BY <1>1, IdsAre
      <4>5. y[2] # x[2]
        BY <3>1, <4>3, <4>4
      <4> QED BY <1>1, <3>1, <4>2, <4>4, <4>5
    <3> QED BY <1>1, <1>4, <1>6, <1>8, <3>1 DEF Joins
  <2>3. /\ d \in Managers /\ Sound(d) /\ Linked(d)
        /\ d.line = b.line /\ d.left = b.left /\ d.tail = b.tail /\ d.queued = b.queued
        /\ d.preproc = b.preproc /\ d.conf = b.conf /\ d.registered = b.registered
        /\ d.direct = b.direct /\ d.work = b.work /\ d.history = b.history
        /\ \A y \in Ids :
              /\ InQueue(d, y) <=> InQueue(b, y)
              /\ InQueue(b, y) => d.request[y].supported = b.request[y].supported
              /\ Live(d, y) <=> Live(b, y)
              /\ InState(d, y, "PROCESSING") <=> InState(b, y, "PROCESSING")
    BY <2>1, <2>2, LinkItemsKeeps
  <2>4. Entered(mm, d, x, p)
    BY <1>1, <1>4, <2>3 DEF Entered
  <2>5. Line(d)
    BY <1>1, <2>4, EnteredLine
  <2>6. Ordered(d)
    BY <1>4, <2>3 DEF Ordered
  <2>7. Live(d, x) /\ ~InState(d, x, "PROCESSING") /\ InQueue(d, x)
        /\ d.request[x].supported = v.supported
    BY <1>1, <1>6, <1>8, <2>3 DEF Live, InState
  <2>8. Added(mm, d, v)
    <3>1. \A y \in Ids \ {x} :
            /\ InQueue(d, y) <=> InQueue(mm, y)
            /\ Live(d, y) <=> Live(mm, y)
            /\ InQueue(mm, y) => d.request[y].supported = mm.request[y].supported
            /\ InState(d, y, "PROCESSING") <=> InState(mm, y, "PROCESSING")
      BY <1>5, <2>3
    <3>2. d.linked \in [Items -> Ids \cup {None}]
      BY <2>3, FieldsAre
    <3> QED BY <1>4, <1>8, <2>3, <2>7, <3>1, <3>2 DEF Added, x
  <2> QED BY <1>8, <2>3, <2>4, <2>5, <2>6, <2>7, <2>8 DEF x, p
<1> QED BY <1>3, <1>7, <1>8

\* The invariants of the manager while a message is handled: X are the workers whose answer
\* it is, and e of the counted values the handler has still to take off.
Good(mm, arr, X, e) ==
  /\ mm \in Managers /\ Line(mm) /\ Ordered(mm) /\ Came(mm, arr) /\ Sound(mm) /\ Linked(mm)
  /\ Counted(mm, e) /\ Worked(mm, X)

\* A busy worker keeps its task.
Carried(a, b) ==
  /\ a.registered = b.registered /\ a.conf = b.conf
  /\ \A w \in Workers : a.work[w].task # None => b.work[w] = a.work[w]

\* X are workers that are busy.
Busy(mm, X) == X \in SUBSET Workers /\ \A w \in X : mm.work[w].task # None

\* Carrying on twice is carrying on.
LEMMA CarriedFurther ==
  ASSUME NEW a, NEW b, NEW c, Carried(a, b), Carried(b, c)
  PROVE  Carried(a, c)
  BY DEF Carried

\* preprocessor_assign_tasks keeps the invariants, and leaves no worker idle beside a task.
LEMMA AssignTasksGood ==
  ASSUME NEW mm, NEW arr, NEW X, NEW e, Good(mm, arr, X, e), Busy(mm, X),
         NEW d, d = AssignTasks(mm)
  PROVE  /\ Good(d, arr, X, e) /\ Carried(mm, d) /\ Advanced(mm, d)
         /\ FreeWorkers(d) # {} => d.direct = <<>> /\ \A id \in Ids : ~InState(d, id, "QUEUED")
<1>1. mm \in Managers
  BY DEF Good
<1>2. /\ d \in Managers /\ Advanced(mm, d) /\ Sound(d) /\ Linked(d) /\ Worked(d, X)
      /\ Line(d) /\ Ordered(d)
      /\ \A w \in Workers : mm.work[w].task # None => d.work[w] = mm.work[w]
      /\ FreeWorkers(d) # {} => d.direct = <<>> /\ \A id \in Ids : ~InState(d, id, "QUEUED")
  BY <1>1, AssignTasksKeeps DEF Good, Busy
<1>3. Came(d, arr) /\ Counted(d, e)
  BY <1>1, <1>2, AdvancedKeeps DEF Good
<1>4. Carried(mm, d)
  BY <1>2 DEF Carried, Advanced
<1> QED BY <1>2, <1>3, <1>4 DEF Good

\* preprocessing_flush_queue keeps the invariants.
LEMMA FlushQueueGood ==
  ASSUME NEW mm, NEW arr, NEW X, NEW e, Good(mm, arr, X, e), NEW d, d = FlushQueue(mm)
  PROVE  /\ Good(d, arr, X, e) /\ Carried(mm, d) /\ d.direct = mm.direct /\ d.work = mm.work
         /\ \A id \in Ids : InState(d, id, "QUEUED") => InState(mm, id, "QUEUED")
         /\ d.left < Len(d.line) => ~IsDone(d, d.left + 1)
<1>1. mm \in Managers /\ Line(mm)
  BY DEF Good
<1>2. /\ d \in Managers /\ Line(d)
      /\ \A a : Came(mm, a) => Came(d, a)
      /\ Ordered(mm) => Ordered(d)
      /\ Sound(mm) => Sound(d)
      /\ Linked(mm) => Linked(d)
      /\ \A c : Counted(mm, c) => Counted(d, c)
      /\ \A W : Worked(mm, W) => Worked(d, W)
      /\ d.direct = mm.direct /\ d.registered = mm.registered /\ d.work = mm.work
      /\ d.conf = mm.conf
      /\ \A id \in Ids : InState(d, id, "QUEUED") => InState(mm, id, "QUEUED")
      /\ d.left < Len(d.line) => ~IsDone(d, d.left + 1)
  BY <1>1, FlushQueueKeeps
<1> QED BY <1>2 DEF Good, Carried

\* What Put does to the line and the queue.
Entering(mm, d, v) ==
  /\ Carried(mm, d) /\ d.work = mm.work
  /\ \A y : InLine(d, y) <=> InLine(mm, y) \/ y = v.id
  /\ \A y \in Ids \ {v.id} : /\ InQueue(d, y) <=> InQueue(mm, y)
                             /\ Live(d, y) <=> Live(mm, y)
  /\ NeedsNoSteps(mm, v) => ~Live(d, v.id)
  /\ InQueue(d, v.id) <=> ~(QueueIsEmpty(mm) /\ NeedsNoSteps(mm, v))
  /\ QueueIsEmpty(mm) /\ NeedsNoSteps(mm, v) => QueueIsEmpty(d)

\* preprocessor_enqueue without the dependents keeps the invariants.
LEMMA PutGood ==
  ASSUME NEW mm, NEW arr \in [Direct -> Nat], NEW X, NEW e \in Int, NEW v, NEW master,
         Good(mm, arr, X, e), Enters(mm, v, master, arr), NEW d, d = Put(mm, v, master)
  PROVE  Good(d, arr, X, e) /\ Entering(mm, d, v)
<1> DEFINE x == v.id
           p == Place(mm, v, master)
<1>1. /\ mm \in Managers /\ Line(mm) /\ Ordered(mm) /\ Came(mm, arr) /\ Sound(mm) /\ Linked(mm)
      /\ Counted(mm, e) /\ Worked(mm, X)
  BY DEF Good
<1>2. /\ d \in Managers /\ Entered(mm, d, x, p) /\ Added(mm, d, v)
      /\ Line(d) /\ Ordered(d) /\ Sound(d) /\ Linked(d)
      /\ InQueue(d, x) <=> ~(QueueIsEmpty(mm) /\ NeedsNoSteps(mm, v))
      /\ QueueIsEmpty(mm) /\ NeedsNoSteps(mm, v) => QueueIsEmpty(d)
  BY <1>1, PutIs
<1>3. /\ x \in Ids /\ ~InLine(mm, x) /\ ~InQueue(mm, x) /\ x[2] <= arr[Root[x[1]]]
      /\ v.supported \in BOOLEAN
  BY <1>1 DEF Enters, Line
<1>4. /\ d.work = mm.work /\ d.direct = mm.direct /\ d.registered = mm.registered
      /\ d.conf = mm.conf /\ d.history = mm.history
      /\ \A y \in Ids \ {x} :
           /\ InQueue(d, y) <=> InQueue(mm, y)
           /\ Live(d, y) <=> Live(mm, y)
           /\ InQueue(mm, y) => d.request[y].supported = mm.request[y].supported
           /\ InState(d, y, "PROCESSING") <=> InState(mm, y, "PROCESSING")
      /\ IF NeedsNoSteps(mm, v)
         THEN ~Live(d, x) /\ d.preproc = mm.preproc
         ELSE /\ Live(d, x) /\ ~InState(d, x, "PROCESSING")
              /\ d.request[x].supported = v.supported
              /\ d.preproc = IF v.supported THEN mm.preproc + 1 ELSE mm.preproc
  BY <1>2 DEF Added
<1> HIDE DEF x, p
<1>5. \A y : InLine(d, y) <=> InLine(mm, y) \/ y = x
  BY <1>1, <1>2, <1>3, EnteredLine
<1>6. Came(d, arr)
  <2>1. ASSUME NEW i \in Items, NEW k \in DOMAIN Deps[i], Deps[i][k] = x[1]
        PROVE  InLine(mm, <<i, x[2]>>) /\ ~Live(mm, <<i, x[2]>>)
    <3>1. x[1] \notin Direct
      BY <2>1, DepsAre
    <3>2. PICK j \in Items : \E l \in DOMAIN Deps[j] :
            Deps[j][l] = x[1] /\ InLine(mm, <<j, x[2]>>) /\ ~Live(mm, <<j, x[2]>>)
      BY <3>1 DEF Enters, x
    <3>3. i = j
      BY <2>1, <3>2, MasterAssumption
    <3> QED BY <3>2, <3>3
  <2>2. \A y \in Ids \ {x} : Live(d, y) => Live(mm, y)
    BY <1>4
  <2> QED BY <1>1, <1>2, <1>3, <2>1, <2>2, EnteredCame
<1>7. Counted(d, e)
  <2>1. x \notin Unanswered(mm)
    BY <1>3 DEF Unanswered
  <2>2. \A y \in Ids \ {x} : y \in Unanswered(d) <=> y \in Unanswered(mm)
    BY <1>4 DEF Unanswered, Live
  <2>3. x \in Unanswered(d) <=> ~NeedsNoSteps(mm, v) /\ v.supported
    <3>1. CASE NeedsNoSteps(mm, v)
      BY <1>4, <3>1 DEF Unanswered, Live
    <3>2. CASE ~NeedsNoSteps(mm, v)
      BY <1>3, <1>4, <3>2 DEF Unanswered, Live
    <3> QED BY <3>1, <3>2
  <2>4. IsFiniteSet(Unanswered(mm)) /\ Unanswered(mm) \subseteq Ids /\ Unanswered(d) \subseteq Ids
    BY IdsAreFinite, FS_Subset DEF Unanswered
  <2>5. CASE ~NeedsNoSteps(mm, v) /\ v.supported
    <3>1. Unanswered(d) = Unanswered(mm) \cup {x}
      BY <1>3, <2>2, <2>3, <2>4, <2>5
    <3>2. Cardinality(Unanswered(d)) = Cardinality(Unanswered(mm)) + 1
      BY <2>1, <2>4, <3>1, FS_AddElement
    <3>3. Cardinality(Unanswered(mm)) \in Nat
      BY <2>4, FS_CardinalityType
    <3>4. d.preproc = mm.preproc + 1
      BY <1>4, <2>5
    <3> QED BY <1>1, <3>2, <3>3, <3>4 DEF Counted
  <2>6. CASE NeedsNoSteps(mm, v) \/ ~v.supported
    <3>1. Unanswered(d) = Unanswered(mm)
      BY <2>1, <2>2, <2>3, <2>4, <2>6
    <3>2. d.preproc = mm.preproc
      BY <1>4, <2>6
    <3> QED BY <1>1, <3>1, <3>2 DEF Counted
  <2> QED BY <1>3, <2>5, <2>6
<1>8. Worked(d, X)
  <2>1. ASSUME NEW w \in Workers \ X, d.work[w].task \in Ids
        PROVE  LET id == d.work[w].task
               IN  /\ InState(d, id, "PROCESSING")
                   /\ \A u \in Workers \ X : d.work[u].task = id => u = w
                   /\ d.conf[id[1]] = [kind |-> "history", ver |-> 0]
                        => d.history[id[1]] = d.work[w].past
    <3>1. /\ InState(mm, mm.work[w].task, "PROCESSING")
          /\ \A u \in Workers \ X : mm.work[u].task = mm.work[w].task => u = w
          /\ mm.conf[mm.work[w].task[1]] = [kind |-> "history", ver |-> 0]
               => mm.history[mm.work[w].task[1]] = mm.work[w].past
      BY <1>1, <1>4, <2>1 DEF Worked
    <3>2. mm.work[w].task # x
      BY <1>3, <3>1 DEF InState
    <3> QED BY <1>4, <2>1, <3>1, <3>2
  <2> QED BY <2>1 DEF Worked
<1>9. Carried(mm, d)
  BY <1>4 DEF Carried
<1>10. NeedsNoSteps(mm, v) => ~Live(d, x)
  BY <1>4
<1>11. Good(d, arr, X, e)
  BY <1>2, <1>6, <1>7, <1>8 DEF Good
<1>12. Entering(mm, d, v)
  BY <1>2, <1>4, <1>5, <1>9, <1>10 DEF Entering, x
<1> QED BY <1>11, <1>12

\* A value whose dependents may be brought in: it is done, and none of them is in line.
Ready(mm, v, master, arr) ==
  /\ v \in [id : Ids, supported : BOOLEAN, set : BOOLEAN] /\ (v.set => v.supported)
  /\ InLine(mm, v.id) /\ ~Live(mm, v.id) /\ v.id[2] <= arr[Root[v.id[1]]]
  /\ \/ master = v.id /\ InQueue(mm, master)
     \/ master = None /\ v.id[1] \in Direct /\ Kinds[v.id[1]] = "none" /\ arr[v.id[1]] = v.id[2]
  /\ \A k \in 1 .. Len(Deps[v.id[1]]) : ~InLine(mm, <<Deps[v.id[1]][k], v.id[2]>>)

\* The dependents but the first n are brought in.
Brought(mm, v, master, arr, X, e, s, n) ==
  /\ Good(s, arr, X, e) /\ Carried(mm, s) /\ s.work = mm.work
  /\ InLine(s, v.id) /\ ~Live(s, v.id) /\ (master # None => InQueue(s, master))
  /\ \A k \in 1 .. n : ~InLine(s, <<Deps[v.id[1]][k], v.id[2]>>)

Dependent(v, k) == [v EXCEPT !.id = <<Deps[v.id[1]][k], v.id[2]>>]

\* One dependent more is put behind the master.
LEMMA DependentGood ==
  ASSUME NEW mm, NEW v, NEW master, NEW arr \in [Direct -> Nat], NEW X, NEW e \in Int, NEW s,
         Ready(mm, v, master, arr), v.set, NEW n \in 1 .. Len(Deps[v.id[1]]),
         Brought(mm, v, master, arr, X, e, s, n)
  PROVE  Brought(mm, v, master, arr, X, e, Put(s, Dependent(v, n), master), n - 1)
<1> DEFINE i == v.id[1]
           deps == Deps[i]
           y == <<deps[n], v.id[2]>>
           u == Dependent(v, n)
           d == Put(s, u, master)
<1>1. /\ v \in [id : Ids, supported : BOOLEAN, set : BOOLEAN] /\ v.supported
      /\ v.id[2] <= arr[Root[i]]
      /\ \/ master = v.id
         \/ master = None /\ i \in Direct /\ Kinds[i] = "none" /\ arr[i] = v.id[2]
  BY DEF Ready
<1>2. /\ Good(s, arr, X, e) /\ Carried(mm, s) /\ s.work = mm.work
      /\ InLine(s, v.id) /\ ~Live(s, v.id) /\ (master # None => InQueue(s, master))
      /\ \A k \in 1 .. n : ~InLine(s, <<Deps[i][k], v.id[2]>>)
  BY DEF Brought
<1>3. v.id \in Ids /\ i \in Items /\ v.id = <<i, v.id[2]>>
  BY <1>1, IdsAre
<1>4. deps \in Seq(Items \ Direct) /\ n \in DOMAIN deps
  <2>1. deps \in Seq(Items \ Direct) /\ n \in 1 .. Len(deps)
    BY <1>3, ManagerAssumption
  <2> HIDE DEF deps
  <2> QED BY <2>1
<1>5. /\ deps[n] \in Items /\ deps[n] \notin Direct /\ Root[deps[n]] = Root[i] /\ y \in Ids
  BY <1>3, <1>4, DepsAre
<1>6. u \in [id : Ids, supported : BOOLEAN, set : BOOLEAN] /\ u.id = y /\ u.supported
      /\ y[1] = deps[n] /\ y[2] = v.id[2]
  BY <1>1, <1>5 DEF Dependent
<1>7. n \in 1 .. n /\ n - 1 \in Nat
  BY <1>4
<1>8. Enters(s, u, master, arr)
  <2>1. \E j \in Items : \E k \in DOMAIN Deps[j] :
            /\ Deps[j][k] = y[1] /\ InLine(s, <<j, y[2]>>) /\ ~Live(s, <<j, y[2]>>)
            /\ \/ master = <<j, y[2]>> /\ InQueue(s, master)
               \/ master = None /\ j \in Direct /\ Kinds[j] = "none" /\ arr[j] = y[2]
    <3>1. /\ Deps[i][n] = y[1] /\ InLine(s, <<i, y[2]>>) /\ ~Live(s, <<i, y[2]>>)
          /\ \/ master = <<i, y[2]>> /\ InQueue(s, master)
             \/ master = None /\ i \in Direct /\ Kinds[i] = "none" /\ arr[i] = y[2]
      BY <1>1, <1>2, <1>3, <1>6, NoneIsNoId
    <3> QED BY <1>3, <1>4, <3>1
  <2> HIDE DEF u
  <2> QED BY <1>1, <1>2, <1>5, <1>6, <1>7, <2>1 DEF Enters
<1>a. d = Put(s, u, master)
  OBVIOUS
<1> HIDE DEF u, d
<1>9. /\ Good(d, arr, X, e) /\ Carried(s, d) /\ d.work = s.work
      /\ \A z : InLine(d, z) <=> InLine(s, z) \/ z = y
      /\ \A z \in Ids \ {y} : /\ InQueue(d, z) <=> InQueue(s, z)
                              /\ Live(d, z) <=> Live(s, z)
  <2>1. /\ Good(d, arr, X, e) /\ Carried(s, d) /\ d.work = s.work
        /\ \A z : InLine(d, z) <=> InLine(s, z) \/ z = u.id
        /\ \A z \in Ids \ {u.id} : /\ InQueue(d, z) <=> InQueue(s, z)
                                   /\ Live(d, z) <=> Live(s, z)
    <3>1. Good(d, arr, X, e) /\ Entering(s, d, u)
      BY <1>2, <1>8, <1>a, PutGood
    <3> QED BY <3>1 DEF Entering
  <2> QED BY <1>6, <2>1
<1>10. v.id # y
  BY <1>2, <1>7
<1>11. InLine(d, v.id) /\ ~Live(d, v.id) /\ (master # None => InQueue(d, master))
  BY <1>1, <1>2, <1>3, <1>9, <1>10
<1>12. ASSUME NEW k \in 1 .. n - 1 PROVE ~InLine(d, <<Deps[i][k], v.id[2]>>)
  <2>1. k \in DOMAIN deps /\ k # n /\ k \in 1 .. n
    BY <1>4
  <2>2. deps[k] # deps[n]
    BY <1>3, <1>4, <2>1, MasterAssumption
  <2> QED BY <1>2, <1>9, <2>1, <2>2
<1>13. Carried(mm, d) /\ d.work = mm.work
  BY <1>2, <1>9, CarriedFurther
<1> QED BY <1>9, <1>11, <1>12, <1>13 DEF Brought, d, u

\* preprocessor_enqueue_dependent keeps the invariants: the master is still in the queue
\* each time a dependent is put behind it.
LEMMA EnqueueDependentGood ==
  ASSUME NEW mm, NEW v, NEW master, NEW arr \in [Direct -> Nat], NEW X, NEW e \in Int,
         Good(mm, arr, X, e), Busy(mm, X), Ready(mm, v, master, arr),
         NEW d, d = EnqueueDependent(mm, v, master)
  PROVE  Good(d, arr, X, e) /\ Carried(mm, d)
<1> DEFINE deps == Deps[v.id[1]]
           b == Len(deps)
           B(n) == {s \in Managers : Brought(mm, v, master, arr, X, e, s, n)}
           S == [k \in 0 .. b |-> B(b - k)]
           Step == [k \in 1 .. b |-> [s \in S[k - 1] |->
                      Put(s, [v EXCEPT !.id = <<deps[b + 1 - k], v.id[2]>>], master)]]
           Def(f) == f = [k \in 0 .. Len(deps) |->
                            IF k = 0 THEN mm
                            ELSE Put(f[k - 1], [v EXCEPT !.id = <<deps[Len(deps) + 1 - k], v.id[2]>>],
                                     master)]
           put == CHOOSE f : Def(f)
<1>1. CASE ~(v.set /\ deps # <<>>)
  BY <1>1 DEF EnqueueDependent, Carried
<1>2. CASE v.set /\ deps # <<>>
  <2>1. /\ v.id \in Ids /\ v.id[1] \in Items /\ InLine(mm, v.id) /\ ~Live(mm, v.id)
        /\ (master # None => InQueue(mm, master))
        /\ \A k \in 1 .. b : ~InLine(mm, <<deps[k], v.id[2]>>)
    BY IdsAre DEF Ready
  <2>2. deps \in Seq(Items \ Direct) /\ b \in Nat
    BY <2>1, ManagerAssumption
  <2>3. mm \in S[0]
    <3>1. Carried(mm, mm)
      BY DEF Carried
    <3>2. Brought(mm, v, master, arr, X, e, mm, b)
      BY <2>1, <3>1 DEF Brought
    <3>3. b - 0 = b /\ 0 \in 0 .. b
      BY <2>2
    <3> QED BY <3>2, <3>3 DEF Good
  <2>4. \A k \in 1 .. b : \A s \in S[k - 1] :
          Put(s, [v EXCEPT !.id = <<deps[b + 1 - k], v.id[2]>>], master) \in S[k]
    <3> SUFFICES ASSUME NEW k \in 1 .. b, NEW s \in S[k - 1]
                 PROVE  Put(s, [v EXCEPT !.id = <<deps[b + 1 - k], v.id[2]>>], master) \in S[k]
      OBVIOUS
    <3>1. /\ k - 1 \in 0 .. b /\ k \in 0 .. b /\ b - (k - 1) = b + 1 - k /\ (b + 1 - k) - 1 = b - k
          /\ b + 1 - k \in 1 .. Len(Deps[v.id[1]])
      <4>1. b \in Nat /\ b = Len(Deps[v.id[1]]) /\ k \in 1 .. b
        BY <2>2
      <4> HIDE DEF b, deps
      <4> QED BY <4>1
    <3>2. Brought(mm, v, master, arr, X, e, s, b + 1 - k)
      BY <3>1
    <3> DEFINE n == b + 1 - k
               t == Put(s, Dependent(v, n), master)
    <3>3. t = Put(s, [v EXCEPT !.id = <<deps[b + 1 - k], v.id[2]>>], master)
      BY DEF Dependent
    <3> HIDE DEF n
    <3>4. Brought(mm, v, master, arr, X, e, Put(s, Dependent(v, n), master), n - 1)
      <4>1. n \in 1 .. Len(Deps[v.id[1]]) /\ Brought(mm, v, master, arr, X, e, s, n)
        BY <3>1, <3>2 DEF n
      <4> QED BY <1>2, <4>1, DependentGood
    <3>5. Brought(mm, v, master, arr, X, e, t, b - k)
      BY <3>1, <3>4 DEF n
    <3> HIDE DEF t
    <3>6. t \in S[k]
      BY <3>1, <3>5 DEF Brought, Good
    <3> QED BY <3>3, <3>6
  <2> HIDE DEF S, b, deps
  <2>5. \A k \in 1 .. b : \A s \in S[k - 1] : Step[k][s] \in S[k]
    BY <2>4
  <2>6. \E f : Def(f)
    <3>1. Stays(0, b, S, Step, mm)
      <4>1. 0 + 1 = 1
        OBVIOUS
      <4> HIDE DEF Step
      <4>2. \A k \in 0 + 1 .. b : \A s \in S[k - 1] : Step[k][s] \in S[k]
        BY <2>5, <4>1
      <4> QED BY <2>2, <2>3, <4>2 DEF Stays
    <3>2. PICK f : Runs(f, 0, b, S, Step, mm)
      <4> HIDE DEF Step
      <4> QED BY <3>1, Iteration
    <3>3. \A k \in 0 .. b :
            f[k] = IF k = 0 THEN mm
                   ELSE Put(f[k - 1], [v EXCEPT !.id = <<deps[Len(deps) + 1 - k], v.id[2]>>], master)
      <4> SUFFICES ASSUME NEW k \in 0 .. b, k # 0
                   PROVE  f[k] = Put(f[k - 1], [v EXCEPT !.id = <<deps[Len(deps) + 1 - k], v.id[2]>>],
                                     master)
        BY <3>2 DEF Runs
      <4>1. k \in 0 + 1 .. b /\ k \in 1 .. b /\ k - 1 \in 0 .. b
        BY <2>2
      <4>2. f[k] = Step[k][f[k - 1]] /\ f[k - 1] \in S[k - 1]
        BY <3>2, <4>1 DEF Runs
      <4> QED BY <4>1, <4>2 DEF b
    <3>4. f = [k \in 0 .. b |-> f[k]]
      BY <3>2 DEF Runs
    <3>5. Def(f)
      <4>1. [k \in 0 .. b |-> f[k]]
              = [k \in 0 .. Len(deps) |->
                   IF k = 0 THEN mm
                   ELSE Put(f[k - 1], [v EXCEPT !.id = <<deps[Len(deps) + 1 - k], v.id[2]>>], master)]
        BY <3>3 DEF b
      <4> QED BY <3>4, <4>1
    <3> HIDE DEF Def
    <3> QED BY <3>5
  <2>7. Def(put)
    <3> HIDE DEF Def
    <3> QED BY <2>6
  <2>8. d = FlushQueue(AssignTasks(put[b]))
    BY <1>2 DEF EnqueueDependent, b, deps
  <2>9. \A k \in 0 .. b :
          put[k] = IF k = 0 THEN mm
                   ELSE Put(put[k - 1], [v EXCEPT !.id = <<deps[b + 1 - k], v.id[2]>>], master)
    BY <2>7 DEF b
  <2> HIDE DEF put
  <2>10. put[b] \in S[b]
    <3> DEFINE T == {k \in 0 .. b : put[k] \in S[k]}
    <3>1. 0 \in T
      <4>1. 0 \in 0 .. b
        BY <2>2
      <4>2. put[0] = mm
        BY <2>9, <4>1
      <4> QED BY <2>3, <4>1, <4>2
    <3>2. \A k \in 0 .. b - 1 : k \in T => k + 1 \in T
      <4> SUFFICES ASSUME NEW k \in 0 .. b - 1, put[k] \in S[k]
                   PROVE  k + 1 \in 0 .. b /\ put[k + 1] \in S[k + 1]
        BY <2>2
      <4>1. k + 1 \in 1 .. b /\ k + 1 \in 0 .. b /\ k + 1 # 0 /\ (k + 1) - 1 = k
        BY <2>2
      <4>2. put[k + 1] = Put(put[k], [v EXCEPT !.id = <<deps[b + 1 - (k + 1)], v.id[2]>>], master)
        BY <2>9, <4>1
      <4>3. Put(put[k], [v EXCEPT !.id = <<deps[b + 1 - (k + 1)], v.id[2]>>], master) \in S[k + 1]
        BY <2>4, <4>1
      <4> QED BY <4>1, <4>2, <4>3
    <3> HIDE DEF T
    <3>3. \A k \in 0 .. b : k \in T
      BY <2>2, <3>1, <3>2, Upwards
    <3> QED BY <3>3, <2>2 DEF T
  <2> DEFINE q == put[b]
             a == AssignTasks(q)
  <2>11. Good(q, arr, X, e) /\ Carried(mm, q) /\ q.work = mm.work
    <3>1. b \in 0 .. b /\ b - b = 0
      BY <2>2
    <3> QED BY <2>10, <3>1 DEF S, Brought
  <2>12. Busy(q, X)
    BY <2>11 DEF Busy
  <2> HIDE DEF q
  <2>13. Good(a, arr, X, e) /\ Carried(q, a)
    BY <2>11, <2>12, AssignTasksGood
  <2>14. d = FlushQueue(a)
    BY <2>8 DEF q
  <2> HIDE DEF a
  <2>15. Good(d, arr, X, e) /\ Carried(a, d)
    BY <2>13, <2>14, FlushQueueGood
  <2> QED BY <2>11, <2>13, <2>15, CarriedFurther
<1> QED BY <1>1, <1>2

\* A value came for item i.
Counts(arr, i) == [arr EXCEPT ![i] = @ + 1]

\* The value that comes next is not in line.
LEMMA CountsIs ==
  ASSUME NEW arr \in [Direct -> Nat], NEW i \in Direct, NEW mm, Good(mm, arr, {}, 0)
  PROVE  /\ Counts(arr, i) \in [Direct -> Nat] /\ Counts(arr, i)[i] = arr[i] + 1
         /\ Good(mm, Counts(arr, i), {}, 0) /\ ~InLine(mm, <<i, arr[i] + 1>>)
<1>1. /\ Counts(arr, i) \in [Direct -> Nat] /\ Counts(arr, i)[i] = arr[i] + 1
      /\ \A j \in Direct : arr[j] <= Counts(arr, i)[j]
  BY DEF Counts
<1>2. mm \in Managers /\ Came(mm, arr)
  BY DEF Good
<1>3. \A k \in 1 .. Len(mm.line) : mm.line[k] \in Ids /\ mm.line[k][1] \in Items /\ mm.line[k][2] \in Nat
  BY <1>2, FieldsAre, IdsAre
<1>4. \A j \in Items : Root[j] \in Direct
  BY RootIs DEF IsRoot
<1>5. \A k \in 1 .. Len(mm.line) : mm.line[k][2] <= Counts(arr, i)[Root[mm.line[k][1]]]
  <2> SUFFICES ASSUME NEW k \in 1 .. Len(mm.line)
               PROVE  mm.line[k][2] <= Counts(arr, i)[Root[mm.line[k][1]]]
    OBVIOUS
  <2> DEFINE r == Root[mm.line[k][1]]
  <2>1. r \in Direct /\ mm.line[k][2] <= arr[r] /\ mm.line[k][2] \in Nat
    BY <1>2, <1>3, <1>4 DEF Came
  <2>2. arr[r] \in Nat /\ Counts(arr, i)[r] \in Nat /\ arr[r] <= Counts(arr, i)[r]
    BY <1>1, <2>1
  <2> HIDE DEF r
  <2>3. mm.line[k][2] <= Counts(arr, i)[r]
    BY <2>1, <2>2
  <2> QED BY <2>3 DEF r
<1>6. Came(mm, Counts(arr, i))
  BY <1>2, <1>5 DEF Came
<1>7. ~InLine(mm, <<i, arr[i] + 1>>)
  <2> SUFFICES ASSUME NEW k \in 1 .. Len(mm.line), mm.line[k] = <<i, arr[i] + 1>> PROVE FALSE
    BY DEF InLine
  <2>1. arr[i] + 1 <= arr[i]
    BY <1>2, KeptAre DEF Came
  <2> QED BY <2>1
<1> QED BY <1>1, <1>6, <1>7 DEF Good

\* preprocessor_enqueue keeps the invariants.
LEMMA EnqueueGood ==
  ASSUME NEW mm, NEW arr \in [Direct -> Nat], NEW v, Good(mm, arr, {}, 0),
         v \in [id : Ids, supported : BOOLEAN, set : BOOLEAN], v.set => v.supported,
         v.id[1] \in Direct, arr[v.id[1]] = v.id[2], ~InLine(mm, v.id),
         NEW d, d = Enqueue(mm, v)
  PROVE  Good(d, arr, {}, 0) /\ Carried(mm, d)
<1> DEFINE p == Put(mm, v, None)
           master == IF QueueIsEmpty(mm) THEN None ELSE v.id
<1>1. v.id \in Ids /\ v.id[1] \in Items /\ v.id[2] \in Nat /\ Root[v.id[1]] = v.id[1]
      /\ v.id = <<v.id[1], v.id[2]>>
  BY IdsAre, KeptAre
<1>2. Enters(mm, v, None, arr)
  BY <1>1 DEF Enters
<1>3. Good(p, arr, {}, 0) /\ Entering(mm, p, v)
  <2>1. p = Put(mm, v, None) /\ 0 \in Int
    OBVIOUS
  <2> HIDE DEF p
  <2> QED BY <1>2, <2>1, PutGood
<1>4. CASE ~NeedsNoSteps(mm, v)
  BY <1>3, <1>4 DEF Enqueue, Entering
<1>5. CASE NeedsNoSteps(mm, v) /\ ~v.set
  <2>1. d = p
    BY <1>5 DEF Enqueue, EnqueueDependent
  <2> QED BY <1>3, <2>1 DEF Entering
<1>6. CASE NeedsNoSteps(mm, v) /\ v.set
  <2>1. d = EnqueueDependent(p, v, master)
    BY <1>6 DEF Enqueue
  <2>2. Kinds[v.id[1]] = "none"
    BY <1>1, <1>6 DEF NeedsNoSteps, Good, Sound
  <2> HIDE DEF p
  <2>3. /\ Carried(mm, p)
        /\ \A y : InLine(p, y) <=> InLine(mm, y) \/ y = v.id
        /\ ~Live(p, v.id)
        /\ ~QueueIsEmpty(mm) => InQueue(p, v.id)
    BY <1>3, <1>6 DEF Entering
  <2>4. ASSUME NEW k \in 1 .. Len(Deps[v.id[1]])
        PROVE  ~InLine(p, <<Deps[v.id[1]][k], v.id[2]>>)
    <3>1. Deps[v.id[1]] \in Seq(Items \ Direct) /\ k \in DOMAIN Deps[v.id[1]]
      <4> DEFINE s == Deps[v.id[1]]
      <4>1. s \in Seq(Items \ Direct) /\ k \in 1 .. Len(s)
        BY <1>1, ManagerAssumption
      <4> HIDE DEF s
      <4>2. k \in DOMAIN s
        BY <4>1
      <4> QED BY <4>1, <4>2 DEF s
    <3>2. Deps[v.id[1]][k] \notin Direct
      BY <1>1, <3>1, DepsAre
    <3>3. ~InLine(mm, <<Deps[v.id[1]][k], v.id[2]>>)
      <4>1. Came(mm, arr)
        BY DEF Good
      <4> QED BY <1>1, <3>1, <4>1 DEF Came
    <3>4. v.id # <<Deps[v.id[1]][k], v.id[2]>>
      BY <1>1, <3>2
    <3> QED BY <2>3, <3>3, <3>4
  <2>5. Ready(p, v, master, arr)
    BY <1>1, <2>2, <2>3, <2>4 DEF Ready
  <2>6. Busy(p, {})
    BY DEF Busy
  <2> HIDE DEF master
  <2>7. 0 \in Int
    OBVIOUS
  <2>8. Good(d, arr, {}, 0) /\ Carried(p, d)
    BY <1>3, <2>1, <2>5, <2>6, <2>7, EnqueueDependentGood
  <2> QED BY <2>3, <2>8, CarriedFurther
<1> QED BY <1>4, <1>5, <1>6

\* The configuration is read again.
LEMMA SyncGood ==
  ASSUME NEW mm, NEW arr, Good(mm, arr, {}, 0), conf \in [Items -> Steps],
         \A i \in Items : conf[i].kind = Kinds[i] /\ mm.conf[i].ver <= conf[i].ver,
         NEW d, d = SyncConfiguration(mm)
  PROVE  /\ Good(d, arr, {}, 0) /\ d.conf = conf /\ d.work = mm.work
         /\ d.registered = mm.registered
<1> DEFINE h == [i \in Items |-> IF mm.conf[i] # conf[i] THEN None ELSE mm.history[i]]
<1>1. /\ mm \in Managers /\ Line(mm) /\ Ordered(mm) /\ Came(mm, arr) /\ Sound(mm) /\ Linked(mm)
      /\ Counted(mm, 0) /\ Worked(mm, {})
  BY DEF Good
<1>2. d = [mm EXCEPT !.conf = conf, !.history = h]
  BY DEF SyncConfiguration
<1>3. h \in [Items -> Histories]
  BY <1>1 DEF Managers, Histories
<1>4. \A i \in Items : mm.conf[i] = conf[i] => h[i] = mm.history[i]
  OBVIOUS
<1> HIDE DEF h
<1>5. d \in Managers
  BY <1>1, <1>2, <1>3 DEF Managers
<1>6. /\ d.line = mm.line /\ d.left = mm.left /\ d.request = mm.request /\ d.linked = mm.linked
      /\ d.tail = mm.tail /\ d.queued = mm.queued /\ d.conf = conf /\ d.history = h
      /\ d.work = mm.work /\ d.preproc = mm.preproc /\ d.registered = mm.registered
  BY <1>1, <1>2 DEF Managers
<1>7. /\ \A id : (InQueue(d, id) <=> InQueue(mm, id)) /\ (Live(d, id) <=> Live(mm, id))
      /\ \A id, s : InState(d, id, s) <=> InState(mm, id, s)
      /\ \A id : InLine(d, id) <=> InLine(mm, id)
  BY <1>6 DEF InQueue, InState, Live, InLine
<1>8. Line(d)
  BY <1>1, <1>6, <1>7 DEF Line
<1>9. Ordered(d)
  BY <1>1, <1>6 DEF Ordered
<1>10. Came(d, arr)
  BY <1>1, <1>6, <1>7 DEF Came
<1>11. Sound(d)
  BY <1>1, <1>6, <1>7 DEF Sound
<1>12. Linked(d)
  BY <1>1, <1>5, <1>6, <1>7, SameChains
<1>13. Counted(d, 0)
  <2>1. Unanswered(d) = Unanswered(mm)
    BY <1>6, <1>7 DEF Unanswered
  <2> QED BY <1>1, <1>6, <2>1 DEF Counted
<1>14. Worked(d, {})
  <2>1. ASSUME NEW w \in Workers, d.work[w].task \in Ids
        PROVE  LET id == d.work[w].task
               IN  /\ InState(d, id, "PROCESSING")
                   /\ \A u \in Workers : d.work[u].task = id => u = w
                   /\ d.conf[id[1]] = [kind |-> "history", ver |-> 0]
                        => d.history[id[1]] = d.work[w].past
    <3> DEFINE id == d.work[w].task
    <3>1. /\ InState(mm, id, "PROCESSING")
          /\ \A u \in Workers : mm.work[u].task = id => u = w
          /\ mm.conf[id[1]] = [kind |-> "history", ver |-> 0] => mm.history[id[1]] = mm.work[w].past
      BY <1>1, <1>6, <2>1 DEF Worked
    <3>2. ASSUME conf[id[1]] = [kind |-> "history", ver |-> 0]
          PROVE  d.history[id[1]] = d.work[w].past
      <4>1. id[1] \in Items
        BY <2>1, IdsAre
      <4>2. mm.conf[id[1]] \in Steps /\ mm.conf[id[1]].ver <= 0 /\ mm.conf[id[1]].kind = "history"
        BY <1>1, <3>2, <4>1 DEF Managers, Sound
      <4>3. mm.conf[id[1]] = [kind |-> "history", ver |-> 0]
        BY <4>2 DEF Steps
      <4> QED BY <1>4, <1>6, <3>1, <3>2, <4>1, <4>3
    <3> QED BY <1>6, <1>7, <3>1, <3>2
  <2> QED BY <2>1 DEF Worked
<1> QED BY <1>5, <1>6, <1>8, <1>9, <1>10, <1>11, <1>12, <1>13, <1>14 DEF Good

\* The result of a request that is done changes nothing but what it holds.
LEMMA VariantIs ==
  ASSUME NEW mm \in Managers, NEW id \in Ids, InState(mm, id, "DONE"), NEW outcome,
         Sound(mm), Linked(mm), NEW r, r = SetVariantResult(mm, id, outcome)
  PROVE  /\ r \in Managers /\ DoneFrame(mm, r) /\ r.linked = mm.linked
         /\ \A x \in Ids : (InQueue(r, x) <=> InQueue(mm, x)) /\ (Live(r, x) <=> Live(mm, x))
         /\ \A x \in Ids : \A s : InState(r, x, s) <=> InState(mm, x, s)
         /\ \A x \in Ids \ {id} : r.request[x] = mm.request[x]
         /\ Sound(r) /\ Linked(r)
<1> DEFINE old == mm.request[id]
           new == IF outcome = "error" THEN [old EXCEPT !.supported = FALSE]
                  ELSE [old EXCEPT !.set = (outcome # "discarded")]
           req == [mm.request EXCEPT ![id] = new]
<1>1. old \in Requests /\ old.state = "DONE"
  BY RequestIs DEF InState
<1>2. new \in Requests /\ new.state = old.state /\ new.pending = old.pending
  BY <1>1 DEF Requests
<1>3. r = [mm EXCEPT !.request = req]
  BY DEF SetVariantResult
<1> HIDE DEF new
<1>4. mm.request \in [Ids -> Requests \cup {None}]
  BY DEF Managers
<1>5. /\ req \in [Ids -> Requests \cup {None}] /\ req[id] = new
      /\ \A x \in Ids \ {id} : req[x] = mm.request[x]
  BY <1>2, <1>4
<1> HIDE DEF req
<1>6. r \in Managers
  BY <1>3, <1>5 DEF Managers
<1>7. /\ r.request = req /\ DoneFrame(mm, r) /\ r.linked = mm.linked
  BY <1>3 DEF Managers, DoneFrame
<1>8. \A x \in Ids : (InQueue(r, x) <=> InQueue(mm, x)) /\ \A s : InState(r, x, s) <=> InState(mm, x, s)
  <2>1. None \notin Requests
    BY NoneAssumption
  <2> QED BY <1>1, <1>2, <1>5, <1>7, <2>1 DEF InQueue, InState
<1>9. \A x \in Ids : Live(r, x) <=> Live(mm, x)
  BY <1>8 DEF Live
<1>10. \A x \in Ids : r.request[x].pending = mm.request[x].pending
  BY <1>2, <1>5, <1>7
<1>11. \A x \in Ids : Live(r, x) => x # id
  BY <1>9 DEF Live
<1>12. Sound(r)
  <2>1. r.conf = mm.conf
    BY <1>7 DEF DoneFrame
  <2>2. \A x \in Ids : x # id => r.request[x] = mm.request[x]
    BY <1>5, <1>7
  <2>3. ASSUME NEW x \in Ids, InQueue(r, x)
        PROVE  /\ Live(r, x) /\ ~r.request[x].supported => x[1] \in Direct
               /\ InState(r, x, "PROCESSING") => r.request[x].supported
               /\ Kinds[x[1]] # "history" => r.request[x].pending = None /\ ~InState(r, x, "PENDING")
    <3>1. InQueue(mm, x) /\ \A s : InState(r, x, s) <=> InState(mm, x, s)
      BY <1>8, <2>3
    <3>2. InState(r, x, "PROCESSING") => x # id
      BY <1>1, <3>1 DEF InState
    <3> QED BY <1>9, <1>10, <1>11, <2>2, <3>1, <3>2 DEF Sound
  <2> QED BY <2>1, <2>3 DEF Sound
<1>13. Linked(r)
  BY <1>6, <1>7, <1>8, <1>9, <1>10, SameChains
<1> QED BY <1>5, <1>6, <1>7, <1>8, <1>9, <1>12, <1>13

\* What the manager may be once a result for id is stored.
StoredFor(mm, id, r) ==
  \E outcome \in Outcomes : \E past \in HistoriesAfter(mm, id, outcome) :
    r = ResultStored(mm, id, outcome, past)

\* The result of a worker is stored: its value is done, and still counted.
LEMMA ResultStoredGood ==
  ASSUME NEW mm, NEW arr, Good(mm, arr, {}, 0), NEW w \in Workers, NEW id \in Ids,
         mm.work[w].task = id, NEW r, StoredFor(mm, id, r)
  PROVE  /\ Good(r, arr, {w}, 1) /\ Carried(mm, r) /\ r.work = mm.work
         /\ InQueue(r, id) /\ ~Live(r, id) /\ InLine(r, id) /\ Live(mm, id)
         /\ r.line = mm.line
<1>20. PICK outcome \in Outcomes :
         \E past \in HistoriesAfter(mm, id, outcome) : r = ResultStored(mm, id, outcome, past)
  BY DEF StoredFor
<1>0. PICK h \in HistoriesAfter(mm, id, outcome) : r = ResultStored(mm, id, outcome, h)
  BY <1>20
<1> DEFINE a == Remember(mm, id[1], h)
           b == SetRequestStateDone(a, id)
<1>1. /\ mm \in Managers /\ Line(mm) /\ Ordered(mm) /\ Came(mm, arr) /\ Sound(mm) /\ Linked(mm)
      /\ Counted(mm, 0) /\ Worked(mm, {})
  BY DEF Good
<1>2. /\ InState(mm, id, "PROCESSING")
      /\ \A x \in Workers : mm.work[x].task = id => x = w
  BY <1>1 DEF Worked
<1>3. InQueue(mm, id) /\ mm.request[id] \in Requests /\ mm.request[id].state = "PROCESSING"
      /\ Live(mm, id) /\ ~InState(mm, id, "PENDING") /\ mm.request[id].supported
  BY <1>1, <1>2, RequestIs DEF InState, Live, Sound
<1>4. h \in Histories /\ id[1] \in Items
  BY <1>3, IdsAre DEF HistoriesAfter, Histories, Requests, Steps
<1>5. r = SetVariantResult(b, id, outcome)
  BY <1>0 DEF ResultStored
<1>6. /\ a \in Managers
      /\ a.line = mm.line /\ a.left = mm.left /\ a.tail = mm.tail /\ a.queued = mm.queued
      /\ a.preproc = mm.preproc /\ a.conf = mm.conf /\ a.registered = mm.registered
      /\ a.direct = mm.direct /\ a.work = mm.work
      /\ a.request = mm.request /\ a.linked = mm.linked
      /\ a.history = [mm.history EXCEPT ![id[1]] = h]
      /\ \A x : (InQueue(a, x) <=> InQueue(mm, x)) /\ (Live(a, x) <=> Live(mm, x))
      /\ \A x, s : InState(a, x, s) <=> InState(mm, x, s)
      /\ Sound(a) /\ Linked(a)
  BY <1>1, <1>4, HistoryIs
<1> HIDE DEF a
<1>7. /\ b \in Managers /\ DoneFrame(a, b) /\ Sound(b) /\ Linked(b)
      /\ \A x \in Ids :
           /\ InQueue(b, x) <=> InQueue(a, x)
           /\ InQueue(a, x) => b.request[x].supported = a.request[x].supported
           /\ Live(b, x) <=> Live(a, x) /\ x # id
           /\ InState(b, x, "DONE") <=> InState(a, x, "DONE") \/ x = id
           /\ InState(b, x, "PROCESSING") <=> InState(a, x, "PROCESSING") /\ x # id
  BY <1>3, <1>6, DoneKeeps
<1> HIDE DEF b
<1>8. /\ r \in Managers /\ DoneFrame(b, r) /\ r.linked = b.linked
      /\ \A x \in Ids : (InQueue(r, x) <=> InQueue(b, x)) /\ (Live(r, x) <=> Live(b, x))
      /\ \A x \in Ids : \A s : InState(r, x, s) <=> InState(b, x, s)
      /\ \A x \in Ids \ {id} : r.request[x] = b.request[x]
      /\ Sound(r) /\ Linked(r)
  BY <1>5, <1>7, VariantIs
<1>9. /\ r.line = mm.line /\ r.left = mm.left /\ r.tail = mm.tail /\ r.queued = mm.queued
      /\ r.preproc = mm.preproc /\ r.conf = mm.conf /\ r.registered = mm.registered
      /\ r.direct = mm.direct /\ r.work = mm.work /\ r.history = [mm.history EXCEPT ![id[1]] = h]
  BY <1>6, <1>7, <1>8 DEF DoneFrame
<1>10. \A x \in Ids :
         /\ InQueue(r, x) <=> InQueue(mm, x)
         /\ Live(r, x) <=> Live(mm, x) /\ x # id
         /\ InState(r, x, "PROCESSING") <=> InState(mm, x, "PROCESSING") /\ x # id
         /\ x # id /\ InQueue(mm, x) => r.request[x].supported = mm.request[x].supported
  BY <1>6, <1>7, <1>8
<1>11. \A x : InLine(r, x) <=> InLine(mm, x)
  BY <1>9 DEF InLine
<1>12. mm.line \in Seq(Ids) /\ \A k \in 1 .. Len(mm.line) : mm.line[k] \in Ids
  BY <1>1, FieldsAre
<1>13. Line(r)
  <2>1. mm.tail \in Ids \cup {None}
    BY <1>1, FieldsAre
  <2> QED BY <1>1, <1>9, <1>10, <1>11, <1>12, <2>1 DEF Line
<1>14. Ordered(r)
  BY <1>1, <1>9 DEF Ordered
<1>15. Came(r, arr)
  <2>1. \A x : InLine(mm, x) => x \in Ids
    BY <1>12 DEF InLine
  <2> QED BY <1>1, <1>9, <1>10, <1>11, <2>1 DEF Came
<1>16. Counted(r, 1)
  <2>1. id \in Unanswered(mm)
    BY <1>3 DEF Unanswered, Live
  <2>2. Unanswered(r) = Unanswered(mm) \ {id}
    BY <1>10 DEF Unanswered, Live
  <2>3. IsFiniteSet(Unanswered(mm))
    BY IdsAreFinite, FS_Subset DEF Unanswered
  <2> DEFINE U == Unanswered(mm)
  <2>4. Cardinality(Unanswered(r)) = Cardinality(Unanswered(mm)) - 1
    <3> HIDE DEF U
    <3>1. Cardinality(U \ {id}) = Cardinality(U) - 1
      <4>1. id \in U /\ IsFiniteSet(U)
        BY <2>1, <2>3 DEF U
      <4> QED BY <4>1, FS_RemoveElement
    <3> QED BY <2>2, <3>1 DEF U
  <2>5. Cardinality(Unanswered(mm)) \in Nat
    BY <2>3, FS_CardinalityType
  <2> QED BY <1>1, <1>9, <2>4, <2>5 DEF Counted
<1>17. Worked(r, {w})
  <2>1. ASSUME NEW u \in Workers \ {w}, r.work[u].task \in Ids
        PROVE  LET t == r.work[u].task
               IN  /\ InState(r, t, "PROCESSING")
                   /\ \A x \in Workers \ {w} : r.work[x].task = t => x = u
                   /\ r.conf[t[1]] = [kind |-> "history", ver |-> 0]
                        => r.history[t[1]] = r.work[u].past
    <3> DEFINE t == r.work[u].task
    <3>1. /\ InState(mm, t, "PROCESSING") /\ t \in Ids
          /\ \A x \in Workers : mm.work[x].task = t => x = u
          /\ mm.conf[t[1]] = [kind |-> "history", ver |-> 0] => mm.history[t[1]] = mm.work[u].past
      BY <1>1, <1>9, <2>1 DEF Worked
    <3>2. t # id
      BY <1>2, <1>9, <2>1
    <3>3. InState(r, t, "PROCESSING")
      BY <1>10, <3>1, <3>2
    <3>4. ASSUME mm.conf[t[1]] = [kind |-> "history", ver |-> 0] PROVE t[1] # id[1]
      <4>1. PICK rank \in [Ids -> Nat] : Chained(mm, rank)
        BY <1>1 DEF Linked
      <4>2. t[1] \in Items /\ Kinds[t[1]] = "history"
        BY <1>1, <3>1, <3>4, IdsAre DEF Sound
      <4>3. Live(mm, t) /\ ~InState(mm, t, "PENDING")
        BY <3>1 DEF Live, InState
      <4> HIDE DEF t
      <4>4. t[1] = id[1] => t = id
        BY <1>3, <3>1, <4>1, <4>2, <4>3 DEF Chained
      <4> QED BY <3>2, <4>4
    <3>5. ASSUME r.conf[t[1]] = [kind |-> "history", ver |-> 0] PROVE r.history[t[1]] = r.work[u].past
      <4>1. mm.conf[t[1]] = [kind |-> "history", ver |-> 0]
        BY <1>9, <3>5
      <4>2. t[1] # id[1] /\ t[1] \in Items /\ mm.history[t[1]] = mm.work[u].past
        BY <3>1, <3>4, <4>1, IdsAre
      <4> QED BY <1>1, <1>9, <4>2 DEF Managers
    <3> QED BY <1>9, <3>1, <3>3, <3>5
  <2> QED BY <2>1 DEF Worked
<1>18. Carried(mm, r)
  BY <1>9 DEF Carried
<1>19. InLine(r, id)
  BY <1>1, <1>3, <1>11 DEF Line
<1> QED BY <1>3, <1>8, <1>9, <1>10, <1>13, <1>14, <1>15, <1>16, <1>17, <1>18, <1>19 DEF Good

\* A result that is stored brings in the dependents.
LEMMA ResultTakenGood ==
  ASSUME NEW mm, NEW arr \in [Direct -> Nat], Good(mm, arr, {}, 0), NEW w \in Workers, NEW id \in Ids,
         mm.work[w].task = id, NEW outcome \in Outcomes, NEW past \in HistoriesAfter(mm, id, outcome),
         NEW d, d = ResultTaken(ResultStored(mm, id, outcome, past), id, outcome)
  PROVE  Good(d, arr, {w}, 1) /\ Carried(mm, d)
<1>0. PICK r : r = ResultStored(mm, id, outcome, past)
  OBVIOUS
<1> DEFINE v == [id |-> id, supported |-> TRUE, set |-> TRUE]
<1>1. /\ Good(r, arr, {w}, 1) /\ Carried(mm, r) /\ r.work = mm.work
      /\ InQueue(r, id) /\ ~Live(r, id) /\ InLine(r, id) /\ Live(mm, id)
      /\ r.line = mm.line
  <2>1. StoredFor(mm, id, r)
    BY <1>0 DEF StoredFor
  <2> QED BY <2>1, ResultStoredGood
<1>2. d = ResultTaken(r, id, outcome)
  BY <1>0
<1>3. CASE outcome \notin {"value", "replaced"}
  BY <1>1, <1>2, <1>3 DEF ResultTaken
<1>4. CASE outcome \in {"value", "replaced"}
  <2>1. d = EnqueueDependent(r, v, id)
    BY <1>2, <1>4 DEF ResultTaken
  <2>2. v \in [id : Ids, supported : BOOLEAN, set : BOOLEAN] /\ v.id = id /\ v.supported
    OBVIOUS
  <2>3. id[1] \in Items /\ id[2] \in Nat /\ id = <<id[1], id[2]>>
    BY IdsAre
  <2>4. id[2] <= arr[Root[id[1]]]
    BY <1>1 DEF Good, Came, InLine
  <2>5. ASSUME NEW k \in 1 .. Len(Deps[id[1]])
        PROVE  ~InLine(r, <<Deps[id[1]][k], id[2]>>)
    <3>1. k \in DOMAIN Deps[id[1]]
      <4> DEFINE s == Deps[id[1]]
      <4>1. s \in Seq(Items \ Direct) /\ k \in 1 .. Len(s)
        BY <2>3, ManagerAssumption
      <4> HIDE DEF s
      <4>2. k \in DOMAIN s
        BY <4>1
      <4> QED BY <4>2 DEF s
    <3>2. Came(mm, arr)
      BY DEF Good
    <3>3. ~InLine(mm, <<Deps[id[1]][k], id[2]>>)
      BY <1>1, <2>3, <3>1, <3>2 DEF Came
    <3> QED BY <1>1, <3>3 DEF InLine
  <2> HIDE DEF v
  <2>6. Ready(r, v, id, arr)
    BY <1>1, <2>2, <2>4, <2>5 DEF Ready
  <2>7. Busy(r, {w})
    <3>1. r.work[w].task # None
      BY <1>1, NoneIsNoId
    <3> QED BY <3>1 DEF Busy
  <2>8. 1 \in Int
    OBVIOUS
  <2>9. Good(d, arr, {w}, 1) /\ Carried(r, d)
    BY <1>1, <2>1, <2>6, <2>7, <2>8, EnqueueDependentGood
  <2> QED BY <1>1, <2>9, CarriedFurther
<1> QED BY <1>3, <1>4

\* Workers may be told from the rest: those that hold a value in b held it in a.
LEMMA SameQueueGood ==
  ASSUME NEW a, NEW b \in Managers, NEW arr, NEW X, NEW Y, NEW e \in Int, NEW f \in Int,
         Good(a, arr, X, e), SameQueue(a, b), a.history = b.history,
         b.preproc = a.preproc + (f - e),
         \A w \in Workers \ Y : b.work[w].task \in Ids => w \notin X /\ b.work[w] = a.work[w]
  PROVE  Good(b, arr, Y, f)
<1>1. /\ a \in Managers /\ Line(a) /\ Ordered(a) /\ Came(a, arr) /\ Sound(a) /\ Linked(a)
      /\ Counted(a, e) /\ Worked(a, X)
  BY DEF Good
<1>2. /\ \A id, s : InState(a, id, s) <=> InState(b, id, s)
      /\ Line(b) /\ Ordered(b) /\ Came(b, arr) /\ Sound(b) /\ Linked(b)
      /\ Unanswered(a) = Unanswered(b)
  BY <1>1, SameQueueKeeps
<1>3. Counted(b, f)
  <2>1. IsFiniteSet(Unanswered(a))
    BY IdsAreFinite, FS_Subset DEF Unanswered
  <2>2. Cardinality(Unanswered(a)) \in Nat
    BY <2>1, FS_CardinalityType
  <2> QED BY <1>1, <1>2, <2>2 DEF Counted
<1>4. Worked(b, Y)
  <2>1. ASSUME NEW w \in Workers \ Y, b.work[w].task \in Ids
        PROVE  LET id == b.work[w].task
               IN  /\ InState(b, id, "PROCESSING")
                   /\ \A u \in Workers \ Y : b.work[u].task = id => u = w
                   /\ b.conf[id[1]] = [kind |-> "history", ver |-> 0]
                        => b.history[id[1]] = b.work[w].past
    <3> DEFINE id == b.work[w].task
    <3>1. w \in Workers \ X /\ b.work[w] = a.work[w]
      BY <2>1
    <3>2. /\ InState(a, id, "PROCESSING")
          /\ \A u \in Workers \ X : a.work[u].task = id => u = w
          /\ a.conf[id[1]] = [kind |-> "history", ver |-> 0] => a.history[id[1]] = a.work[w].past
      BY <1>1, <2>1, <3>1 DEF Worked
    <3>3. \A u \in Workers \ Y : b.work[u].task = id => u = w
      BY <2>1, <3>2
    <3> QED BY <1>2, <3>1, <3>2, <3>3 DEF SameQueue
  <2> QED BY <2>1 DEF Worked
<1> QED BY <1>2, <1>3, <1>4 DEF Good

\* No worker is idle beside a value or a test.
Settled(mm) ==
  FreeWorkers(mm) # {} => mm.direct = <<>> /\ \A id \in Ids : ~InState(mm, id, "QUEUED")

\* Most messages end with tasks assigned and the queue flushed.
LEMMA AssignAndFlush ==
  ASSUME NEW mm, NEW arr, Good(mm, arr, {}, 0), NEW d, d = FlushQueue(AssignTasks(mm))
  PROVE  /\ Good(d, arr, {}, 0) /\ Carried(mm, d) /\ Settled(d)
         /\ ~QueueIsEmpty(d) => ~IsDone(d, d.left + 1)
<1> DEFINE a == AssignTasks(mm)
<1>1. Busy(mm, {})
  BY DEF Busy
<1>2. /\ Good(a, arr, {}, 0) /\ Carried(mm, a) /\ Settled(a)
  BY <1>1, AssignTasksGood DEF Settled
<1>3. d = FlushQueue(a)
  OBVIOUS
<1> HIDE DEF a
<1>4. /\ Good(d, arr, {}, 0) /\ Carried(a, d) /\ d.direct = a.direct /\ d.work = a.work
      /\ \A id \in Ids : InState(d, id, "QUEUED") => InState(a, id, "QUEUED")
      /\ d.left < Len(d.line) => ~IsDone(d, d.left + 1)
  BY <1>2, <1>3, FlushQueueGood
<1>5. Carried(mm, d)
  BY <1>2, <1>4, CarriedFurther
<1>6. Settled(d)
  <2>1. FreeWorkers(d) = FreeWorkers(a)
    BY <1>4 DEF FreeWorkers, Carried
  <2> QED BY <1>2, <1>4, <2>1 DEF Settled
<1>7. ~QueueIsEmpty(d) => d.left < Len(d.line)
  <2>1. d \in Managers /\ Line(d)
    BY <1>4 DEF Good
  <2>2. d.left \in Nat /\ Len(d.line) \in Nat
    BY <2>1, FieldsAre
  <2> QED BY <2>1, <2>2 DEF Line, QueueIsEmpty
<1> QED BY <1>4, <1>5, <1>6, <1>7

\* What the manager read of the configuration is what is configured, or was once.
Current ==
  \A i \in Items : conf[i].kind = Kinds[i] /\ m.conf[i].ver <= conf[i].ver

\* The inductive invariant.
IInv == TypeOK /\ Good(m, arrived, {}, 0) /\ Current /\ NoIdleWorker /\ DoneHeadLeaves

\* The invariant holds when the manager starts.
LEMMA InitHolds == Init => IInv
<1> SUFFICES ASSUME Init PROVE IInv
  OBVIOUS
<1> DEFINE req == [id \in Ids |-> None]
           wrk == [w \in Workers |-> NoTask]
           his == [i \in Items |-> None]
           lnk == [i \in Items |-> None]
<1>1. /\ conf = [i \in Items |-> [kind |-> Kinds[i], ver |-> 0]]
      /\ m = [line |-> <<>>, left |-> 0, request |-> req, direct |-> <<>>, registered |-> {},
              work |-> wrk, conf |-> conf, history |-> his, linked |-> lnk, tail |-> None,
              queued |-> 0, preproc |-> 0]
      /\ arrived = [i \in Direct |-> 0]
      /\ tests = [t \in Tests |-> "new"]
  BY DEF Init
<1>2. /\ req \in [Ids -> Requests \cup {None}] /\ \A id \in Ids : req[id] = None
      /\ wrk \in [Workers -> [task : Ids \cup Tests \cup {None}, past : Histories]]
      /\ \A w \in Workers : wrk[w].task = None
      /\ his \in [Items -> Histories]
      /\ lnk \in [Items -> Ids \cup {None}] /\ \A i \in Items : lnk[i] = None
  BY DEF NoTask, Histories
<1>3. conf \in [Items -> Steps]
  BY <1>1, ManagerAssumption DEF Steps
<1> HIDE DEF req, wrk, his, lnk
<1>4. m \in Managers
  BY <1>1, <1>2, <1>3 DEF Managers
<1>5. TypeOK
  BY <1>1, <1>3, <1>4 DEF TypeOK
<1>6. /\ m.line = <<>> /\ m.left = 0 /\ Len(m.line) = 0 /\ m.tail = None /\ m.queued = 0
      /\ m.preproc = 0 /\ m.conf = conf
      /\ m.direct = <<>>
      /\ \A id \in Ids : m.request[id] = None
      /\ \A w \in Workers : m.work[w].task = None
      /\ \A i \in Items : m.linked[i] = None
  BY <1>1, <1>2
<1>7. /\ \A id \in Ids : ~InQueue(m, id) /\ ~Live(m, id) /\ \A s : ~InState(m, id, s)
      /\ \A id : ~InLine(m, id)
  BY <1>6 DEF InQueue, InState, Live, InLine
<1>8. Line(m)
  BY <1>6, <1>7 DEF Line
<1>9. Ordered(m)
  BY <1>6 DEF Ordered
<1>10. Came(m, arrived)
  BY <1>6, <1>7 DEF Came
<1>11. Sound(m)
  BY <1>1, <1>6, <1>7 DEF Sound
<1>12. Linked(m)
  <2> DEFINE rank == [x \in Ids |-> 0]
  <2>1. rank \in [Ids -> Nat]
    OBVIOUS
  <2> HIDE DEF rank
  <2>2. Chained(m, rank)
    BY <1>6, <1>7 DEF Chained
  <2> QED BY <2>1, <2>2 DEF Linked
<1>13. Counted(m, 0)
  <2>1. Unanswered(m) = {}
    BY <1>7 DEF Unanswered
  <2> QED BY <1>6, <2>1, FS_EmptySet DEF Counted
<1>14. Worked(m, {})
  BY <1>6, NoneIsNoId DEF Worked
<1>15. Current
  BY <1>1, <1>3, <1>6 DEF Current, Steps
<1>16. NoIdleWorker
  BY <1>6, <1>7 DEF NoIdleWorker
<1>17. DoneHeadLeaves
  BY <1>6 DEF DoneHeadLeaves, QueueIsEmpty
<1> QED BY <1>4, <1>5, <1>8, <1>9, <1>10, <1>11, <1>12, <1>13, <1>14, <1>15, <1>16, <1>17
    DEF IInv, Good

\* A message that ends with tasks assigned and the queue flushed leaves the invariant.
LEMMA Handled ==
  ASSUME IInv, NEW mm, Good(mm, arrived', {}, 0), m' = FlushQueue(AssignTasks(mm)),
         mm.conf \in {m.conf, conf}, conf' = conf,
         arrived' \in [Direct -> Nat], tests' \in [Tests -> {"new", "sent", "gone", "answered"}]
  PROVE  IInv'
<1>1. /\ Good(m', arrived', {}, 0) /\ Carried(mm, m') /\ Settled(m')
      /\ ~QueueIsEmpty(m') => ~IsDone(m', m'.left + 1)
  BY AssignAndFlush
<1>2. m' \in Managers
  BY <1>1 DEF Good
<1>3. TypeOK'
  BY <1>2 DEF TypeOK, IInv
<1>4. m'.conf = mm.conf
  BY <1>1 DEF Carried
<1>5. Current'
  BY <1>4 DEF Current, IInv, TypeOK, Steps
<1>6. NoIdleWorker'
  BY <1>1 DEF NoIdleWorker, Settled
<1>7. DoneHeadLeaves'
  BY <1>1 DEF DoneHeadLeaves
<1> QED BY <1>1, <1>3, <1>5, <1>6, <1>7 DEF IInv

\* A value comes from outside.
LEMMA AddRequestHolds ==
  ASSUME IInv, NEW i \in Direct, NEW form \in Forms, AddRequest(i, form)
  PROVE  IInv'
<1> DEFINE v == [id |-> <<i, arrived[i] + 1>>, supported |-> form.supported, set |-> form.set]
           s == SyncConfiguration(m)
           q == Enqueue(s, v)
<1>1. /\ Good(m, arrived, {}, 0) /\ conf \in [Items -> Steps] /\ arrived \in [Direct -> Nat]
      /\ tests \in [Tests -> {"new", "sent", "gone", "answered"}]
      /\ \A j \in Items : conf[j].kind = Kinds[j] /\ m.conf[j].ver <= conf[j].ver
  BY DEF IInv, TypeOK, Current
<1>2. /\ arrived[i] < MaxValues[i] /\ arrived' = Counts(arrived, i)
      /\ m' = FlushQueue(AssignTasks(q)) /\ UNCHANGED <<conf, tests>>
  BY DEF AddRequest, Counts
<1>3. Good(s, arrived, {}, 0) /\ s.conf = conf
  BY <1>1, SyncGood
<1> HIDE DEF s
<1>4. /\ arrived' \in [Direct -> Nat] /\ arrived'[i] = arrived[i] + 1
      /\ Good(s, arrived', {}, 0) /\ ~InLine(s, <<i, arrived[i] + 1>>)
  BY <1>1, <1>2, <1>3, CountsIs
<1>5. /\ v \in [id : Ids, supported : BOOLEAN, set : BOOLEAN] /\ (v.set => v.supported)
      /\ v.id = <<i, arrived[i] + 1>> /\ v.id[1] = i /\ v.id[2] = arrived[i] + 1
  <2>1. <<i, arrived[i] + 1>> \in Ids
    <3>1. i \in Items /\ MaxValues[i] \in Nat /\ arrived[i] \in Nat
      BY <1>1, ManagerAssumption
    <3>2. arrived[i] + 1 \in 1 .. MaxValues[i]
      BY <1>2, <3>1
    <3> QED BY <3>1, <3>2, IdsAre
  <2>2. form.supported \in BOOLEAN /\ form.set \in BOOLEAN /\ (form.set => form.supported)
    <3>1. CASE form = [supported |-> TRUE, set |-> TRUE]
      BY <3>1
    <3>2. CASE form = [supported |-> TRUE, set |-> FALSE]
      BY <3>2
    <3>3. CASE form = [supported |-> FALSE, set |-> FALSE]
      BY <3>3
    <3> QED BY <3>1, <3>2, <3>3 DEF Forms
  <2> DEFINE no == arrived[i] + 1
  <2> HIDE DEF no
  <2>3. <<i, no>> \in Ids /\ v = [id |-> <<i, no>>, supported |-> form.supported, set |-> form.set]
    BY <2>1 DEF no
  <2>4. v.id = <<i, no>> /\ v.supported = form.supported /\ v.set = form.set
    BY <2>3
  <2>5. v \in [id : Ids, supported : BOOLEAN, set : BOOLEAN]
    BY <2>2, <2>3
  <2> QED BY <2>2, <2>4, <2>5 DEF no
<1> HIDE DEF v
<1>6. Good(q, arrived', {}, 0) /\ Carried(s, q)
  <2>1. q = Enqueue(s, v)
    OBVIOUS
  <2> HIDE DEF q
  <2> QED BY <1>4, <1>5, <2>1, EnqueueGood
<1> HIDE DEF q
<1>7. q.conf = conf
  BY <1>3, <1>6 DEF Carried
<1> QED BY <1>1, <1>2, <1>4, <1>6, <1>7, Handled

\* A worker connects: nothing is flushed, but the value at the head that is done now is not
\* supported.
LEMMA RegisterWorkerHolds ==
  ASSUME IInv, NEW w \in Workers, RegisterWorker(w)
  PROVE  IInv'
<1> DEFINE r == [m EXCEPT !.registered = @ \cup {w}]
<1>1. /\ m \in Managers /\ Good(m, arrived, {}, 0) /\ TypeOK /\ Current /\ DoneHeadLeaves
  BY DEF IInv, Good
<1>2. /\ m' = AssignTasks(r) /\ UNCHANGED <<conf, arrived, tests>>
  BY DEF RegisterWorker
<1>3. r \in Managers /\ SameQueue(m, r) /\ r.history = m.history /\ r.preproc = m.preproc
      /\ r.work = m.work
  BY <1>1 DEF Managers, SameQueue
<1> HIDE DEF r
<1>4. Good(r, arrived, {}, 0)
  <2>1. 0 \in Int /\ m.preproc = m.preproc + (0 - 0)
    BY <1>1 DEF Managers
  <2> QED BY <1>1, <1>3, <2>1, SameQueueGood
<1>5. /\ Good(m', arrived, {}, 0) /\ Carried(r, m') /\ Advanced(r, m') /\ Settled(m')
  <2>1. Busy(r, {})
    BY DEF Busy
  <2> QED BY <1>2, <1>4, <2>1, AssignTasksGood DEF Settled
<1>6. m' \in Managers
  BY <1>5 DEF Good
<1>7. TypeOK'
  BY <1>1, <1>2, <1>6 DEF TypeOK
<1>8. Current'
  BY <1>1, <1>2, <1>3, <1>5 DEF Current, Carried, SameQueue
<1>9. NoIdleWorker'
  BY <1>5 DEF NoIdleWorker, Settled
<1>10. DoneHeadLeaves'
  <2> SUFFICES ASSUME ~QueueIsEmpty(m'), IsDone(m', m'.left + 1)
               PROVE  ~m'.request[m'.line[m'.left + 1]].supported
    BY DEF DoneHeadLeaves
  <2> DEFINE id == m.line[m.left + 1]
  <2>1. m'.line = m.line /\ m'.left = m.left
    BY <1>3, <1>5 DEF Advanced, SameQueue
  <2>2. ~QueueIsEmpty(m) /\ InState(m', id, "DONE")
    BY <2>1 DEF QueueIsEmpty, IsDone
  <2>3. id \in Ids
    <3>1. m.left \in Nat /\ Len(m.line) \in Nat /\ m.left <= Len(m.line) /\ m.left # Len(m.line)
      BY <1>1, <2>2, FieldsAre DEF Good, Line, QueueIsEmpty
    <3> QED BY <1>1, <3>1, FieldsAre
  <2>4. /\ InQueue(r, id) => r.request[id].supported = m'.request[id].supported
        /\ InQueue(r, id) <=> InQueue(m', id)
        /\ InState(m', id, "DONE") /\ r.request[id].supported => InState(r, id, "DONE")
    BY <1>5, <2>3 DEF Advanced, InState
  <2>5. ~r.request[id].supported
    <3>1. r.request = m.request
      BY <1>3 DEF SameQueue
    <3>2. InState(r, id, "DONE") => ~r.request[id].supported
      BY <1>1, <2>2, <3>1 DEF DoneHeadLeaves, IsDone, InState, InQueue
    <3> QED BY <2>2, <2>4, <3>2
  <2> QED BY <2>1, <2>2, <2>4, <2>5 DEF InState
<1> QED BY <1>2, <1>5, <1>7, <1>8, <1>9, <1>10 DEF IInv

\* The result of a worker that left this history, once it is taken in.
AddedWith(w, outcome, past) ==
  LET id == m.work[w].task
      taken == ResultTaken(ResultStored(m, id, outcome, past), id, outcome)
  IN  m' = FlushQueue(AssignTasks([taken EXCEPT !.work[w] = NoTask, !.preproc = @ - 1]))

\* A worker answers for a value.
LEMMA AddResultHolds ==
  ASSUME IInv, NEW w \in Workers, NEW outcome \in Outcomes, AddResult(w, outcome)
  PROVE  IInv'
<1>0. PICK past \in HistoriesAfter(m, m.work[w].task, outcome) : AddedWith(w, outcome, past)
  BY Zenon DEF AddResult, AddedWith
<1> DEFINE id == m.work[w].task
           t == ResultTaken(ResultStored(m, id, outcome, past), id, outcome)
           u == [t EXCEPT !.work[w] = NoTask, !.preproc = @ - 1]
<1>1. /\ m \in Managers /\ Good(m, arrived, {}, 0) /\ TypeOK
  BY DEF IInv, Good
<1>2. /\ m' = FlushQueue(AssignTasks(u)) /\ UNCHANGED <<conf, arrived, tests>> /\ HasValue(w)
  BY <1>0 DEF AddResult, AddedWith
<1>3. id \in Ids
  BY <1>1, <1>2 DEF HasValue, IsTest, Managers
<1>4. Good(t, arrived, {w}, 1) /\ Carried(m, t)
  <2>1. arrived \in [Direct -> Nat]
    BY <1>1 DEF TypeOK
  <2>2. t = ResultTaken(ResultStored(m, id, outcome, past), id, outcome) /\ m.work[w].task = id
    OBVIOUS
  <2> HIDE DEF t, id
  <2> QED BY <1>1, <1>3, <2>1, <2>2, ResultTakenGood
<1> HIDE DEF t
<1>5. t \in Managers
  BY <1>4 DEF Good
<1> DEFINE wrk == [t.work EXCEPT ![w] = NoTask]
<1>6. u = [t EXCEPT !.work = wrk, !.preproc = t.preproc - 1]
  OBVIOUS
<1>7. /\ wrk \in [Workers -> [task : Ids \cup Tests \cup {None}, past : Histories]]
      /\ wrk[w].task = None /\ \A x \in Workers \ {w} : wrk[x] = t.work[x]
      /\ t.preproc \in Int /\ t.preproc - 1 \in Int
  BY <1>5 DEF Managers, NoTask, Histories
<1> HIDE DEF wrk, u
<1>8. /\ u \in Managers /\ SameQueue(t, u) /\ u.history = t.history /\ u.preproc = t.preproc + (0 - 1)
      /\ u.work = wrk
  <2>1. u \in Managers
    BY <1>5, <1>6, <1>7 DEF Managers
  <2>2. SameQueue(t, u) /\ u.history = t.history /\ u.preproc = t.preproc - 1 /\ u.work = wrk
    BY <1>5, <1>6 DEF Managers, SameQueue
  <2> QED BY <1>7, <2>1, <2>2
<1>9. Good(u, arrived, {}, 0)
  <2>1. 0 \in Int /\ 1 \in Int
    OBVIOUS
  <2>2. \A x \in Workers \ {} : u.work[x].task \in Ids => x \notin {w} /\ u.work[x] = t.work[x]
    BY <1>7, <1>8, NoneIsNoId
  <2> QED BY <1>4, <1>8, <2>1, <2>2, SameQueueGood
<1>10. u.conf = m.conf
  BY <1>4, <1>8 DEF SameQueue, Carried
<1> QED BY <1>1, <1>2, <1>9, <1>10, Handled DEF TypeOK

\* A test request comes.
LEMMA AddTestRequestHolds ==
  ASSUME IInv, NEW t \in Tests, AddTestRequest(t)
  PROVE  IInv'
<1> DEFINE u == [m EXCEPT !.direct = Append(@, t)]
<1>1. /\ m \in Managers /\ Good(m, arrived, {}, 0) /\ TypeOK
  BY DEF IInv, Good
<1>2. /\ m' = FlushQueue(AssignTasks(u)) /\ UNCHANGED <<conf, arrived>>
      /\ tests' = [tests EXCEPT ![t] = "sent"]
  BY DEF AddTestRequest
<1>3. u \in Managers /\ SameQueue(m, u) /\ u.history = m.history /\ u.preproc = m.preproc
      /\ u.work = m.work /\ m.preproc \in Int
  <2> DEFINE direct == Append(m.direct, t)
  <2>1. direct \in Seq(Tests)
    BY <1>1 DEF Managers
  <2>2. u = [m EXCEPT !.direct = direct]
    OBVIOUS
  <2> HIDE DEF direct, u
  <2>3. u \in Managers
    BY <1>1, <2>1, <2>2 DEF Managers
  <2> QED BY <1>1, <2>2, <2>3 DEF Managers, SameQueue
<1> HIDE DEF u
<1>4. Good(u, arrived, {}, 0)
  <2>1. 0 \in Int /\ u.preproc = m.preproc + (0 - 0)
    BY <1>3
  <2> QED BY <1>1, <1>3, <2>1, SameQueueGood
<1>5. u.conf = m.conf
  BY <1>3 DEF SameQueue
<1>6. tests' \in [Tests -> {"new", "sent", "gone", "answered"}] /\ arrived' \in [Direct -> Nat]
  BY <1>1, <1>2 DEF TypeOK
<1> QED BY <1>2, <1>4, <1>5, <1>6, Handled

\* A worker answers for a test.
LEMMA FlushTestResultHolds ==
  ASSUME IInv, NEW w \in Workers, FlushTestResult(w)
  PROVE  IInv'
<1> DEFINE wrk == [m.work EXCEPT ![w] = NoTask]
           u == [m EXCEPT !.work = wrk]
<1>1. /\ m \in Managers /\ Good(m, arrived, {}, 0) /\ TypeOK
  BY DEF IInv, Good
<1>2. /\ m' = FlushQueue(AssignTasks(u)) /\ UNCHANGED <<conf, arrived>>
      /\ tests' \in [Tests -> {"new", "sent", "gone", "answered"}]
  BY <1>1 DEF FlushTestResult, TypeOK
<1>3. /\ wrk \in [Workers -> [task : Ids \cup Tests \cup {None}, past : Histories]]
      /\ wrk[w].task = None /\ \A x \in Workers \ {w} : wrk[x] = m.work[x]
  BY <1>1 DEF Managers, NoTask, Histories
<1> HIDE DEF wrk
<1>4. u \in Managers /\ SameQueue(m, u) /\ u.history = m.history /\ u.preproc = m.preproc
      /\ u.work = wrk /\ m.preproc \in Int
  BY <1>1, <1>3 DEF Managers, SameQueue
<1> HIDE DEF u
<1>5. Good(u, arrived, {}, 0)
  <2>1. 0 \in Int /\ u.preproc = m.preproc + (0 - 0)
    BY <1>4
  <2>2. \A x \in Workers \ {} : u.work[x].task \in Ids => x \notin {} /\ u.work[x] = m.work[x]
    BY <1>3, <1>4, NoneIsNoId
  <2> QED BY <1>1, <1>4, <2>1, <2>2, SameQueueGood
<1>6. u.conf = m.conf
  BY <1>4 DEF SameQueue
<1>7. arrived' \in [Direct -> Nat]
  BY <1>1, <1>2 DEF TypeOK
<1> QED BY <1>2, <1>5, <1>6, <1>7, Handled

\* The invariant is inductive.
LEMMA StepHolds == IInv /\ [Next]_vars => IInv'
<1> SUFFICES ASSUME IInv, [Next]_vars PROVE IInv'
  OBVIOUS
<1>1. ASSUME NEW t \in Tests, ClientLeaves(t) PROVE IInv'
  <2>1. UNCHANGED <<m, conf, arrived>> /\ tests' = [tests EXCEPT ![t] = "gone"]
    BY <1>1 DEF ClientLeaves
  <2>2. TypeOK'
    BY <2>1 DEF IInv, TypeOK
  <2> QED BY <2>1, <2>2 DEF IInv, Current, NoIdleWorker, DoneHeadLeaves
<1>2. ASSUME NEW i \in Items, ChangeSteps(i) PROVE IInv'
  <2>1. UNCHANGED <<m, arrived, tests>> /\ conf' = [conf EXCEPT ![i].ver = @ + 1]
    BY <1>2 DEF ChangeSteps
  <2>2. conf \in [Items -> Steps]
    BY DEF IInv, TypeOK
  <2>3. /\ conf' \in [Items -> Steps]
        /\ \A j \in Items : conf'[j].kind = conf[j].kind /\ conf[j].ver <= conf'[j].ver
    BY <2>1, <2>2 DEF Steps
  <2>4. TypeOK'
    BY <2>1, <2>3 DEF IInv, TypeOK
  <2>5. \A j \in Items : m.conf[j].ver \in Nat /\ conf[j].ver \in Nat /\ conf'[j].ver \in Nat
    BY <2>2, <2>3 DEF IInv, TypeOK, Managers, Steps
  <2>6. Current'
    BY <2>1, <2>3, <2>5 DEF IInv, Current
  <2> QED BY <2>1, <2>4, <2>6 DEF IInv, NoIdleWorker, DoneHeadLeaves
<1>3. CASE UNCHANGED vars
  BY <1>3 DEF IInv, TypeOK, Current, NoIdleWorker, DoneHeadLeaves, vars
<1> QED BY <1>1, <1>2, <1>3, AddRequestHolds, RegisterWorkerHolds, AddResultHolds,
           AddTestRequestHolds, FlushTestResultHolds DEF Next

\* The inductive invariant holds: the manager's types, the line and its order, the requests,
\* the chains of pending values, what workers hold and the counters, between any two messages.
THEOREM InvariantHolds == Spec => []IInv
<1>1. Init => IInv
  BY InitHolds
<1>2. IInv /\ [Next]_vars => IInv'
  BY StepHolds
<1> QED BY <1>1, <1>2, PTL DEF Spec

\* HistoryNotForked: what a worker was given for an item with history is still what the cache
\* holds when its answer comes: its request is in processing, and the chains let only one value
\* of the item be.
THEOREM HistoriesHold == Spec => []HistoryNotForked
<1>1. IInv => HistoryNotForked
  <2> SUFFICES ASSUME IInv, NEW w \in Workers, HasValue(w),
                      m.conf[m.work[w].task[1]] = [kind |-> "history", ver |-> 0]
               PROVE  m.history[m.work[w].task[1]] = m.work[w].past
    BY DEF HistoryNotForked
  <2>1. m \in Managers /\ Worked(m, {})
    BY DEF IInv, Good
  <2>2. m.work[w].task \in Ids
    BY <2>1 DEF HasValue, IsTest, Managers
  <2> QED BY <2>1, <2>2 DEF Worked
<1> QED BY <1>1, InvariantHolds, PTL

\* QueueConsistent: a request for every value that has not left, every value that waits released
\* by exactly one still to be done, a value in processing for every busy worker and no two with
\* one, and counters that count the queue.
THEOREM QueueHolds == Spec => []QueueConsistent
<1>1. IInv => QueueConsistent
  <2> SUFFICES ASSUME IInv PROVE QueueConsistent
    OBVIOUS
  <2>1. /\ m \in Managers /\ Line(m) /\ Linked(m) /\ Counted(m, 0) /\ Worked(m, {}) /\ TypeOK
    BY DEF IInv, Good
  <2>2. /\ m.line \in Seq(Ids) /\ DOMAIN m.line = 1 .. Len(m.line)
        /\ m.linked \in [Items -> Ids \cup {None}]
    BY <2>1, FieldsAre
  <2>3. LineMatches
    BY <2>1, <2>2 DEF LineMatches, Line, InLine
  <2>4. EveryPendingIsReleased
    <3>1. PICK rank \in [Ids -> Nat] : Chained(m, rank)
      BY <2>1 DEF Linked
    <3>2. \A x \in Ids : Awaits(x) <=> Live(m, x) /\ m.request[x].pending # None
      BY DEF Awaits, Live
    <3>3. \A x \in Ids : Awaits(x) => m.request[x].pending \in Ids
      BY <2>1, RequestIs DEF Awaits, Requests
    <3>4. \A id \in Ids : InState(m, id, "PENDING") <=>
             \E x \in Ids : Awaits(x) /\ m.request[x].pending = id
      <4>1. \A id \in Ids : InState(m, id, "PENDING") =>
               \E x \in Ids : Live(m, x) /\ m.request[x].pending = id
        BY <3>1 DEF Chained
      <4>2. \A x \in Ids : Live(m, x) /\ m.request[x].pending # None
               => InState(m, m.request[x].pending, "PENDING")
        BY <3>1 DEF Chained
      <4> QED BY <4>1, <4>2, <3>2, NoneIsNoId
    <3>5. \A x \in {id \in Ids : Awaits(id)} : \A y \in Ids :
             Awaits(y) /\ m.request[x].pending = m.request[y].pending => x = y
      BY <3>1, <3>2 DEF Chained
    <3>6. \A i \in Items :
             m.linked[i] # None => /\ InQueue(m, m.linked[i]) /\ ~InState(m, m.linked[i], "DONE")
                                   /\ m.request[m.linked[i]].pending = None
      BY <3>1 DEF Chained, Live
    <3> QED BY <3>4, <3>5, <3>6 DEF EveryPendingIsReleased
  <2>5. OneWorkerPerValue
    <3> SUFFICES ASSUME NEW w \in Workers, HasValue(w)
                 PROVE  /\ InState(m, m.work[w].task, "PROCESSING")
                        /\ \A x \in Workers \ {w} : m.work[x].task # m.work[w].task
      BY DEF OneWorkerPerValue
    <3>1. m.work[w].task \in Ids
      BY <2>1 DEF HasValue, IsTest, Managers
    <3> QED BY <2>1, <3>1 DEF Worked
  <2>6. CountersMatch
    <3>1. IsFiniteSet(Unanswered(m))
      BY IdsAreFinite, FS_Subset DEF Unanswered
    <3>2. Cardinality(Unanswered(m)) \in Nat
      BY <3>1, FS_CardinalityType
    <3> QED BY <2>1, <3>2 DEF CountersMatch, Line, Counted
  <2> QED BY <2>1, <2>3, <2>4, <2>5, <2>6 DEF QueueConsistent
<1> QED BY <1>1, InvariantHolds, PTL

\* NothingWaits: after every message no worker is idle beside a value or a test that could be
\* given to it, and no preprocessed value stands at the head of the queue.
THEOREM NothingIsLeftWaiting == Spec => []NothingWaits
<1>1. IInv => NothingWaits
  BY DEF IInv, NothingWaits
<1> QED BY <1>1, InvariantHolds, PTL

\* The order in which the values of the kept items leave.
KeptInOrder ==
  \A j, k \in 1 .. m.left :
    j < k /\ m.line[j][1] = m.line[k][1] /\ m.line[j][1] \in Kept => m.line[j][2] < m.line[k][2]

\* The values of each item that does not depend on an internal item without steps are flushed
\* to the history cache in the order in which they, or those of its master, came.
THEOREM KeptLeaveInOrder == Spec => []KeptInOrder
<1>1. IInv => KeptInOrder
  <2> SUFFICES ASSUME IInv, NEW j \in 1 .. m.left, NEW k \in 1 .. m.left, j < k,
                      m.line[j][1] = m.line[k][1], m.line[j][1] \in Kept
               PROVE  m.line[j][2] < m.line[k][2]
    BY DEF KeptInOrder
  <2>1. m \in Managers /\ Line(m) /\ Ordered(m)
    BY DEF IInv, Good
  <2>2. /\ m.left \in Nat /\ Len(m.line) \in Nat /\ m.left <= Len(m.line)
        /\ \A n \in 1 .. Len(m.line) : m.line[n] \in Ids
    BY <2>1, FieldsAre DEF Line
  <2>3. j \in 1 .. Len(m.line) /\ k \in 1 .. Len(m.line)
    BY <2>2
  <2>4. m.line[j][2] <= m.line[k][2]
    BY <2>1, <2>3 DEF Ordered, Together
  <2>5. m.line[j] # m.line[k]
    BY <2>1, <2>3 DEF Line
  <2>6. /\ m.line[j] = <<m.line[j][1], m.line[j][2]>> /\ m.line[k] = <<m.line[k][1], m.line[k][2]>>
        /\ m.line[j][2] \in Nat /\ m.line[k][2] \in Nat
    BY <2>2, <2>3, IdsAre
  <2> QED BY <2>4, <2>5, <2>6
<1> QED BY <1>1, InvariantHolds, PTL

\* Where no item depends on an internal item without steps, the values of every item are flushed
\* in order (preprocessing_flush_queue over the places that preprocessor_enqueue chose).
THEOREM ValuesLeaveInOrder ==
  ASSUME \A i \in Items \ Direct : ~Bare(Root[i])
  PROVE  Spec => []FlushedInOrder
<1>1. KeptInOrder /\ TypeOK /\ QueueConsistent => FlushedInOrder
  <2> SUFFICES ASSUME KeptInOrder, TypeOK, QueueConsistent, NEW j \in 1 .. m.left, NEW k \in 1 .. m.left,
                      j < k, m.line[j][1] = m.line[k][1]
               PROVE  m.line[j][2] < m.line[k][2]
    BY DEF FlushedInOrder
  <2>1. j \in 1 .. Len(m.line)
    BY FieldsAre DEF TypeOK, QueueConsistent, LineMatches
  <2>2. m.line[j][1] \in Items
    BY <2>1, FieldsAre, IdsAre DEF TypeOK
  <2> QED BY <2>2 DEF KeptInOrder, Kept
<1>2. QueueConsistent => TypeOK
  BY DEF QueueConsistent
<1> QED BY <1>1, <1>2, KeptLeaveInOrder, QueueHolds, PTL
=============================================================================
