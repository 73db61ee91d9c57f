--------------------------- MODULE PreprocManager ---------------------------
(***************************************************************************)
(* The preprocessing manager of the vendored Zabbix code                   *)
(* (zabbix_server/preprocessor/preproc_manager.c): values of items queue   *)
(* up, workers preprocess them in parallel, results come back in any order *)
(* and the values leave the queue in the order in which they stand in it.  *)
(* A message to the manager is handled from start to end before the next   *)
(* one; each action below is one message.                                  *)
(*                                                                         *)
(* The state of the manager, m, is a record, so that the helpers of the    *)
(* code, which call one another, are operators from m to m.  A value is    *)
(* known by its id <<item, no>>: the no-th value that came for the item, or *)
(* for its master.  m.line holds the ids of all values in order: the first *)
(* m.left of them have left for the history cache, the others are queued.  *)
(***************************************************************************)
EXTENDS Integers, FiniteSets, SequencesExt

CONSTANTS
  Items,        \* items that have values
  Direct,       \* the items whose values come from outside; the others depend
  Internal,     \* items of type ITEM_TYPE_INTERNAL, which have priority
  Deps,         \* item -> sequence of the items that depend on it
  Kinds,        \* item -> kind of its steps: see StepKinds
  Workers,
  Tests,        \* test requests of external clients
  MaxValues,    \* bound: item -> number of its values
  MaxChanges,   \* bound: item -> number of times that its steps change
  None

StepKinds == {"none", "plain", "history"}   \* delta and throttling keep history

Ids == UNION {{i} \X (1 .. MaxValues[i]) : i \in Items}

ASSUME ManagerAssumption ==
  /\ IsFiniteSet(Items) /\ IsFiniteSet(Workers)
  /\ Direct \subseteq Items /\ Internal \subseteq Direct
  /\ Deps \in [Items -> Seq(Items \ Direct)]
  /\ Kinds \in [Items -> StepKinds]
  /\ MaxValues \in [Items -> Nat] /\ MaxChanges \in [Items -> Nat]

\* An item depends on one master (its master_itemid), and through a chain of masters on
\* an item whose values come from outside; it gets a value for each of its master's.
ASSUME MasterAssumption ==
  /\ \A i, j \in Items : \A k \in DOMAIN Deps[i], l \in DOMAIN Deps[j] :
       Deps[i][k] = Deps[j][l] => i = j /\ k = l
  /\ \A i \in Items : \A k \in DOMAIN Deps[i] : MaxValues[Deps[i][k]] = MaxValues[i]
  /\ \E root \in [Items -> Direct] :
       /\ \A i \in Direct : root[i] = i
       /\ \A i \in Items : \A k \in DOMAIN Deps[i] : root[Deps[i][k]] = root[i]

(***************************************************************************)
(* The configurations modelled: a dependent without steps has no           *)
(* dependents of its own.  preprocessor_enqueue_dependent relies on it:    *)
(* with one it would, in the middle of its loop over the dependents of a   *)
(* master, flush the queue and free the master that the next dependent is  *)
(* to be put behind.                                                       *)
(***************************************************************************)
ASSUME NestingAssumption ==
  \A i \in Items \ Direct : Kinds[i] = "none" => Deps[i] = <<>>

VARIABLES
  m,         \* the manager's own state
  conf,      \* item -> the steps it is configured with now: [kind, ver]
  arrived,   \* item from outside -> number of values that came
  tests      \* test request -> "new", "sent", "gone" (client left), "answered"

vars == <<m, conf, arrived, tests>>

Steps == [kind : StepKinds, ver : Nat]

Histories == [no : Nat, ver : Nat] \cup {None}

Requests == [supported : BOOLEAN, set : BOOLEAN, pending : Ids \cup {None}, steps : Steps,
             state : {"QUEUED", "PROCESSING", "DONE", "PENDING"}]

\* None is none of the things it stands for the lack of.
ASSUME NoneAssumption ==
  /\ None \notin Workers /\ None \notin Tests /\ None \notin Ids /\ None \notin Requests
  /\ Tests \cap Ids = {}

Managers ==
  [line : Seq(Ids), left : Nat, request : [Ids -> Requests \cup {None}],
   direct : Seq(Tests), registered : SUBSET Workers,
   work : [Workers -> [task : Ids \cup Tests \cup {None}, past : Histories]],
   conf : [Items -> Steps], history : [Items -> Histories],
   linked : [Items -> Ids \cup {None}], tail : Ids \cup {None},
   queued : Int, preproc : Int]

NoTask == [task |-> None, past |-> None]

-----------------------------------------------------------------------------
(* The queue: the ids behind the first m.left of the line, with a request   *)
(* each.                                                                   *)

InQueue(mm, id) == mm.request[id] # None

InState(mm, id, state) == InQueue(mm, id) /\ mm.request[id].state = state

QueueIsEmpty(mm) == mm.left = Len(mm.line)

Pos(mm, id) == CHOOSE k \in DOMAIN mm.line : mm.line[k] = id

\* Mutant: the value that waited is not released.
SetRequestStateDoneNoRelease(mm, id) ==
  [mm EXCEPT !.request[id].state = "DONE",
             !.linked[id[1]] = IF @ = id THEN None ELSE @]

\* preprocessor_set_request_state_done
SetRequestStateDone(mm, id) ==
  [mm EXCEPT !.request = [x \in Ids |->
                            IF x = id THEN [@[x] EXCEPT !.state = "DONE"]
                            ELSE IF x = @[id].pending THEN [@[x] EXCEPT !.state = "QUEUED"]
                            ELSE @[x]],
             !.linked[id[1]] = IF @ = id THEN None ELSE @]

\* The history cache: None if it holds none of the item.
Remember(mm, i, past) == [mm EXCEPT !.history[i] = past]

\* Mutant: a value that is given to a worker still counts as queued.
TakeStaysQueued(mm, id) == [m |-> mm, task |-> id]

\* A value is given to a worker.
Take(mm, id) == [m |-> [mm EXCEPT !.request[id].state = "PROCESSING"], task |-> id]

\* One step of the search for a task: unsupported values are done without a worker and
\* forget the item's history.
Visit(found, id) ==
  IF found.task # None \/ ~InState(found.m, id, "QUEUED") THEN found
  ELSE IF ~found.m.request[id].supported
  THEN [found EXCEPT !.m = SetRequestStateDone(Remember(@, id[1], None), id)]
  ELSE Take(found.m, id)

\* preprocessor_get_next_task on the queue.  The task is None if none waits.
NextTask(mm) ==
  LET found[k \in mm.left .. Len(mm.line)] ==
        IF k = mm.left THEN [m |-> mm, task |-> None] ELSE Visit(found[k - 1], mm.line[k])
  IN  found[Len(mm.line)]

\* The direct queue goes first (preprocessor_get_next_task).
GetNextTask(mm) ==
  IF mm.direct # <<>>
  THEN [m |-> [mm EXCEPT !.direct = Tail(@)], task |-> Head(mm.direct)]
  ELSE NextTask(mm)

FreeWorkers(mm) == {w \in mm.registered : mm.work[w].task = None}

IsTest(task) == task \in Tests

\* preprocessor_create_task sends the history the item has at this moment.
TaskFor(mm, task) ==
  [task |-> task, past |-> IF IsTest(task) THEN None ELSE mm.history[task[1]]]

\* One round of preprocessor_assign_tasks; which free worker is first makes no difference.
AssignTask(round) ==
  LET next == GetNextTask(round.m)
      w == CHOOSE x \in FreeWorkers(round.m) : TRUE
  IN  IF ~round.more \/ FreeWorkers(round.m) = {} THEN round
      ELSE IF next.task = None THEN [m |-> next.m, more |-> FALSE]
      ELSE [m |-> [next.m EXCEPT !.work[w] = TaskFor(next.m, next.task)], more |-> TRUE]

\* preprocessor_assign_tasks: each round but the last takes a free worker.
AssignTasks(mm) ==
  LET round[n \in 0 .. Cardinality(Workers)] ==
        IF n = 0 THEN [m |-> mm, more |-> TRUE] ELSE AssignTask(round[n - 1])
  IN  round[Cardinality(Workers)].m

IsDone(mm, k) == InState(mm, mm.line[k], "DONE")

\* Mutant: every value that is done leaves, whatever stands before it.
FlushQueueAnyDone(mm) ==
  LET queue == SubSeq(mm.line, mm.left + 1, Len(mm.line))
      done == SelectSeq(queue, LAMBDA id : InState(mm, id, "DONE"))
      kept == SelectSeq(queue, LAMBDA id : ~InState(mm, id, "DONE"))
  IN  [mm EXCEPT !.line = SubSeq(@, 1, mm.left) \o done \o kept,
                 !.left = @ + Len(done),
                 !.request = [id \in Ids |-> IF \E k \in DOMAIN done : done[k] = id
                                             THEN None ELSE @[id]],
                 !.queued = @ - Len(done),
                 !.tail = IF \E k \in DOMAIN done : done[k] = @ THEN None ELSE @]

\* preprocessing_flush_queue: what is done leaves from the head for the history cache.
FlushQueue(mm) ==
  LET last == CHOOSE n \in mm.left .. Len(mm.line) :
                /\ \A k \in mm.left + 1 .. n : IsDone(mm, k)
                /\ n < Len(mm.line) => ~IsDone(mm, n + 1)
      gone == {mm.line[k] : k \in mm.left + 1 .. last}
  IN  [mm EXCEPT !.left = last,
                 !.request = [id \in Ids |-> IF id \in gone THEN None ELSE @[id]],
                 !.queued = @ - (last - mm.left),
                 !.tail = IF @ \in gone THEN None ELSE @]

\* Mutant: values of an item with history are not chained.
LinkItemsNot(mm, id) == mm

\* preprocessor_link_items: a value of an item whose steps keep history waits for
\* the value that was linked before it, unless that is done.
LinkItems(mm, id) ==
  LET last == mm.linked[id[1]]
      linked == [mm EXCEPT !.linked[id[1]] = id]
  IN  IF mm.conf[id[1]].kind # "history" THEN mm
      ELSE IF last = None \/ InState(mm, last, "DONE") THEN linked
      ELSE [linked EXCEPT !.request[last].pending = id, !.request[id].state = "PENDING"]

\* A value that needs no worker: no steps, or nothing to preprocess.
NeedsNoSteps(mm, v) ==
  mm.conf[v.id[1]].kind = "none" \/ (v.supported /\ ~v.set)

NewRequest(mm, v) ==
  [supported |-> v.supported, set |-> v.set, pending |-> None,
   steps |-> mm.conf[v.id[1]],
   state |-> IF NeedsNoSteps(mm, v) THEN "DONE" ELSE "QUEUED"]

\* Internal values go to the beginning, in their order; dependents behind their master; the
\* others to the end.
GoesFirst(v, master) == master = None /\ v.id[1] \in Internal

Place(mm, v, master) ==
  IF ~GoesFirst(v, master) THEN IF master = None THEN Len(mm.line) ELSE Pos(mm, master)
  ELSE IF mm.tail = None THEN mm.left ELSE Pos(mm, mm.tail)

\* How preprocessor_enqueue puts a request into the list.
Insert(mm, v, master) ==
  [mm EXCEPT !.line = InsertAt(@, Place(mm, v, master) + 1, v.id),
             !.request[v.id] = NewRequest(mm, v),
             !.queued = @ + 1,
             !.tail = IF GoesFirst(v, master) \/ (master # None /\ master = @)
                      THEN v.id ELSE @]

\* Mutant: values that need no worker are counted, too.
CountAll(mm, v) == [mm EXCEPT !.preproc = @ + 1]

\* preproc_num counts the values that a worker will answer for.
Count(mm, v) ==
  IF ~NeedsNoSteps(mm, v) /\ v.supported THEN [mm EXCEPT !.preproc = @ + 1] ELSE mm

\* preprocessor_enqueue without the dependents: a value that needs no worker goes straight
\* to the history cache if nothing is queued.
Put(mm, v, master) ==
  IF ~NeedsNoSteps(mm, v) THEN LinkItems(Count(Insert(mm, v, master), v), v.id)
  ELSE IF QueueIsEmpty(mm) THEN [mm EXCEPT !.line = Append(@, v.id), !.left = @ + 1]
  ELSE Count(Insert(mm, v, master), v)

\* preprocessor_enqueue_dependent: the dependents get the value of their master, the last
\* one first, so that they stand behind it in their order.
EnqueueDependent(mm, v, master) ==
  LET deps == Deps[v.id[1]]
      put[k \in 0 .. Len(deps)] ==
        IF k = 0 THEN mm
        ELSE Put(put[k - 1], [v EXCEPT !.id = <<deps[Len(deps) + 1 - k], v.id[2]>>], master)
  IN  IF v.set /\ deps # <<>> THEN FlushQueue(AssignTasks(put[Len(deps)])) ELSE mm

\* preprocessor_enqueue for a value from outside: one that needs no worker brings in its
\* dependents at once, behind no master if it has left already.
Enqueue(mm, v) ==
  IF ~NeedsNoSteps(mm, v) THEN Put(mm, v, None)
  ELSE EnqueueDependent(Put(mm, v, None), v, IF QueueIsEmpty(mm) THEN None ELSE v.id)

\* preprocessor_sync_configuration: the steps are read again; an item whose steps
\* were changed or removed starts without history.
SyncConfiguration(mm) ==
  [mm EXCEPT !.conf = conf,
             !.history = [i \in Items |-> IF mm.conf[i] # conf[i] THEN None ELSE @[i]]]

-----------------------------------------------------------------------------
(* The messages.                                                           *)

\* What a value from outside may be: a value, nothing, or the item is unsupported.
Forms == {[supported |-> TRUE, set |-> TRUE], [supported |-> TRUE, set |-> FALSE],
          [supported |-> FALSE, set |-> FALSE]}

\* ZBX_IPC_PREPROCESSOR_REQUEST: preprocessor_add_request, with a value.
AddRequest(i, form) ==
  /\ arrived[i] < MaxValues[i]
  /\ arrived' = [arrived EXCEPT ![i] = @ + 1]
  /\ LET v == [id |-> <<i, arrived[i] + 1>>, supported |-> form.supported, set |-> form.set]
     IN  m' = FlushQueue(AssignTasks(Enqueue(SyncConfiguration(m), v)))
  /\ UNCHANGED <<conf, tests>>

\* Mutant: what already waits is not given to the new worker.
RegisterWorkerIdle(w) ==
  /\ w \notin m.registered
  /\ m' = [m EXCEPT !.registered = @ \cup {w}]
  /\ UNCHANGED <<conf, arrived, tests>>

\* ZBX_IPC_PREPROCESSOR_WORKER: preprocessor_register_worker.  Nothing is flushed.
RegisterWorker(w) ==
  /\ w \notin m.registered
  /\ m' = AssignTasks([m EXCEPT !.registered = @ \cup {w}])
  /\ UNCHANGED <<conf, arrived, tests>>

\* What a worker may find: a value; a value an error handler put in the place of an
\* error; a value that is discarded; an error.
Outcomes == {"value", "replaced", "discarded", "error"}

\* worker_item_preproc_execute on the steps of the task: history goes on from this value,
\* unless a step before the one that keeps it, or that step itself, failed or ended the value.
HistoriesAfter(mm, id, outcome) ==
  LET steps == mm.request[id].steps
      mine == [no |-> id[2], ver |-> steps.ver]
  IN  IF steps.kind # "history" THEN {None}
      ELSE IF outcome = "value" THEN {mine} ELSE {mine, None}

\* preprocessor_set_variant_result: an error, or a value that does not convert to the
\* type of the item, makes the item unsupported; no value clears the result.
SetVariantResult(mm, id, outcome) ==
  IF outcome = "error" THEN [mm EXCEPT !.request[id].supported = FALSE]
  ELSE [mm EXCEPT !.request[id].set = (outcome # "discarded")]

\* The first part of preprocessor_add_result: the history that came back replaces
\* the one in the cache, the request is done and gets its value.
ResultStored(mm, id, outcome, past) ==
  SetVariantResult(
    SetRequestStateDone(Remember(mm, id[1], past), id), id, outcome)

\* A result brings in the dependents, behind the request it is for.
ResultTaken(mm, id, outcome) ==
  IF outcome \in {"value", "replaced"}
  THEN EnqueueDependent(mm, [id |-> id, supported |-> TRUE, set |-> TRUE], id)
  ELSE mm

HasValue(w) == m.work[w].task # None /\ ~IsTest(m.work[w].task)

\* Mutant: the queue is not flushed after a result.
AddResultNoFlush(w, outcome) ==
  /\ HasValue(w)
  /\ \E past \in HistoriesAfter(m, m.work[w].task, outcome) :
       LET stored == ResultStored(m, m.work[w].task, outcome, past)
       IN  m' = AssignTasks([stored EXCEPT !.work[w] = NoTask, !.preproc = @ - 1])
  /\ UNCHANGED <<conf, arrived, tests>>

\* Mutant: the queue is flushed before the dependents are put behind the master.
AddResultFlushesFirst(w, outcome) ==
  /\ HasValue(w)
  /\ \E past \in HistoriesAfter(m, m.work[w].task, outcome) :
       LET id == m.work[w].task
           taken == ResultTaken(FlushQueue(ResultStored(m, id, outcome, past)), id, outcome)
       IN  m' = AssignTasks([taken EXCEPT !.work[w] = NoTask, !.preproc = @ - 1])
  /\ UNCHANGED <<conf, arrived, tests>>

\* ZBX_IPC_PREPROCESSOR_RESULT: preprocessor_add_result.  The worker counts as busy
\* until the dependents are queued and tasks assigned once.
AddResult(w, outcome) ==
  /\ HasValue(w)
  /\ \E past \in HistoriesAfter(m, m.work[w].task, outcome) :
       LET id == m.work[w].task
           taken == ResultTaken(ResultStored(m, id, outcome, past), id, outcome)
       IN  m' = FlushQueue(AssignTasks([taken EXCEPT !.work[w] = NoTask, !.preproc = @ - 1]))
  /\ UNCHANGED <<conf, arrived, tests>>

\* Mutant: a test request waits for the next message to be assigned.
AddTestRequestLater(t) ==
  /\ tests[t] = "new"
  /\ tests' = [tests EXCEPT ![t] = "sent"]
  /\ m' = [m EXCEPT !.direct = Append(@, t)]
  /\ UNCHANGED <<conf, arrived>>

\* ZBX_IPC_PREPROCESSOR_TEST_REQUEST: preprocessor_add_test_request.
AddTestRequest(t) ==
  /\ tests[t] = "new"
  /\ tests' = [tests EXCEPT ![t] = "sent"]
  /\ m' = FlushQueue(AssignTasks([m EXCEPT !.direct = Append(@, t)]))
  /\ UNCHANGED <<conf, arrived>>

\* ZBX_IPC_PREPROCESSOR_TEST_RESULT: preprocessor_flush_test_result.  A client that
\* has left gets no answer.
FlushTestResult(w) ==
  /\ IsTest(m.work[w].task)
  /\ LET t == m.work[w].task
     IN  tests' = IF tests[t] = "sent" THEN [tests EXCEPT ![t] = "answered"] ELSE tests
  /\ m' = FlushQueue(AssignTasks([m EXCEPT !.work[w] = NoTask]))
  /\ UNCHANGED <<conf, arrived>>

\* Outside the manager: a client stops waiting (zbx_ipc_async_exchange has a timeout
\* of a minute), and the configuration of an item's steps changes.
ClientLeaves(t) ==
  /\ tests[t] = "sent"
  /\ tests' = [tests EXCEPT ![t] = "gone"]
  /\ UNCHANGED <<m, conf, arrived>>

ChangeSteps(i) ==
  /\ conf[i].ver < MaxChanges[i]
  /\ conf' = [conf EXCEPT ![i].ver = @ + 1]
  /\ UNCHANGED <<m, arrived, tests>>

\* preprocessor_init_manager; the configuration is read with the first values.
Init ==
  /\ conf = [i \in Items |-> [kind |-> Kinds[i], ver |-> 0]]
  /\ m = [line |-> <<>>, left |-> 0, request |-> [id \in Ids |-> None],
          direct |-> <<>>, registered |-> {}, work |-> [w \in Workers |-> NoTask],
          conf |-> conf, history |-> [i \in Items |-> None],
          linked |-> [i \in Items |-> None], tail |-> None, queued |-> 0, preproc |-> 0]
  /\ arrived = [i \in Direct |-> 0]
  /\ tests = [t \in Tests |-> "new"]

Next ==
  \/ \E i \in Direct, form \in Forms : AddRequest(i, form)
  \/ \E w \in Workers : RegisterWorker(w)
  \/ \E w \in Workers, outcome \in Outcomes : AddResult(w, outcome)
  \/ \E t \in Tests : AddTestRequest(t)
  \/ \E w \in Workers : FlushTestResult(w)
  \/ \E t \in Tests : ClientLeaves(t)
  \/ \E i \in Items : ChangeSteps(i)

\* Workers connect, and each finishes the task it was given: weak fairness of
\* RegisterWorker(w) and of the two answers, which stay enabled until they are taken.
Fairness ==
  \A w \in Workers :
    /\ []<>(w \in m.registered)
    /\ \A t \in Ids \cup Tests : []<>(m.work[w].task # t)

Spec == Init /\ [][Next]_vars

FairSpec == Spec /\ Fairness

-----------------------------------------------------------------------------
TypeOK ==
  /\ m \in Managers
  /\ conf \in [Items -> Steps]
  /\ arrived \in [Direct -> Nat]
  /\ tests \in [Tests -> {"new", "sent", "gone", "answered"}]

\* No history is lost between workers: what a worker was given for an item is still what the
\* cache holds when its answer comes, so no two answers start from one state.  A change of the
\* steps resets the history under the worker, and its answer brings the old one back.
HistoryNotForked ==
  \A w \in Workers :
    HasValue(w) /\ m.conf[m.work[w].task[1]] = [kind |-> "history", ver |-> 0]
      => m.history[m.work[w].task[1]] = m.work[w].past

\* The values that have not left, and only they, have a request; none stands twice in line; and
\* a list position the manager keeps is one of them.
LineMatches ==
  /\ m.left <= Len(m.line)
  /\ \A j, k \in DOMAIN m.line : m.line[j] = m.line[k] => j = k
  /\ \A k \in DOMAIN m.line : InQueue(m, m.line[k]) <=> k > m.left
  /\ \A id \in Ids : InQueue(m, id) => \E k \in DOMAIN m.line : m.line[k] = id
  /\ m.tail # None => InQueue(m, m.tail)

Awaits(id) ==
  InQueue(m, id) /\ ~InState(m, id, "DONE") /\ m.request[id].pending # None

\* Every value that waits for another one is awaited by exactly one value that is still to be
\* done, and what an item is linked to is the last of its chain.
EveryPendingIsReleased ==
  /\ \A id \in Ids :
       InState(m, id, "PENDING") <=>
         \E x \in Ids : Awaits(x) /\ m.request[x].pending = id
  /\ \A x \in {id \in Ids : Awaits(id)} : \A y \in Ids :
       Awaits(y) /\ m.request[x].pending = m.request[y].pending => x = y
  /\ \A i \in Items :
       m.linked[i] # None => /\ InQueue(m, m.linked[i]) /\ ~InState(m, m.linked[i], "DONE")
                             /\ m.request[m.linked[i]].pending = None

\* Between two messages no worker is idle while a value or a test could be given to it.
NoIdleWorker ==
  FreeWorkers(m) # {} => m.direct = <<>> /\ \A id \in Ids : ~InState(m, id, "QUEUED")

\* A preprocessed value never stays at the head of the queue between two messages.
DoneHeadLeaves ==
  ~QueueIsEmpty(m) /\ IsDone(m, m.left + 1) => ~m.request[m.line[m.left + 1]].supported

\* Each worker that is busy with a value holds a request that is in the queue, in processing,
\* and no other worker holds it.
OneWorkerPerValue ==
  \A w \in Workers :
    HasValue(w) => /\ InState(m, m.work[w].task, "PROCESSING")
                   /\ \A x \in Workers \ {w} : m.work[x].task # m.work[w].task

\* The values in the queue that a worker has still to answer for.
Unanswered(mm) ==
  {id \in Ids : InQueue(mm, id) /\ mm.request[id].supported /\ ~InState(mm, id, "DONE")}

\* The counters the manager reports and decides by: queued_num is the length of the queue,
\* preproc_num the number of values in it that a worker has still to answer for.
CountersMatch ==
  /\ m.queued = Len(m.line) - m.left
  /\ m.preproc = Cardinality(Unanswered(m))

\* The values of an item leave in the order in which they, or those of its master, came, and
\* none leaves twice.
FlushedInOrder ==
  \A j, k \in 1 .. m.left :
    j < k /\ m.line[j][1] = m.line[k][1] => m.line[j][2] < m.line[k][2]

\* The queue, the workers, the links between the values of an item and the counters say the
\* same: a request for every value that has not left, every value that waits awaited by one
\* still to be done, every busy worker with one value in processing, and the numbers reported
\* those of the queue.
QueueConsistent ==
  TypeOK /\ LineMatches /\ EveryPendingIsReleased /\ OneWorkerPerValue /\ CountersMatch

\* Between two messages nothing that could go on stays: no work beside a free worker, no
\* finished value at the head of the queue.
NothingWaits == NoIdleWorker /\ DoneHeadLeaves

\* Every value that came is preprocessed, however many internal values pass it.
EveryValueIsDone ==
  \A id \in Ids :
    (InQueue(m, id) /\ ~InState(m, id, "DONE")) ~> (~InQueue(m, id) \/ InState(m, id, "DONE"))

\* Every test request is answered unless its client leaves.
EveryTestIsAnswered == \A t \in Tests : tests[t] = "sent" ~> tests[t] \in {"answered", "gone"}

\* Whatever is sent to the manager, a value or a test request, is done in the end.
EverythingIsAnswered == EveryValueIsDone /\ EveryTestIsAnswered
=============================================================================
