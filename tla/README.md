# A TLA+ model of DB4bix

DB4bix is a Node.js process that acts as a Zabbix proxy for databases: it asks
one or more Zabbix servers for their configuration, runs the SQL queries found
in it periodically, and sends the results back. These modules model its core
logic, TLC checks them on small instances and TLAPS proves the main results for
all instances. Paths below are relative to the repository; "index.js" is
`libs/timerProcessor/index.js`.

## 1. The system

| Part | Code | State | Operations |
|---|---|---|---|
| Timer registry | index.js: `registerTimer`, `createTimer`, `setQuery`, `cancelTimer` | `this.timers`, an array of `{id, timer}`; the event loop's timeouts | make, re-arm, cancel; `checkPeriod` |
| Scheduler | index.js: `init`, `updatePeriodically`, `updateTargets`, `updateMonitors`, `updateSendData`, `query` | `monitors`, `senders`, `dbConnectors`, `configurator`, `status` of each query object | periodic update; a monitor's callback; the end of a query |
| Storage and delivery | index.js: `postProcessMonitoingData`, `sendData`; `storage.js` | `this.storage` | push, popAll, group by server, send |
| Protocol client | `libs/configurator/zabbixSender.js`, `utils/defer.js`, `utils/drain.js` | per call: a timer, a socket, promises | `requestConfig`, `sendHistoryData`, `send` |
| Configurator | `libs/configurator/index.js` | `zabbixes`, `dbs`, the file's content | request all servers, convert the answers |
| Result conversion | index.js: `convertToMonitoringData`, `produceKeyValueArray` | none | a table to item values |
| Preprocessing | index.js: `getPreprocessedItem`; `cache.js`; `preprocessor/binding.cpp`, `item_preproc.c`, `preproc_history.c` | history per item and step | the steps of an item, one after the other |
| Preprocessing manager and workers | `preprocessor/zabbix/.../preprocessor/`: `preproc_manager.c`, `preproc_worker.c`, `preprocessing.c`, `linked_list.c` | a queue, workers, history | beside the program: Zabbix's own processes round the same steps, not compiled by `binding.gyp` |
| Zabbix C library | `preprocessor/zabbix/.../zbxcommon/`: `misc.c`, `str.c`, `iprange.c`, `variant.c` | none | intervals, keys, macros, numbers, addresses, UTF-8 |
| Database plugins | `libs/dbs/index.js` and `db-plugins/` (mssql, mysql, postgres, oracle) | a connection pool each | `init`, `query`, `close` |

How they interact. Everything shares the fields of one `TimerProcessor` object
and one event loop. A timer of the registry calls `updatePeriodically`, `query`
or `sendData`. An update makes a new `Configurator`, waits for the answers of
all servers, then exchanges connectors, monitors and senders, and last
`this.configurator`. A query waits for its database, reads whatever
configurator is in force when it goes on, and pushes a batch into the storage.
A sender's timer empties the storage and starts one request per server, for
which nobody waits.

What is hard. There is one thread, so a callback runs undisturbed to its next
`await`; but between an `await` and its continuation anything may happen:
other timers, answers of databases that were asked under another
configuration, another send. Requests fail by error, timeout or a bad answer, and their
late events arrive when the call is over. Unhandled rejections end the process
(Node 15 and later; the Dockerfile takes `node:lts` and `docker-compose.yml`
starts the container again), and all state is in memory.

What makes each part correct:

* registry: an id has one owner; an owner has exactly one pending timeout; a
  cancelled timer stays silent; a delay is one that `setTimeout` accepts;
* scheduler: what runs is what the configuration in force says; an update
  does not disturb what it keeps; updates, monitors and queries go on for ever;
  a query does not run twice for one query object;
* delivery: no batch is dropped or sent twice by the process itself; none goes
  to another server; no batch is kept for ever;
* client: every call ends and releases its timer and socket;
* conversion: every enabled item of an enabled host is used with the macros of its
  own host; every query is under its period; every value of a row reaches the
  item it is meant for (as far as the code keeps what its documentation says: section 5);
* pools: a connection taken is given back on every path, and a pool that is open
  goes on executing queries, while init is not awaited and never tried again;
* preprocessing: throttling and differences see the last value of their step; a failure
  costs no more than its own step; the program does what Zabbix's worker does;
* manager: values of an item are preprocessed one after the other and leave in order,
  none waits for ever;
* library: the readers of one text agree, and what is written is what is read;
* configurator: the answers are assigned to the servers that gave them, never
  older than what is in force, and all of a round take effect or none.

The full list of hazards, with their lines and the properties that cover
them, is in `PROJECT.json`.

## 2. The modules

| Module | Models | Notes |
|---|---|---|
| `TimerRegistry` | the registry as a value `[timers, armed]` with pure operators | extended by `TimerProcessor` |
| `TimerProcessor` | the scheduler | `MCTimerProcessor` gives it values |
| `BatchOutcomes` | abstract: what becomes of a batch | implemented by `Delivery` |
| `Delivery` | storage, `sendData`, requests, network, crashes | |
| `ZabbixSender` | one call of `send()` as a state machine | instantiated by `ConfigRequests` |
| `ConfigRequests` | `getConfigsFromZabbix`, `Promise.all`, control flow of `updateConfiguration` | |
| `DB4bix` | `TimerProcessor` and `Delivery` joined, with restarts | `MCDB4bix` gives it values |
| `DbPools` | the connectors of a database and their pools | `MCDbPools` gives it values |
| `Variants`, `PreprocSteps` | values and single preprocessing steps | |
| `Preprocessing` | a worker, a test and the program over the same steps | `MCPreprocessing` gives it values |
| `PreprocManager` | the preprocessing manager, its workers and clients | `MCPreprocManager` gives it values |
| `Period` | `checkPeriod` and the delays given to `setTimeout` | |
| `Configurations` | from the servers' answers to the configuration | |
| `Results` | from rows to the values of items | |
| `Calendar`, `ItemSchedule` | local time; when an item is checked next | |
| `IntervalText` | the two parsers of update intervals | |
| `ItemIntervals` | from the text of an interval to the next check | `ItemSchedule` and `IntervalText` joined |
| `Texts`, `ItemKeys`, `Tokens` | trimming, splitting, quoting; item keys; macros, functions, numbers in texts | |
| `TextSteps`, `TextLists`, `Utf8` | preprocessing steps on texts, numbers and arrays; lists, lines and names; UTF-8 | |
| `Buffers` | texts that grow, are replaced and cut in memory | |
| `ErrorTexts`, `WorkerAnswers` | the worker's message about a failed step; what a worker sends back and what becomes of it | |
| `Markup` | texts in XML and JSON: what is taken from between tags, quoted and unquoted | |
| `IpRange` | addresses and ranges of addresses | |
| `LinkedList` | the list the manager keeps its queue in | |
| `Messages` | what the preprocessing processes send each other | |
| `MCAlgorithms` | asks all of the pure modules, from `Period` on, their questions | |
| `*Proofs` | theorems about the module they are named after | section 4 |

Operators commented "Mutant" are plausible faults of the definition that
follows them or that they name. The specifications do not use them; replacing
the definition by one of them makes the property named in `PROJECT.json` fail.

### TimerRegistry and TimerProcessor

`timers` maps an id to a handle, `armed` maps the handles the event loop will
still fire to `[task, period]`: the bound method that `setQuery` calls and the
period its closure keeps. A handle is an id with a small number, enough to tell
the spent `Timeout` object an entry may still refer to from the one set after
it. `NextId` is the "max id" strategy; `FreshIds` gives ids to the
successive `createTimer` calls of an update in any order, since the order of
monitors comes from a server.

A monitor's or sender's callback and its `finally` block are one step
(`FireMonitor`, `FireSender`): neither `query()` nor `sendData()` waits for
anything but promises that are already settled. `updatePeriodically` is two
steps, `UpdateStart` and `UpdateFail` or `UpdateFinish`; between them
its entry holds a spent handle. `UpdateFinish` is the whole continuation:
`updateTargets`, `updateMonitors`, `updateSendData`, the new configurator and the
re-armed update timer. The period that timer gets is that of the new file or, if it has
none (`NoPeriod`; index.js:252 sees NaN), the one its closure was made with
(`closurePeriod`), which later files never change. An execution of a query is `FireMonitor` and, some time
later or never, `QueryDone`.

A configuration is what the continuation reads: servers with their
`sendDataPeriod`, database sections, monitors with their queries,
`updateConfigPeriod`. A monitor is `[zabbixName, dbName, confItemid, period]`;
`hostid` is determined by `confItemid` and left out. A section of a database may be bad in two ways:
`BadDbConfs` name no known plugin, so `registerDB` throws and the old connector stays; `BrokenDbConfs` name one
but have no `[Pool.*]`, so a connector is made, replaces the old one, and its `init()`, for which nobody waits, is
rejected. What the rejection does is `CrashOnRejection`: nothing, or it ends the process
(`UpdateKills`, `Restart`). Query objects carry the
generation of their `Configurator`, since every configurator parses its own.

### Delivery and BatchOutcomes

A batch is the number of its push; `accepted[b]` is its sender
`[name, gen]`. `sendData` is one step: `popAll` swaps the array and the rest
runs in the same turn. A group uses the sender of its first batch, as the
`reduce` does. A request is "connecting" until it is written, then its
message is on the `wire`, where it is read or lost whatever the process
does afterwards. `SendFail` follows `CrashOnRejection`: the request's data is gone,
or the process is restarted with all it held. The contents of batches do not matter to
any property and are left out. `BatchOutcomes` has four variables
and three actions: accepted for a server, received by that server, lost. The
refinement mapping is `Outcomes` in `Delivery`.

### ZabbixSender and ConfigRequests

The state of a call is where it is suspended, its timer, its socket, the
reply and how its promise is settled. Each event of the timer or socket is
one step that includes everything that awaits the call: `Settled` is the
`finally` block, `Awaiters` the continuation of `Promise.all` and of
`updateConfiguration`. A reply is a version of a server's configuration;
`parseResponse` accepts or throws; the conversion throws for the versions in
`BadVersions`, which stands for everything that makes it throw (a server
without the expected tables, a macro on a host without macros). The
requests a failed round leaves behind stay alive in the next one.

### DB4bix

`Delivery` is instantiated with the servers that have a sender and the generation of the
configurator. `QueryAnswered` is `QueryDone` with a push,
`Send` is `FireSender` with `SendData`, `Update` is an update with
`Reconfigure`, `Crash` and `RequestFails` restart both. Configuration requests are reduced to an
update that fails or brings one of `Confs`, which `ConfigRequests` shows to be what they amount to.

### DbPools

One database and the connectors it gets one after the other. `Register` is `registerDB` with a new or changed
section: the instance is exchanged at once, with its pool open, on its way, or missing because `init` threw
(`InitMysql` and the others), and the old connector is dropped with whatever runs on it. `init` goes on by itself
(`InitEnds`, for mssql and oracle). Its failure leaves a connector without a pool, for good since nothing calls
`init` again, or ends the process (`ProcessEnds`), where nobody catches it. A query is `waiting` for a
connection, `holding` one, or `closing` it (oracle, whose release is an await of its own); what it ends with is
what `query()` returns: rows, an empty table (postgres after an error) or an exception. `held` counts
what the library thinks is taken, `leaked` the part of it whose release failed: oracle waits for its release, and an
error there is only logged. `Close` is the `close()` of each plugin, which nothing calls so far; it is an action
so that the pools are right if something does.

### Preprocessing and PreprocManager

A value is a `Variant`: none, an integer, a float, a text, bytes. `PreprocSteps` has one operator for each step; the steps
that search a text with an expression (JSONPath, XPath, regular expressions, scripts) share one outcome,
extracted or not. `Preprocessing` runs three things on the same sequence of values: `Execute`, the loop of `preproc_worker.c` with its history; `Test`,
`zbx_item_preproc_test`; and `GetPreprocessedItem`, the program's loop with its cache of texts round the native binding.
A number is a count of 1/`Unit`; `Grain` of these are the millionth to which `variant.c` prints and compares doubles, so a text keeps
less than its number (`Printed`), and so does every step of the program, whose binding returns a text each time. `Blank` is the empty text, which the
binding takes for no history.
`Gaps` are the seconds between values, `Garbage` what is read from memory that holds no number, `Words` the texts that are no
numbers. The loops over the steps are recursive functions on `0 .. Len(steps)`.

`PreprocessingAssumption` asks no more than types: values are texts, steps have the fields of their table, a value or an error
that replaces another is a text, and the error a word, since the model tells an error from none by its word. `OutOfRange` says what a double becomes that no uint64 can hold: C leaves that open,
x86-64 wraps a negative one around and makes 0 of one too large, AArch64 takes the nearest (`Outside`).

`PreprocManager` keeps the manager's state in one record `m`; an action is one message, with everything
`preprocessing_manager_thread` does before it waits again: the request is queued, tasks are assigned, the
queue is flushed. An id is an item and the number of its value. The queue is the part of `line`
behind the first `left` ids, so that what has left can still be seen; a request `[supported, set, pending, steps, state]`
belongs to every id in the queue, `None` to the others. `linked` and `tail` are the manager's item and list positions,
`queued` and `preproc` its counters. The history that comes back with a value is that of the value; if the value failed or was discarded it may
be missing, as it depends on whether the step that keeps it comes before (`HistoriesAfter`). `MaxValues` and `MaxChanges` bound what comes from outside.
The loops of the code over the queue, the dependents and the workers are recursive functions on an interval.

Two assumptions limit the configurations. `MasterAssumption`: the dependencies are those of a Zabbix
configuration, in which each item has at most one master. `NestingAssumption`: a dependent without steps has no dependents
itself. With one, `preprocessor_enqueue_dependent` calls itself in the middle of its loop, the inner call flushes the queue, and the
master that the outer one goes on to put dependents behind may have been freed. The model has no
freed memory, so such configurations are excluded; section 5 lists the case.

### The pure modules

Each ends with a section "What they are for": statements about its operators that a run checks for many inputs.
A text is a sequence of the characters or tokens that its readers tell apart, so that a reader's every test is there, and
nothing else. Where a reader walks over a text with an index, the model has the index or the position it stops at
(`KeyEnd`, `SegmentEnd`); buffers, allocation and logging are left out.

* `Configurations`: tables are rows of cells with the names of their columns. `Converted` is the
  whole of `updateConfiguration` after the answers came. `Parsed` stands for the XML parser.
* `Results`: `ConvertToMonitoringData`, and `RowOf` for what becomes of a row in the drivers.
* `ItemSchedule`: `calculate_item_nextcheck` with flexible and scheduling intervals; `Calendar` gives it the
  local time of a zone with two changes of daylight saving time.
* `IntervalText`: `zbx_interval_preproc` and `zbx_validate_interval` on the same texts.
* `Messages`: fields are packed into and unpacked from a sequence of cells; `Flush` cuts the cached values into messages.

## 3. The runs

| Run | Checks | Result |
|---|---|---|
| `scheduler` | `TimersHaveOneOwner`, `OneTimeoutPerTimer`, `ConfigurationInForce`, `StatusTellsInFlight`, `KeptTimersUndisturbed`, `ConnectorLostWithReason` | holds |
| `scheduler_live` | `TimersGoOn`, `QueriesGoOn` | holds |
| `delivery` | `OnePlace`, `RightServer`, `OutcomesSpec` | holds |
| `config_requests` | `AnswersMatchServers`, `NothingLeaks`, `NeverOlder`, `AllOrNothing`, `UpdatesEnd` | holds |
| `system` | `DeliveryImplemented`, `EveryBatchSettled` | holds |
| `pools` | `ConnectionsAreReturned`, `PoolsGoOn` | holds |
| `preprocessing` | `WorkerIsSound`, `TestAgreesWithWorker`, `ProgramAgreesWithWorker` | holds |
| `manager` | `HistoryNotForked`, `QueueConsistent`, `NothingWaits`, `FlushedInOrder`, `EverythingIsAnswered` | holds |
| `algorithms` | `DelaysAreSound`, `ConfigurationsAreConverted`, `ResultsAreConverted`, `ChecksAreDue`, `IntervalsAreRead`, `TextsAreRead`, `TokensAreFound`, `RangesAgree`, `StepsReadTexts`, `ContainersAgree`, `MessagesArrive` | holds |
| `sender_period` | `SenderPeriodApplied` (README.md:221) | violated |
| `resend` | `FailedSendIsKept` (comment at index.js:280) | violated |
| `suppressed_is_sent` | `SuppressedIsNotSent` (comment at item_preproc.c:1525) | violated |

The violated ones are disagreements of the code with its documentation:

* `sender_period`: `updateSendData` compares the field `sendDataPeriod`, senders
  have `period`; a changed period never reaches the timer.
* `resend`: `sendHistoryData` is not awaited, so the block that would put the
  data back never runs.
* `suppressed_is_sent`: the binding returns a text of its own when a step leaves no value, and the
  program sends it as the value of the item.

### What the properties of `algorithms` say

| Property | States |
|---|---|
| `DelaysAreSound` | no timer is set with a delay that `setTimeout` does not take; a period that fits is kept |
| `ConfigurationsAreConverted` | if the macros of the items in use are all defined on their own hosts, the update goes through: each server gets exactly the enabled items of enabled hosts of its own answer, macros replaced by those of their host; the configuration items among them that name an allowed database and have queries become queries under their periods |
| `ResultsAreConverted` | every cell reaches the item its key names, once and in order, whatever is missing or too much; for lists, if keys are in small letters in the attribute `items` and names are not NULL; columns with names that differ and are no numbers keep their places |
| `ChecksAreDue` | the next check is the first instant after now that a scheduling interval or the delay in force makes due (reference: the seconds of a horizon, gone through one after the other), whatever change of daylight saving time the static `time_dst` kept from an earlier call; the same from an interval's text, whatever the order of its parts |
| `IntervalsAreRead` | what the validation of an interval accepts is what its parser accepts |
| `TextsAreRead` | readers of key parameters agree; quoting is undone; UTF-8 is judged as in the Unicode table and cut between characters; lists, lines, names are what was written |
| `TokensAreFound` | macros, numbers and functions are found where a definition of their syntax has them |
| `RangesAgree` | a range has the same addresses gone through, counted, searched and read singly |
| `StepsReadTexts` | numbers, trimming and CSV to JSON for each notation their parameters allow; the message of a failed step fits its column and shows the value, the failed step and as many of the last steps before it as there is room for |
| `ContainersAgree` | the sorted array is a set, the linked list with its iterator a sequence; a buffer is the text put together in it with its zero, within its memory |
| `MessagesArrive` | unpacking gives what was packed, none never becomes empty; no value is lost or doubled by the cut into messages |

### Bounds and why they are enough

* `scheduler`: two servers, two databases, three monitors (an item that changes its period
  and one of the other server), four configurations that add, remove and
  change each kind of thing, one of them empty and without `updateConfigPeriod`, one with a section
  of an unknown type and one without its `[Pool.*]`. `MaxTimerId = 8` lets several updates
  follow one another, so that ids are given, dropped and given again;
  `MaxHandleNo = 2` never runs out (three handles per id, at most
  two in use). `Generations = {1, 2}`: queries of the previous configuration are in
  flight with those of the current one. `MaxAbandoned = 0` is a cap of a counter.
* `scheduler_live`: two configurations and `MaxTimerId = 6`, since liveness costs more.
  When the bound stops ids from growing, an update can still fail or bring a configuration that needs no
  new id, so the properties are not kept by the bound.
* `delivery`: three batches of two servers, two configurator generations: two batches of one server with
  one of the other between them, requests that overlap.
* `config_requests`: two servers, two rounds alive (the second one with the leftovers of the
  first), three versions of each configuration, the middle one not convertible.
* `system`: one monitor, whose server leaves and comes back, one batch, restarts at any time.
* `pools`: a connector of each driver, limits of one and two connections, two queries; names of connectors
  that are out of use serve again, so replacement never ends; inits, releases and the process may fail at any time.
* `preprocessing`: three values, which is one more than a step remembers, with all changes between integers, fractions and
  words, an empty text among them, a change of the steps at any point; fractions that are printed and finer ones that are not (`Unit = 4`,
  `Grain = 2`); an unsigned integer of `MaxUint = 5` and multipliers of 2 and more, so
  that differences and products overflow.
* `manager`: two workers, since two answers of one item need two; six items: with history and without steps, from outside,
  internal, and dependent on these, so that every branch of `preprocessor_enqueue` is taken; an internal item with two
  values, so that one waits for the other, and whose steps change once; one test request.
* `algorithms`: texts of all combinations of the characters a reader tells apart, up to the length at which
  each of its branches has been taken with something before and behind it (three to six), or built of larger parts; dates round
  the ends of months, the leap day and both changes of daylight saving time; integers of 6 bits for `Period`.
  Constants of the code that would need long texts are scaled down in `MCAlgorithms.cfg` (`MaxHostname`, `HexDigits`, `ErrorLen`, ...).

`manager`, `preprocessing` and `algorithms` do not check deadlock: their instances end when all values came, and a
question has no next state. In the others something can always happen.

### Fairness

* Timers (`UpdateStart`, `FireMonitor`, `FireSender`, `Send`, the timeout of a request): weak
  fairness; the event loop fires every timeout that stays armed.
* `UpdateEnd` and the end of a history request: weak fairness; `send()` ends by its own timeout
  if by nothing else, which `ConfigRequests` checks with fairness of the timeout alone.
* A written request is read or its connection breaks: TCP.
* Databases, servers and administrators owe nothing. `QueriesGoOn` assumes
  in its antecedent that the database settles the executions of the query.
* `EveryBatchSettled` needs fair sender timers and takes them from the timer registry. Its antecedent is that
  some server stays configured: with no sender there is nobody to send what is left.
* `DbPools`: queries start again (timers), a waiting call gets a connection or times out (the libraries'
  timeouts), a query on a connection ends. `Acquire` is strongly fair: a database that can be reached gives
  connections again and again while its pool has some; without that a pool may time every call out. The
  mysql, mssql and oracle drivers set no timeout for statements: that a query ends is the database's doing.
* `PreprocManager`: workers connect and answer. It is written with `[]<>` of the states these steps lead to, which is
  weak fairness here, since each is enabled until it is taken, and cheaper to check.

## 4. The proofs

All theorems hold for arbitrary constants that satisfy the named assumptions
of the modules: finite sets of servers and monitors (a configuration is
a file and an answer), at least one generation, natural bounds, ordered delays.

* `TimerProcessorProofs`: first what each operator of the registry preserves and
  returns. `RegistryOK` says that entries are handles of their own id, that only
  registered handles are armed and that ids are bounded (so that `NextId` exists);
  `NewHandleIsNew`, `FreshIdsOK`, `ReplaceTimersOK` and `FireAndRearmOK` are what the rest uses. `Inv` is `RegistryOK` with `TypeOK`, `TimersHaveOneOwner`,
  `OneTimeoutPerTimer` and `ConfigurationInForce`. None of these is inductive without `RegistryOK`: only a
  well-formed registry guarantees a new handle and a new id. An update is proved in two halves,
  each handing the registry from one set of owners to the next (`OwnedBy`), with the update timer
  spent meanwhile. Theorems: `TypesHold`, `OwnersHold` (hence `cancelTimer` never
  throws), `TimeoutsHold`, `StatusHolds`, `ConfigurationHolds` (after every step monitors, senders and connectors are those of
  the configuration in force), and for every step `KeptTimersHold` and `ConnectorsKept`: an update leaves the timers of what
  it keeps, and a connector that works is lost only with its section, with the process, or to a section that is broken
  (`ConnectorLostWithReason`). Both values of `CrashOnRejection` are covered.
* `DeliveryProofs`: `DeliveryInv` joins types, places and servers, because a
  request may be moved only if no other holds one of its batches. Theorems:
  `BatchesHaveOnePlace`, `BatchesReachTheirServer`, `DeliveryRefinesOutcomes` (every step is a step of `BatchOutcomes` or none).
* `ConfigRequestsProofs`: the invariant adds that a reply of the round under way is no older than
  what is in force (`RepliesTrue`), true because its request started after the previous update
  ended, and that a resolved promise has a reply. Theorems: `NoRequestLeaks`, `ConfigurationsMatch`, `ConfigurationsNeverOlder`,
  `UpdatesTakeAll` (`AllOrNothing`, a property of steps).
* `PeriodProofs`: `DelaysInRange`, `FittingPeriodsKept` and both together, `DelaysSound`, for every integer width.
* `DbPoolsProofs`: `Inv` adds to types and counts that a query is on a connector exactly while it is under way: without that a release could
  be counted at no connector, and leaves room for releases that failed. One lemma for a release, whatever driver it belongs to. Theorem: `ConnectionsReturned`.
* `DB4bixProofs`: a restart re-establishes `Inv`; every step of the process is a step of
  `Delivery` or leaves its variables alone. Theorems: `SystemDelivers`,
  `SystemOwnersHold` (with `ConfigurationInForce`, over restarts), and `SystemKeepsBatches`, which carries the theorems of
  `Delivery` over.

* `PreprocManagerProofs`: the safety of the manager, for any items, dependencies, workers and numbers of values. See below.
* `PreprocessingProofs`: what the worker remembers is enough, for any steps, values and times. See below.

### The invariant of the manager

None of the four properties is inductive. `IInv` is, TLC checked it on the instance of `manager` before it was
proved. Between two messages it says, besides the properties:

* `Line`: line, requests and `queued` match. `Came`: what is in line came from outside or behind a master that is done; so
  the dependents of a value are never in line when it is answered, and each enters once.
* `Ordered`: any two values of one root (the item from outside that an item depends on) stand in line in the order
  in which they came. Order within an item alone is not inductive: a dependent is placed behind its
  master, so the masters' order decides. It also says that internal values in the queue stand before `tail`.
* `Chained`: the pending values of an item with history form one chain, from the one value that is not pending to
  the one the item is linked to. To see that a finished value releases exactly one, and that the last of a chain is not
  lost, the chain must not go round in a circle; a rank for each value says so.
* `Sound`: only items from outside have unsupported values that are not done, and only history makes a value wait.
* `Counted`, `Worked`: `preproc` counts the values workers still answer for; each busy worker has its own, and
  the history it was sent is the one in the cache, if the steps never changed. The chain makes the other workers' values
  be of other items when an answer overwrites the cache.
* `Current`: the steps the manager knows are no newer than those configured.

`Good` joins these parts but leaves out the answer that is being handled: `preprocessor_add_result` sets the request done first, frees the
worker and corrects the counter only after dependents have been queued, tasks assigned and the queue flushed once.
Each helper has a lemma that it keeps `Good`; that a recursive function on an interval exists and stays where its steps stay
is one lemma, `Iteration`, by well-founded induction on the numbers.

Theorems: `InvariantHolds`, `HistoriesHold`, `QueueHolds`, `NothingIsLeftWaiting`, `KeptLeaveInOrder` and
`ValuesLeaveInOrder`. The last has a hypothesis: no item depends, through its chain of masters, on an internal item without
steps (`Bare`). Without it `FlushedInOrder` is false, and TLC shows it on an instance with such an item: its dependents are
queued at the end, since their master never enters the queue, and the next internal value brings its own
dependents to the front. `KeptLeaveInOrder` is the part that holds without the hypothesis.

### The invariant of the worker

`WorkerInv` has five parts, each proved to be kept given the first:

* `TypeInv`: what goes in and out of steps and what they remember. A uint64 is in range whatever steps it
  went through, only texts have words, differences remember numbers (`Values`, `Fits`, `Sound`). Each step has a lemma that it keeps these;
  `StepIs` and `HandledIs` join them, `RoundIs` carries them through a round of the loop.
* `ThrottleInv`: what a throttle remembers is the last value, and, with a period, the time of the last one let through. This
  is what `ThrottleEmitsChanges` does not say and needs.
* `DifferenceInv`: the step remembers what the last number counts as after the multipliers before it, whether or not a difference was
  emitted, and each difference emitted is the one from the value before. Adding up over a stretch is then
  an induction over the stretch (`DifferenceHolds`).
* `HandledNeverFails`, `TestAgreesWithWorker`: about one value each, proved by following two runs step by step. `TestIsExecute` needs that the memory in which they
  differ, that of a failed step, is read by no later step of the run.

That a loop over the steps has a run (a recursive function exists) is `LoopExists`, by well-founded induction on the
numbers; facts about a run go up from each step to the next with `Upwards`. Theorems: `WorkerSound` and `TestAgrees`.

`DifferencesAddUp` speaks of numbers only, and for an unsigned item of counts that are not negative: without these hypotheses, which hold of the
instance's values by themselves, it is false, since what is remembered of a number that an unsigned item cannot hold is a float, and
the next difference is taken from a cut one.

### The program beside the worker

`ProgramAgreesWithWorker` relates two histories of different form: the worker remembers what a step made of the last
value, the program the text that went into it, and it throws at the first step that needs history and has none. `ProgramInv` adds to it, as
long as the steps are the first ones:

* `HistoryAt`: the steps that lack history are the last ones that need it (`Closed`), and each value has given one more step
  what it lacked, so that their number and the number of values add up to no more than `HistorySteps`. This is why a step costs one
  value and no more.
* `MemoriesMatch`: if nothing failed, nothing was dropped and nothing was lost in a text so far (`Regular`: `Smooth`, `Whole`, `NeverBlank`),
  then what the worker remembers of a step that has history is what the step would make of the program's text again (`Alike`).

`Same` says when a text of the program stands for a value of the worker, and is what each step hands on: `StepsAgree` for one step, error handlers
included by `BindingAgrees`, `RunsAgree` for all of them up to the one at which the program throws. `WorkerReaches` shows that the worker has gone
as far as the program; this is where `Smooth` may let the first value be dropped by a difference. `MemoriesAfter` closes the circle. Theorem: `ProgramAgrees`.

The hypotheses of `ProgramAgreesWithWorker` are what the code needs, each shown by TLC to be needed. `Whole`: after every step the binding prints a double with six
decimals and reads it again (variant.c:222, binding.cpp:239), so only the last step may make finer fractions, and what is compared is the worker's value after printing; and a
fraction of an unsigned item is a float in the worker and a text in the program, and only the float converts. `NeverBlank`: an empty text in the history
makes the binding throw (binding.cpp:165), at the cost of a value for each step with history.

### Model-checked only

Everything about liveness (`TimersGoOn`, `QueriesGoOn`, `UpdatesEnd`, `EveryBatchSettled`, `PoolsGoOn`,
`EverythingIsAnswered`), since the prover does not handle liveness under fairness or ENABLED; and what the pure modules compute
for every input, which are recursive operators over texts.

## 5. Seen while modelling

The models follow the code in all of these; no run is devoted to them.

In the program, against its documentation or comments:

* Macros are those of the host only: README.md:23 and README.md:345 promise those of its templates too (a TODO at `configurator/index.js:159`). A macro the host
  lacks is left as it is, as line 208 means it; on a host without any macro it throws (line 204), and the update of all
  servers with it. `ConfigurationsAreConverted` says nothing of answers with such items.
* Queries of type list need `items`, although README.md:465 calls `item` the same: with `item` every execution throws (index.js:502). Their keys must be written in
  small letters, since names of rows are made small and keys are not (index.js:505); README.md:479 does not say so, and a key with capitals
  never gets its value. A NULL for a name ends the execution. `ResultsAreConverted` is about the other lists.
* `nodata` (README.md:483) is read by nothing.
* README.md:173 calls the servers independent. `Promise.all` makes one server's failed configuration everybody's; and under `node:lts`, which the Dockerfile takes, one failed
  send ends the process (index.js:277) and with it the stored batches of all servers. No property says that a failure stays with its server: the code does not keep it.
* A section with a type but without its `[Pool.*]` replaces a connector that works, and its `init` fails (index.js:58, mysql.js:24, postgres.js:21, mssql.js:25).
  Under `node:lts` that ends the process, which reads the same file when it is started again, and so on until the file is mended.
* After a first file without `updateConfigPeriod` the period is 5 s; a later file without it brings back the period the update timer was made with, not the one in force (index.js:252).
* An infinite period becomes 5 s, not the 60 s of the comment (index.js:231-233); the random first delay is never taken (index.js:256).
* A replaced or dropped connector is never closed, so a database may have more connections than README.md:306 says.

In the program otherwise:

* `sendData` ignores the server it is bound to, so every server's timer sends everything (index.js:160, 262).
* The columns of an answer are read as if they stood in the order in which the program names them, and by the offsets of the first server (configurator/index.js:261, 275):
  `ConfigurationsAreConverted` assumes that order (`InOrder`).
* `init` of a connector is not awaited and never tried again: a database that was away for a moment is not asked until its section changes (mssql: or the process is
  started again). A connection whose release fails may stay taken (oracle).
* `close()` of mysql throws before it resets the pool; that of oracle before `createPool` is through leaves the pool to open later. The
  postgres driver turns errors into empty tables.
* `str.replace` honours dollar patterns in the values of macros and replaces the first occurrence only; cells inserted
  for `%n` may contain `%n` themselves, and a NULL becomes "null" in a key.
* Columns of one name collapse and columns with numbers for names come first (`RowKept` says when not); of equal keys in a row one value is lost.
* The history cache keeps texts, by item and position, and is reset only when the number of steps changes; a step that fails or
  discards costs the steps behind it their history, and an empty text counts as none. Numbers go from step to step with six decimals. After a fraction the next difference of an item that is not a float
  is taken from the bytes of a pointer (`Garbage`); `ProgramAgreesWithWorker` excludes that and the time after such a change of steps.
  Heartbeats restart with every suppressed value in the program.
* Queries of the old and the new configuration may run at once, and requests of successive sends overlap: values carry their clocks, and nothing in the code
  orders them otherwise.

In the Zabbix code beside it:

* A worker's answer stores history of steps that have changed meanwhile, after the reset of preproc_manager.c:178: the line that stores it, preproc_manager.c:1005, does not ask for which steps
  (`HistoryNotForked` excludes it). A change also leaves queued values unlinked.
* Doubles are compared with a tolerance of a millionth to the last value, so a value that drifts slowly enough never leaves a throttle.
* A test ends with the value of its last step; the conversion to the item's type, which a worker's value goes through, is left out (preproc_worker.c:393).
* Dependents of an internal item without steps do not leave in the order of their master's values if their steps keep some of them in the
  queue: the master goes straight to the history cache, so its dependents are queued behind nothing, and those of the next value may
  stand before them (`ValuesLeaveInOrder` excludes it).
* `preprocessor_enqueue_dependent`: with a dependent without steps that has dependents itself, the inner call flushes the queue and
  may free the master that the next dependent is put behind (`NestingAssumption` excludes it).
* `preprocessor_register_worker` does not flush; what it sets done is unsupported and leaves with the next message.
* `item_preproc_get_error_from_json` reads the text of a value before the value is converted to one.
* `xml_get_data_dyn` finds nothing if a closing tag of the name stands before the opening one.
* The steps that extract an error fail, although their comments say they succeed with the error set.
* Scheduling by month days uses `tm_year + 1970` for leap years; filters whose ranges overlap may skip values.
* `zbx_is_utf8` and `zbx_replace_invalid_utf8` refuse U+1D800 to U+1DFFF, and the same in the planes above, as surrogates (`Mistaken`).
* `zbx_strcmp_natural` skips the character behind two equal numbers; `is_ip6` accepts incomplete addresses; an address range ignores what follows its last
  group; a context that ends with a backslash does not survive quoting; `int_in_list` takes an empty entry for 0;
  `remove_param` knows no arrays.

## 6. Not modelled

* The parsers of XML and JSON and the header of the protocol; logging; the configuration file's syntax; templates; the loading of plugins at start.
* `convertTo*` of `zabbixSender.js`, which renames fields.
* `item_preproc.c`: what JSONPath, XPath, regular expressions and Prometheus patterns find (`Markup` takes it as an argument).
* `str.c`, `misc.c`: conversion between character sets, allocation, output, process titles, time zones other than the one of `Calendar`, numbers
  of more than the bounds of TLC's integers.
* The connection between the preprocessing processes (sockets) and the start of `preproc_worker.c`.
* `zbxsysinfo` and the remaining vendored Zabbix code: `binding.gyp` does not compile it, and nothing modelled here uses it.
* Methods nobody calls: `cancelAllTimers`, `prepareToMonitor`, `prepareToSendData`, `createMonitorTimer`.

## 7. Plan

Done, in this order: registry and scheduler; delivery with its abstract specification; requests;
periods; the joined process; their proofs; preprocessing; the manager; the readers and writers of the library; conversion of configurations and results; pools and their proof.

Then the proofs of `ConfigurationInForce`, `KeptTimersUndisturbed`, `ConnectorLostWithReason`, `AllOrNothing`, of the manager, of the worker, and of the program beside it.

Next:

1. `DB4bix`: `ConfigRequests` shown to implement the update of `TimerProcessor`, with `Converted` for its outcomes.
2. Proofs: the list and the messages of the preprocessing processes.
