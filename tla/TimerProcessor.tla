--------------------------- MODULE TimerProcessor ---------------------------
(***************************************************************************)
(* The scheduler of DB4bix, libs/timerProcessor/index.js: one self-arming  *)
(* timer that renews the configuration (updatePeriodically), one for each  *)
(* monitor (query) and one for each Zabbix server (sendData), all in one   *)
(* registry, and the queries in flight at the databases.                   *)
(*                                                                         *)
(* Node runs a callback and the promise jobs it leaves to their end before *)
(* the next event, so a monitor or sender callback and its re-arming are   *)
(* one step.  Only updatePeriodically waits for the network: it is two     *)
(* steps, and any other event may come between them.  A query waits for    *)
(* its database: its start and its end are two steps as well.              *)
(***************************************************************************)
EXTENDS TimerRegistry

CONSTANTS
  Zabbixes,      \* names of Zabbix servers
  DBs,           \* names of databases
  Monitors,      \* records [zabbixName, dbName, confItemid, period]
  Queries,       \* queries a configuration item may hold
  Periods,       \* periods, seen as opaque values
  NoPeriod,      \* updateConfigPeriod is missing or no number
  MinPeriod,     \* the five seconds checkPeriod gives it then
  DbConfs,       \* contents a [DB.*] section may have
  BadDbConfs,    \* the ones whose type has no plugin
  BrokenDbConfs, \* the ones whose connector is made but rejects its init(),
                 \* as every plugin does when [Pool.*] is missing
  Confs,         \* what updateConfiguration may return, see ConfAssumption
  Generations,   \* names of the Configurator objects alive at once
  MaxTimerId,    \* no update is taken that would go past this timer id
  MaxAbandoned,  \* connectors dropped without close() are counted up to this
  CrashOnRejection  \* a rejected promise nobody handles ends the process, as
                    \* in the versions of Node the image node:lts has had

\* The functions from a subset of S to T.
PartialFcns(S, T) == UNION {[D -> T] : D \in SUBSET S}

(***************************************************************************)
(* A configuration: the period of each configured server and database      *)
(* section, the queries of each monitor and updateConfigPeriod.  A monitor *)
(* comes from the params of a configured server; its database need not be  *)
(* configured (updateConfiguration only checks the server's list of        *)
(* allowed names).  Every timer of a configuration item has a query.       *)
(***************************************************************************)
Configurations ==
  {c \in [zabbixes     : PartialFcns(Zabbixes, Periods),
          dbs          : PartialFcns(DBs, DbConfs),
          queries      : PartialFcns(Monitors, SUBSET Queries \ {{}}),
          updatePeriod : Periods \cup {NoPeriod}] :
     \A m \in DOMAIN c.queries : m.zabbixName \in DOMAIN c.zabbixes}

ConfigItems == {m.confItemid : m \in Monitors}

ASSUME ConfAssumption ==
  /\ Confs \subseteq Configurations
  /\ MinPeriod \in Periods /\ NoPeriod \notin Periods
  /\ BadDbConfs \subseteq DbConfs /\ BrokenDbConfs \subseteq DbConfs \ BadDbConfs
  /\ Monitors \subseteq [zabbixName : Zabbixes, dbName : DBs,
                         confItemid : ConfigItems, period : Periods]

ASSUME FiniteAssumption ==
  /\ IsFiniteSet(Zabbixes)
  /\ IsFiniteSet(Monitors)
  /\ Generations # {}
  /\ MaxAbandoned \in Nat /\ MaxTimerId \in Nat
  /\ CrashOnRejection \in BOOLEAN

VARIABLES
  timers,         \* this.timers: timer id -> handle
  armed,          \* the event loop's pending timeouts: handle -> timeout
  closurePeriod,  \* the period the closure of the update timer was made with
  updating,       \* handles of the update timer whose callback waits for a reply
  monitors,       \* this.monitors: monitor -> timerid
  senders,        \* this.senders: server -> [period, timerid]
  dbConnectors,   \* this.dbConnectors: database -> the conf it was made with
  abandoned,      \* database -> connectors that were dropped and not closed
  configurator,   \* this.configurator: [gen, conf]
  running,        \* the query objects whose status is "run"
  inFlight        \* query object -> executions the database has not settled

registryVars == <<timers, armed>>
configVars == <<closurePeriod, monitors, senders, dbConnectors, abandoned, configurator>>
queryVars == <<running, inFlight>>
vars == <<timers, armed, closurePeriod, updating, monitors, senders, dbConnectors,
          abandoned, configurator, running, inFlight>>

(***************************************************************************)
(* Timeouts.  The task tells which bound method setQuery calls; the period *)
(* is the one its timer has now (the first delay, five seconds for all, is *)
(* left out).                                                              *)
(***************************************************************************)
UpdateTask == <<"update">>
MonitorTask(m) == <<"monitor", m>>
SenderTask(z) == <<"sender", z>>

UpdateTimeout(p) == [task |-> UpdateTask, period |-> p]
MonitorTimeout(m) == [task |-> MonitorTask(m), period |-> m.period]
SenderTimeout(z, p) == [task |-> SenderTask(z), period |-> p]

Timeouts ==
  [task : {UpdateTask} \cup {MonitorTask(m) : m \in Monitors}
                       \cup {SenderTask(z) : z \in Zabbixes},
   period : Periods]

registry == [timers |-> timers, armed |-> armed]

\* The query objects, arr[i] in query(): each Configurator parses its own.
QueryObjects == [gen : Generations, monitor : Monitors, query : Queries]

conf == configurator.conf

EmptyFcn == [x \in {} |-> x]

\* checkPeriod of what getUpdatePeriod returned: setQuery's isNaN is left to NextPeriod.
CheckedPeriod(p) == IF p = NoPeriod THEN MinPeriod ELSE p

\* Mutant: the new period is checked whatever it is.
NextPeriodChecked(c) == CheckedPeriod(c.updatePeriod)

\* What setQuery sets the update timer with: the period it was made with when
\* the configuration has none.
NextPeriod(c) == IF c.updatePeriod = NoPeriod THEN closurePeriod ELSE c.updatePeriod

\* init() makes the update timer in an empty registry, so it gets id 0.
updateTimerId == 0

-----------------------------------------------------------------------------
\* What a configurator knows that has read its file c and asked no server.
Unread(c) == [zabbixes |-> EmptyFcn, dbs |-> EmptyFcn, queries |-> EmptyFcn,
              updatePeriod |-> c.updatePeriod]

FirstConfigurator(c) == [gen |-> CHOOSE g \in Generations : TRUE, conf |-> Unread(c)]

\* The update timer, created in an empty registry.
FirstRegistry(c) ==
  RegisterTimers([timers |-> EmptyFcn, armed |-> EmptyFcn],
                 [t \in {UpdateTimeout(CheckedPeriod(c.updatePeriod))} |-> updateTimerId])

(***************************************************************************)
(* init(): the first configurator has only read its file.  Its servers     *)
(* have no params and nothing of it is in use before the first update      *)
(* that succeeds, except updateConfigPeriod.                               *)
(***************************************************************************)
Init ==
  /\ \E c \in Confs :
       /\ timers = FirstRegistry(c).timers
       /\ armed = FirstRegistry(c).armed
       /\ configurator = FirstConfigurator(c)
       /\ closurePeriod = CheckedPeriod(c.updatePeriod)
  /\ updating = {}
  /\ monitors = EmptyFcn
  /\ senders = EmptyFcn
  /\ dbConnectors = EmptyFcn
  /\ abandoned = [d \in DBs |-> 0]
  /\ running = {}
  /\ inFlight = [e \in QueryObjects |-> 0]

SetRegistry(reg) ==
  /\ timers' = reg.timers
  /\ armed' = reg.armed

(***************************************************************************)
(* The process has ended, stopped from outside or by a rejection nobody    *)
(* handled (the connection mssql's init() waits for may fail at any time), *)
(* and is started again: init() with nothing in memory, and whatever the   *)
(* databases were asked is nobody's any more.                              *)
(***************************************************************************)
Restart ==
  /\ \E c \in Confs :
       /\ SetRegistry(FirstRegistry(c))
       /\ configurator' = FirstConfigurator(c)
       /\ closurePeriod' = CheckedPeriod(c.updatePeriod)
  /\ updating' = {} /\ running' = {}
  /\ monitors' = EmptyFcn /\ senders' = EmptyFcn /\ dbConnectors' = EmptyFcn
  /\ abandoned' = [d \in DBs |-> 0]
  /\ inFlight' = [e \in QueryObjects |-> 0]

-----------------------------------------------------------------------------
(***************************************************************************)
(* updatePeriodically().  Its timer fires, it makes a new Configurator and *)
(* asks every server for its configuration; until the answer the registry  *)
(* holds the spent handle.                                                 *)
(***************************************************************************)
UpdateStart(h) ==
  /\ armed[h].task = UpdateTask
  /\ SetRegistry(FireTimer(registry, h))
  /\ updating' = updating \cup {h}
  /\ UNCHANGED <<configVars, queryVars>>

\* Mutant: the error escapes and setQuery has no finally block.
UpdateFailNotRearmed(h) ==
  /\ updating' = updating \ {h}
  /\ UNCHANGED <<registryVars, configVars, queryVars>>

\* The file, a server or an answer was bad: the error is caught, the timer set.
UpdateFail(h) ==
  /\ updating' = updating \ {h}
  /\ SetRegistry(RearmTimer(registry, h.id, UpdateTimeout(NextPeriod(conf))))
  /\ UNCHANGED <<configVars, queryVars>>

\* Mutant: a connector is looked up by name only and never replaced.
ConnectorsByName(c) ==
  [d \in {d \in DOMAIN c.dbs : d \in DOMAIN dbConnectors \/ c.dbs[d] \notin BadDbConfs} |->
     IF d \in DOMAIN dbConnectors THEN dbConnectors[d] ELSE c.dbs[d]]

\* Mutant: a changed section drops the old connector before it makes the new one.
ConnectorsDropFirst(c) ==
  [d \in {d \in DOMAIN c.dbs : c.dbs[d] \notin BadDbConfs} |-> c.dbs[d]]

(***************************************************************************)
(* updateTargets: connectors of databases that left the configuration are  *)
(* dropped, then each section is registered.  A section that differs from  *)
(* the connector's replaces it; the constructor throws on an unknown type, *)
(* before anything is replaced, and the error is caught for that section.  *)
(* init() is not waited for: the connector of a broken section replaces    *)
(* the old one, and stays as long as its section is the same.              *)
(***************************************************************************)
UpdatedConnectors(c) ==
  [d \in {d \in DOMAIN c.dbs : d \in DOMAIN dbConnectors \/ c.dbs[d] \notin BadDbConfs} |->
     IF c.dbs[d] \in BadDbConfs THEN dbConnectors[d] ELSE c.dbs[d]]

\* The databases a connector is made for.
RegisteredDBs(c) ==
  {d \in DOMAIN c.dbs \cap DOMAIN UpdatedConnectors(c) :
     ~(d \in DOMAIN dbConnectors /\ dbConnectors[d] = UpdatedConnectors(c)[d])}

\* The init() of one of them is rejected before the update has ended.
InitRejected(c) == \E d \in RegisteredDBs(c) : c.dbs[d] \in BrokenDbConfs

\* No connector that is dropped or replaced is closed.
UpdatedAbandoned(c) ==
  LET kept == {d \in DOMAIN dbConnectors \cap DOMAIN UpdatedConnectors(c) :
                 UpdatedConnectors(c)[d] = dbConnectors[d]}
  IN  [d \in DBs |-> IF d \in DOMAIN dbConnectors \ kept /\ abandoned[d] < MaxAbandoned
                       THEN abandoned[d] + 1 ELSE abandoned[d]]

\* Mutant: no monitor is found again, as when the old record has one more key.
AddedMonitorsAll(c) == DOMAIN c.queries

(***************************************************************************)
(* updateMonitors: a monitor that is configured as before keeps its timer, *)
(* the others get new ones; then the timers of the rest are cancelled.     *)
(***************************************************************************)
AddedMonitors(c) == DOMAIN c.queries \ DOMAIN monitors
RemovedMonitors(c) == DOMAIN monitors \ DOMAIN c.queries

UpdateMonitors(reg, id, c) ==
  CancelTimers(RegisterTimers(reg, id), {monitors[m] : m \in RemovedMonitors(c)})

UpdatedMonitors(id, c) ==
  [m \in DOMAIN c.queries |->
     IF m \in AddedMonitors(c) THEN id[MonitorTimeout(m)] ELSE monitors[m]]

(***************************************************************************)
(* updateSendData.  A sender is found by its name: the comparison of       *)
(* sendDataPeriod compares a field that no sender has, undefined with      *)
(* undefined.  The record gets the new period, the timer stays.            *)
(***************************************************************************)
AddedSenders(c) == DOMAIN c.zabbixes \ DOMAIN senders
RemovedSenders(c) == DOMAIN senders \ DOMAIN c.zabbixes

UpdateSendData(reg, id, c) ==
  CancelTimers(RegisterTimers(reg, id), {senders[z].timerid : z \in RemovedSenders(c)})

UpdatedSenders(id, c) ==
  [z \in DOMAIN c.zabbixes |->
     [period  |-> c.zabbixes[z],
      timerid |-> IF z \in AddedSenders(c)
                  THEN id[SenderTimeout(z, c.zabbixes[z])] ELSE senders[z].timerid]]

\* Generations whose query objects nothing refers to any more.
FreeGenerations ==
  Generations \ ({configurator.gen} \cup {e.gen : e \in {x \in QueryObjects : inFlight[x] > 0}})

(***************************************************************************)
(* The configuration c has arrived.  updateTargets, updateMonitors and     *)
(* updateSendData run without a pause, then the configurator is replaced   *)
(* and the update timer is set with its period.  Query objects are the     *)
(* new configurator's, none of them "run".  Bounds: no more generations    *)
(* than Generations have a query in flight; no id exceeds MaxTimerId (ids  *)
(* may grow for ever: the new timers are made before the old are dropped). *)
(***************************************************************************)
UpdateFinish(h, c) ==
  /\ ~(CrashOnRejection /\ InitRejected(c))
  /\ FreeGenerations # {}
  /\ \E monitorId \in FreshIds(registry, {MonitorTimeout(m) : m \in AddedMonitors(c)}) :
       LET reg1 == UpdateMonitors(registry, monitorId, c)
       IN  \E senderId \in
             FreshIds(reg1, {SenderTimeout(z, c.zabbixes[z]) : z \in AddedSenders(c)}) :
             LET reg2 == UpdateSendData(reg1, senderId, c)
             IN  /\ DOMAIN reg2.timers \subseteq 0 .. MaxTimerId
                 /\ monitors' = UpdatedMonitors(monitorId, c)
                 /\ senders' = UpdatedSenders(senderId, c)
                 /\ SetRegistry(RearmTimer(reg2, h.id, UpdateTimeout(NextPeriod(c))))
  /\ dbConnectors' = UpdatedConnectors(c)
  /\ abandoned' = UpdatedAbandoned(c)
  /\ configurator' = [gen |-> CHOOSE g \in FreeGenerations : TRUE, conf |-> c]
  /\ updating' = updating \ {h}
  /\ UNCHANGED <<queryVars, closurePeriod>>

\* The same, when a connector it made rejects its init() and that ends the process.
UpdateKills(c) ==
  /\ CrashOnRejection /\ InitRejected(c)
  /\ Restart

-----------------------------------------------------------------------------
\* Mutant: the status is not looked at.
StartedRegardless(m) ==
  {e \in QueryObjects :
     /\ m.dbName \in DOMAIN dbConnectors
     /\ m \in DOMAIN conf.queries
     /\ e.gen = configurator.gen /\ e.monitor = m /\ e.query \in conf.queries[m]}

(***************************************************************************)
(* query(): a monitor's timer fires.  Without a connector, or when the     *)
(* configurator in force does not know the item, the error is caught and   *)
(* nothing starts.  Otherwise each of its queries that is not "run" starts.*)
(***************************************************************************)
StartedQueries(m) ==
  {e \in QueryObjects :
     /\ m.dbName \in DOMAIN dbConnectors
     /\ m \in DOMAIN conf.queries
     /\ e.gen = configurator.gen /\ e.monitor = m /\ e.query \in conf.queries[m]
     /\ e \notin running}

\* Mutant: without a connector the callback ends before the timer is set again.
FireMonitorOnce(h, m) ==
  /\ armed[h].task = MonitorTask(m)
  /\ running' = running \cup StartedQueries(m)
  /\ inFlight' = [e \in QueryObjects |->
                    IF e \in StartedQueries(m) THEN inFlight[e] + 1 ELSE inFlight[e]]
  /\ SetRegistry(IF m.dbName \in DOMAIN dbConnectors
                 THEN RearmTimer(FireTimer(registry, h), h.id, armed[h])
                 ELSE FireTimer(registry, h))
  /\ UNCHANGED <<configVars, updating>>

FireMonitor(h, m) ==
  /\ armed[h].task = MonitorTask(m)
  /\ running' = running \cup StartedQueries(m)
  /\ inFlight' = [e \in QueryObjects |->
                    IF e \in StartedQueries(m) THEN inFlight[e] + 1 ELSE inFlight[e]]
  /\ SetRegistry(RearmTimer(FireTimer(registry, h), h.id, armed[h]))
  /\ UNCHANGED <<configVars, updating>>

\* sendData() as far as the scheduler sees it: it never waits for a reply.
FireSender(h, z) ==
  /\ armed[h].task = SenderTask(z)
  /\ SetRegistry(RearmTimer(FireTimer(registry, h), h.id, armed[h]))
  /\ UNCHANGED <<configVars, queryVars, updating>>

\* Mutant: the status is left as it is, as when a failure skips the reset.
QueryDoneStillRun(e) ==
  /\ inFlight[e] > 0
  /\ inFlight' = [inFlight EXCEPT ![e] = @ - 1]
  /\ UNCHANGED <<registryVars, configVars, updating, running>>

\* The database has answered or failed; the finally block marks the object.
QueryDone(e) ==
  /\ inFlight[e] > 0
  /\ inFlight' = [inFlight EXCEPT ![e] = @ - 1]
  /\ running' = running \ {e}
  /\ UNCHANGED <<registryVars, configVars, updating>>

UpdateEnd(h) == UpdateFail(h) \/ \E c \in Confs : UpdateFinish(h, c) \/ UpdateKills(c)

Next ==
  \/ \E h \in DOMAIN armed :
       \/ UpdateStart(h)
       \/ \E m \in Monitors : FireMonitor(h, m)
       \/ \E z \in Zabbixes : FireSender(h, z)
  \/ \E h \in updating : UpdateEnd(h)
  \/ \E e \in QueryObjects : QueryDone(e)
  \/ Restart

Spec == Init /\ [][Next]_vars

(***************************************************************************)
(* The event loop fires every timeout that stays armed, and every request  *)
(* to a Zabbix server ends, by its own timeout if by nothing else.         *)
(* Databases owe nothing: a query may stay in flight for ever.             *)
(***************************************************************************)
Fairness ==
  /\ WF_vars(\E h \in DOMAIN armed : UpdateStart(h))
  /\ WF_vars(\E h \in updating : UpdateEnd(h))
  /\ \A m \in Monitors : WF_vars(\E h \in DOMAIN armed : FireMonitor(h, m))
  /\ \A z \in Zabbixes : WF_vars(\E h \in DOMAIN armed : FireSender(h, z))

FairSpec == Spec /\ Fairness

-----------------------------------------------------------------------------
(***************************************************************************)
(* Properties.                                                             *)
(***************************************************************************)

\* Every variable has its type.
TypeOK ==
  /\ timers \in [DOMAIN timers -> Handles] /\ DOMAIN timers \subseteq Nat
  /\ armed \in [DOMAIN armed -> Timeouts] /\ DOMAIN armed \subseteq Handles
  /\ closurePeriod \in Periods
  /\ updating \subseteq Handles
  /\ monitors \in [DOMAIN monitors -> Nat] /\ DOMAIN monitors \subseteq Monitors
  /\ senders \in [DOMAIN senders -> [period : Periods, timerid : Nat]]
  /\ DOMAIN senders \subseteq Zabbixes
  /\ dbConnectors \in [DOMAIN dbConnectors -> DbConfs] /\ DOMAIN dbConnectors \subseteq DBs
  /\ abandoned \in [DBs -> 0 .. MaxAbandoned]
  /\ configurator \in [gen : Generations, conf : Configurations]
  /\ running \subseteq QueryObjects
  /\ inFlight \in [QueryObjects -> Nat]

(***************************************************************************)
(* The registry holds the update timer and one timer for each monitor and  *)
(* each sender, under different ids, and nothing else.  cancelTimer relies *)
(* on it: it indexes this.timers with what findIndex returns, and throws   *)
(* halfway through an update when an id is missing.                        *)
(***************************************************************************)
TimersHaveOneOwner ==
  /\ DOMAIN timers = {updateTimerId} \cup Range(monitors)
                       \cup {senders[z].timerid : z \in DOMAIN senders}
  /\ IsInjective(monitors)
  /\ \A z1, z2 \in DOMAIN senders : senders[z1].timerid = senders[z2].timerid => z1 = z2
  /\ \A z \in DOMAIN senders : senders[z].timerid \notin Range(monitors) \cup {updateTimerId}
  /\ updateTimerId \notin Range(monitors)

(***************************************************************************)
(* Every entry refers to the one timeout armed for its owner, and no other *)
(* timeout is armed: no monitor fires twice in a period, none fires after  *)
(* it was removed, none is silent.  While updatePeriodically waits, its    *)
(* entry refers to a spent timeout and no second update can start.         *)
(***************************************************************************)
OneTimeoutPerTimer ==
  /\ \A h \in DOMAIN armed : h.id \in DOMAIN timers /\ timers[h.id] = h
  /\ \A m \in DOMAIN monitors :
       /\ timers[monitors[m]] \in DOMAIN armed
       /\ armed[timers[monitors[m]]] = MonitorTimeout(m)
  /\ \A z \in DOMAIN senders :
       /\ timers[senders[z].timerid] \in DOMAIN armed
       /\ armed[timers[senders[z].timerid]].task = SenderTask(z)
  /\ \/ updating = {timers[updateTimerId]} /\ timers[updateTimerId] \notin DOMAIN armed
     \/ /\ updating = {} /\ timers[updateTimerId] \in DOMAIN armed
        /\ armed[timers[updateTimerId]].task = UpdateTask

(***************************************************************************)
(* What runs is what the configurator in force says: its monitors, its     *)
(* servers and its database sections whose type is known.  A monitor that  *)
(* fires finds its queries in this.configurator.  The update timer has its *)
(* period or, when its file gives none, the one the process started with,  *)
(* never that of a configuration between the two.                          *)
(***************************************************************************)
ConfigurationInForce ==
  /\ DOMAIN monitors = DOMAIN conf.queries
  /\ DOMAIN senders = DOMAIN conf.zabbixes
  /\ \A z \in DOMAIN senders : senders[z].period = conf.zabbixes[z]
  /\ DOMAIN dbConnectors \subseteq DOMAIN conf.dbs
  /\ \A d \in DOMAIN conf.dbs : conf.dbs[d] \notin BadDbConfs =>
       d \in DOMAIN dbConnectors /\ dbConnectors[d] = conf.dbs[d]
  /\ updating = {} =>
       \/ armed[timers[updateTimerId]].period = conf.updatePeriod
       \/ conf.updatePeriod = NoPeriod /\ armed[timers[updateTimerId]].period = closurePeriod

\* A query object is "run" exactly while one execution of it is in flight: the
\* timer of a slow query does not start it again, and no answer leaves it "run".
StatusTellsInFlight ==
  \A e \in QueryObjects : inFlight[e] = IF e \in running THEN 1 ELSE 0

(***************************************************************************)
(* A new configuration does not disturb what it keeps: a monitor or server *)
(* in both keeps its id, and its pending timeout is neither dropped nor    *)
(* set again by updateMonitors or updateSendData.                          *)
(***************************************************************************)
KeptTimersUndisturbed ==
  [][ /\ \A m \in DOMAIN monitors \cap DOMAIN monitors' :
           /\ monitors'[m] = monitors[m]
           /\ updating' # updating =>
                timers'[monitors[m]] = timers[monitors[m]] /\ timers[monitors[m]] \in DOMAIN armed'
      /\ \A z \in DOMAIN senders \cap DOMAIN senders' :
           LET i == senders[z].timerid
           IN  /\ senders'[z].timerid = i
               /\ updating' # updating => timers'[i] = timers[i] /\ timers[i] \in DOMAIN armed'
    ]_vars

(***************************************************************************)
(* A database loses a connector that works only with its section, with the *)
(* process, or to a section of a known type that is broken.  A section     *)
(* whose type has no plugin costs it the new settings, and neither another *)
(* database's section nor a failed update costs it anything.               *)
(***************************************************************************)
ConnectorLostWithReason ==
  [][\A d \in DOMAIN dbConnectors :
       dbConnectors[d] \notin BrokenDbConfs =>
         \/ d \notin DOMAIN configurator'.conf.dbs
         \/ configurator'.conf.dbs[d] \in BrokenDbConfs
         \/ d \in DOMAIN dbConnectors' /\ dbConnectors'[d] \notin BrokenDbConfs]_vars

\* Updates go on for ever, whether they succeed or fail, and a monitor that stays configured
\* keeps firing, whatever they do meanwhile.
TimersGoOn ==
  /\ []<>(updating # {}) /\ []<>(updating = {})
  /\ \A m \in Monitors :
       <>[](m \in DOMAIN monitors) => []<><<\E h \in DOMAIN armed : FireMonitor(h, m)>>_vars

(***************************************************************************)
(* A query that stays configured and has a connector runs again and again, *)
(* provided the database settles its executions: neither an execution that *)
(* fails nor one of a replaced configuration leaves it "run" for good.     *)
(***************************************************************************)
Executions(m, q) == {e \in QueryObjects : e.monitor = m /\ e.query = q}

Runnable(m, q) ==
  /\ m \in DOMAIN conf.queries /\ q \in conf.queries[m]
  /\ m.dbName \in DOMAIN dbConnectors

QueriesGoOn ==
  \A m \in Monitors, q \in Queries :
    /\ <>[]Runnable(m, q)
    /\ []<>(\A e \in Executions(m, q) : inFlight[e] = 0)
    => []<>(\E e \in Executions(m, q) : inFlight[e] > 0)

\* The period in force of a server is the one its sender's timer runs with.
SenderPeriodApplied ==
  \A z \in DOMAIN senders : armed[timers[senders[z].timerid]].period = senders[z].period
=============================================================================
