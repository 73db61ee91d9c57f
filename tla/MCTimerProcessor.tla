-------------------------- MODULE MCTimerProcessor --------------------------
(***************************************************************************)
(* Values for the constants of TimerProcessor: two servers, two databases, *)
(* an item that changes its period (m1, m2) and one of the other server.   *)
(***************************************************************************)
EXTENDS TimerProcessor, TLC

CONSTANTS z1, z2, d1, d2, item1, item2, p1, p2, q1, q2, confA, confB, noPlugin, noPool

m1 == [zabbixName |-> z1, dbName |-> d1, confItemid |-> item1, period |-> p1]
m2 == [zabbixName |-> z1, dbName |-> d1, confItemid |-> item1, period |-> p2]
m3 == [zabbixName |-> z2, dbName |-> d2, confItemid |-> item2, period |-> p1]

\* Both servers; the database of m3 has no section.
both == [zabbixes     |-> z1 :> p1 @@ z2 :> p1,
         dbs          |-> d1 :> confA,
         queries      |-> m1 :> {q1} @@ m3 :> {q1},
         updatePeriod |-> p1]

\* The second server left, the item has two periods, the first database is
\* changed, the second one is there.
oneServer == [zabbixes     |-> z1 :> p2,
              dbs          |-> d1 :> confB @@ d2 :> confA,
              queries      |-> m1 :> {q1} @@ m2 :> {q1},
              updatePeriod |-> p2]

\* The section of d1 lost its plugin, that of d2 its [Pool.*], the item moved to m2.
badSection == [zabbixes     |-> z1 :> p1 @@ z2 :> p2,
               dbs          |-> d1 :> noPlugin @@ d2 :> noPool,
               queries      |-> m2 :> {q1} @@ m3 :> {q1},
               updatePeriod |-> p1]

\* No file: nothing is configured, updateConfigPeriod neither.
nothing == [zabbixes |-> EmptyFcn, dbs |-> EmptyFcn, queries |-> EmptyFcn,
            updatePeriod |-> NoPeriod]

MCMonitors == {m1, m2, m3}
MCConfs == {both, oneServer, badSection, nothing}
MCConfsLive == {both, oneServer, badSection}
=============================================================================
