------------------------------ MODULE MCDB4bix ------------------------------
(***************************************************************************)
(* Values for the constants of DB4bix: two servers, the one with a monitor *)
(* leaves the configuration and comes back.                                *)
(***************************************************************************)
EXTENDS DB4bix, TLC

CONSTANTS z1, z2, d1, item1, p1, q1, confA, noPool

m1 == [zabbixName |-> z2, dbName |-> d1, confItemid |-> item1, period |-> p1]

both == [zabbixes |-> z1 :> p1 @@ z2 :> p1, dbs |-> d1 :> confA,
         queries |-> m1 :> {q1}, updatePeriod |-> p1]

oneServer == [zabbixes |-> z1 :> p1, dbs |-> d1 :> confA,
              queries |-> EmptyFcn, updatePeriod |-> p1]

\* The [Pool.*] of the database left the file: the process ends when it reads it.
broken == [both EXCEPT !.dbs = d1 :> noPool]

MCMonitors == {m1}
MCConfs == {both, oneServer, broken}
=============================================================================
