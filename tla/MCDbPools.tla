------------------------------ MODULE MCDbPools ------------------------------
(***************************************************************************)
(* One connector of each driver, in any order, and two queries.            *)
(***************************************************************************)
EXTENDS DbPools, TLC

CONSTANTS c1, c2, c3, c4

MCDriver == c1 :> "mssql" @@ c2 :> "mysql" @@ c3 :> "oracle" @@ c4 :> "postgres"
MCMax == c1 :> 1 @@ c2 :> 1 @@ c3 :> 2 @@ c4 :> 1
=============================================================================
