-------------------------- MODULE MCPreprocManager --------------------------
(***************************************************************************)
(* PreprocManager with an internal item that keeps history, has two values *)
(* and steps that change once, and two dependents, one that keeps history  *)
(* and one without steps; and a chain of dependents: a master without      *)
(* steps, an item behind it whose steps keep nothing, and one without steps *)
(* behind that.                                                            *)
(***************************************************************************)
EXTENDS PreprocManager

CONSTANTS internal, dependent, bare, leaf, twig, sprig

MCItems == {internal, dependent, bare, leaf, twig, sprig}
MCDirect == {internal, bare}
MCInternal == {internal}
MCDeps == [i \in MCItems |-> CASE i = internal -> <<dependent, sprig>>
                               [] i = bare -> <<leaf>>
                               [] i = leaf -> <<twig>>
                               [] OTHER -> <<>>]
MCKinds == [i \in MCItems |-> CASE i = leaf -> "plain"
                                [] i \in {bare, twig, sprig} -> "none"
                                [] OTHER -> "history"]
MCMaxValues == [i \in MCItems |-> IF i \in {internal, dependent, sprig} THEN 2 ELSE 1]
MCMaxChanges == [i \in MCItems |-> IF i = internal THEN 1 ELSE 0]
=============================================================================
