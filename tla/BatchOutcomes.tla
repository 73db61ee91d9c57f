--------------------------- MODULE BatchOutcomes ---------------------------
(***************************************************************************)
(* What DB4bix promises of the results it stores: each batch is kept for   *)
(* the one server it belongs to, and then either that server receives it,  *)
(* once, or it is lost.  Nothing is sent again after it was received or    *)
(* lost, and no other server ever sees it.                                 *)
(***************************************************************************)
EXTENDS Integers, Sequences

CONSTANTS
  Zabbixes,     \* names of Zabbix servers
  MaxBatches    \* batches are numbered 1 .. MaxBatches

VARIABLES
  owner,      \* the server of each batch so far, in the order they came
  kept,       \* batches that may still be received
  received,   \* batch -> servers that received it
  lost        \* batches no server will receive

vars == <<owner, kept, received, lost>>

Init ==
  /\ owner = << >>
  /\ kept = {}
  /\ received = [b \in 1 .. MaxBatches |-> {}]
  /\ lost = {}

Accept(z) ==
  /\ owner' = Append(owner, z)
  /\ kept' = kept \cup {Len(owner) + 1}
  /\ UNCHANGED <<received, lost>>

\* One message brings the batches B to the server they all belong to.
Receive(z, B) ==
  /\ B \subseteq kept
  /\ \A b \in B : owner[b] = z
  /\ kept' = kept \ B
  /\ received' = [b \in 1 .. MaxBatches |->
                    IF b \in B THEN received[b] \cup {z} ELSE received[b]]
  /\ UNCHANGED <<owner, lost>>

Lose(B) ==
  /\ B \subseteq kept
  /\ kept' = kept \ B
  /\ lost' = lost \cup B
  /\ UNCHANGED <<owner, received>>

Next ==
  \/ \E z \in Zabbixes : Accept(z)
  \/ \E z \in Zabbixes, B \in SUBSET kept : Receive(z, B)
  \/ \E B \in SUBSET kept : Lose(B)

Spec == Init /\ [][Next]_vars
=============================================================================
