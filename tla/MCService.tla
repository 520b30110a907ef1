------------------------------ MODULE MCService ------------------------------
(***************************************************************************)
(* Instances of Service for TLC.                                           *)
(***************************************************************************)
EXTENDS Service

I(a, v, p) == [amount |-> a, valid |-> v, prevout |-> p]

\* One transaction with a good witness and with a bad one, whose two inputs
\* are verified in parallel; a child of the node's mempool; and one whose
\* parent the node does not know.
Good == [ins |-> <<I(2, TRUE, "unspent"), I(3, TRUE, "unspent")>>, out |-> 1]
Forged == [ins |-> <<I(2, TRUE, "unspent"), I(3, FALSE, "unspent")>>, out |-> 1]
Child == [ins |-> <<I(4, TRUE, "mempool")>>, out |-> 3]

Orphan == [ins |-> <<I(4, TRUE, "unknown")>>, out |-> 3]

MCTxs == {Good, Forged, Child, Orphan}
MCTxid == [t \in MCTxs |-> CASE t = Child -> 2 [] t = Orphan -> 3 [] OTHER -> 1]
MCSize == [t \in MCTxs |-> IF t = Forged THEN 3 ELSE 2]
=============================================================================
