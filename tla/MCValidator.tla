---------------------------- MODULE MCValidator ----------------------------
(***************************************************************************)
(* Instances of Validator for TLC.                                         *)
(***************************************************************************)
EXTENDS Validator

I(a, v, p) == [amount |-> a, valid |-> v, prevout |-> p]

Good == I(2, TRUE, "unspent")
Bad  == I(1, FALSE, "unspent")
Pooled == I(1, TRUE, "mempool")
Spent == I(1, TRUE, "spent")
Lost == I(1, TRUE, "unknown")

\* No input; below and at the threshold of 2, the first with a negative fee; a
\* spent and an unknown output; two failures.
MCTxs ==
  {[ins |-> <<>>, out |-> 0],
   [ins |-> <<Good>>, out |-> 3],
   [ins |-> <<Pooled, Good>>, out |-> 2],
   [ins |-> <<Spent, Lost>>, out |-> 1],
   [ins |-> <<Bad, Bad>>, out |-> 1]}

\* Around the real threshold of 4.
MCLongTxs ==
  {[ins |-> <<Good, Good, Spent>>, out |-> 4],
   [ins |-> <<Good, Pooled, Good, Good>>, out |-> 3],
   [ins |-> <<Good, Bad, Good, Bad, Bad>>, out |-> 2]}

\* A transaction that spends a spent output, on a node with an index.
MCRespending == {[ins |-> <<Spent, Good>>, out |-> 1]}
=============================================================================
