----------------------------- MODULE MCMempool -----------------------------
(***************************************************************************)
(* Instances of Mempool for TLC.                                           *)
(***************************************************************************)
EXTENDS Mempool

E(t, f, s) == [txid |-> t, fee |-> f, size |-> s]

\* Two witnesses of transaction 1, which rank it above and below
\* transaction 2; transaction 3 ties with 2 after rounding and loses on txid;
\* the fee of transaction 4 is negative.
MCEntries == {E(1, 4, 1), E(1, 4, 4), E(2, 4, 2), E(3, 5, 2), E(4, -1, 2)}
=============================================================================
