--------------------------- MODULE MCBlockAssembly ---------------------------
(***************************************************************************)
(* Instances of BlockAssembly for TLC.                                     *)
(***************************************************************************)
EXTENDS BlockAssembly

\* Transaction n, with a witness or without.
T(n) == [base |-> <<n>>, full |-> <<n, 9>>]
Legacy(n) == [base |-> <<n>>, full |-> <<n>>]

I(txs, first, segwit) == [txs |-> txs, first |-> first, segwit |-> segwit, value |-> 5]

\* Blocks of one to five transactions with the coinbase; the expected txid is
\* of the first transaction, of another one, or missing.
MCInputs ==
  {I(<<>>, None, TRUE),
   I(<<T(1)>>, Sha256d(<<1>>), TRUE),
   I(<<T(1), Legacy(2)>>, Sha256d(<<2>>), TRUE),
   I(<<Legacy(2), T(1), T(3)>>, None, FALSE),
   I(<<T(3), T(1), T(2), Legacy(4)>>, Sha256d(<<1>>), TRUE)}
=============================================================================
