--------------------------- MODULE MCBlockTemplate ---------------------------
(***************************************************************************)
(* Instances of BlockTemplate for TLC.                                     *)
(***************************************************************************)
EXTENDS BlockTemplate

Coin(n) == <<"root", n>>

\* g <- p <- a, a third generation that fills a block; y spends the coin of g
\* and pays more than it spends; z spends the coin of p, is not final before the
\* second block, and does not fit beside g.
FamilyTx == {"g", "p", "a", "y", "z"}
FamilyIns == [g |-> <<Coin(0)>>,
              p |-> <<Coin(1), <<"g", 0>>>>,
              a |-> <<<<"p", 0>>>>,
              y |-> <<Coin(0)>>,
              z |-> <<Coin(1)>>]
FamilyFee == [g |-> 1, p |-> 2, a |-> 4, y |-> -8, z |-> 16]
FamilyFinalAt == [g |-> 0, p |-> 0, a |-> 0, y |-> 0, z |-> 1]
FamilyCost == [weight |-> [g |-> 2, p |-> 1, a |-> 1, y |-> 1, z |-> 3]]
FamilyLimit == [weight |-> 4]

\* Two transactions of one coin, and a child of one of them.
PairTx == {"a", "b", "c"}
PairIns == [a |-> <<Coin(0)>>, b |-> <<Coin(0)>>, c |-> <<<<"a", 0>>>>]
PairFee == [a |-> 1, b |-> 2, c |-> 4]
PairFinalAt == [t \in PairTx |-> 0]
PairCost == [weight |-> [t \in PairTx |-> 1]]
PairLimit == [weight |-> 3]
=============================================================================
