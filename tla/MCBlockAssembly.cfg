SPECIFICATION FairSpec
CONSTANTS
  Calls = {c1, c2}
  Inputs <- MCInputs
  None = None
INVARIANT IInv
INVARIANT HeaderCommits
INVARIANT CoinbaseCommits
INVARIANT NeverReversed
INVARIANT TxidsOfBytes
PROPERTY AssemblyEnds
