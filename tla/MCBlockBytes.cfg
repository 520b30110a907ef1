SPECIFICATION Spec
CONSTANTS
  ByteBase = 6
  DirectPush = 2
  HashLen = 2
  MinTxSize = 10
  HalvingInterval = 12
  InitialSubsidy = 50
  MaxHalvings = 7
  FlagSizes = {0, 1, 2, 6, 36}
  Fees = {0, 7}
  Proposed <- MCProposed
  Payout <- MCPayout
  OpOne = 5
  SmallInts = 1
  MaxHeight = 110
INVARIANT StripsExactly
INVARIANT BlockReadsBack
INVARIANT ScriptReadsBack
INVARIANT SupplyCapped
INVARIANT IInv
