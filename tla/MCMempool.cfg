SPECIFICATION FairSpec
CONSTANTS
  RateScale = 1
  Workers = {w1, w2}
  Entries <- MCEntries
  Free = Free
INVARIANT IInv
INVARIANT UniqueTxids
INVARIANT SortedByFeeRate
PROPERTY PromiseKept
PROPERTY LockReleased
PROPERTY Drains
