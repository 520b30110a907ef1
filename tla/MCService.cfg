SPECIFICATION FairServiceSpec
CONSTANTS
  Admins = {}
  ThreadArgs = {}
  IntModulus = 256
  ThreadLimit = 64
  HwThreads = {8}
  Absent = Absent
  Callers = {c1, c2}
  Txs <- MCTxs
  Txid <- MCTxid
  TxSize <- MCSize
  MinInputs = 2
  MaxValidations = 2
  RateScale = 1
  Free = Free
INVARIANT ServiceInv
INVARIANT OnlyValidated
PROPERTY ServesMempool
PROPERTY ValidationsEnd
