SPECIFICATION FairSpec
CONSTANTS
  Admins = {a1}
  ThreadArgs = {}
  IntModulus = 256
  ThreadLimit = 64
  HwThreads = {0, 32}
  Absent = Absent
  Callers = {c1, c2}
  Txs <- MCTxs
  MinInputs = 2
  MaxValidations = 2
INVARIANT IInv
INVARIANT VerdictIsFirstFailure
INVARIANT FeeFromKnownInputs
INVARIANT TasksJoined
INVARIANT StatsAgree
PROPERTY CallsEnd
