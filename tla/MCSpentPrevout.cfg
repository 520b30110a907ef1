SPECIFICATION Spec
CONSTANTS
  Admins = {a1}
  ThreadArgs = {}
  IntModulus = 256
  ThreadLimit = 64
  HwThreads = {2}
  Absent = Absent
  Callers = {c1}
  Txs <- MCRespending
  MinInputs = 4
  MaxValidations = 1
INVARIANT SpendsOnlyUnspent
