SPECIFICATION ConfigSpec
CONSTANTS
  Admins = {a1, a2}
  ThreadArgs <- MCThreadArgs
  IntModulus = 256
  ThreadLimit = 64
  HwThreads = {0, 8, 32}
  Absent = Absent
INVARIANT ThreadCountInRange
