SPECIFICATION Spec
CONSTANTS
  Threads = {t1, t2}
  Scripts <- MCScripts
  MaxCacheSize = 2
  MaxLookups = 4
  Absent = Absent
  Free = Free
SYMMETRY Symmetry
INVARIANT IInv
INVARIANT MissesMatchSize
INVARIANT NeverOverreports
PROPERTY OracleKept
