\* Three threads, one of which loads the library; scopes up to three deep.
SPECIFICATION Spec
CONSTANTS
  t1 = t1  t2 = t2  t3 = t3
  Threads = {t1, t2, t3}
  Loader = t1
  Nobody = Nobody
  MaxNest = 3
SYMMETRY Symmetry
INVARIANTS TypeOK MutexCountsScopes NoLateInit
PROPERTIES LockSpec
