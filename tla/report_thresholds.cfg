\* Which calls are logged for their threshold, under scoped use.
SPECIFICATION ReportSpec
CONSTANTS
  t1 = t1  t2 = t2
  r1 = r1  r2 = r2
  a1 = a1  a2 = a2
  n1 = n1
  Null = Null
  Threads = {t1, t2}
  Records = {r1, r2}
  Trees = {a1, a2}
  Names = {n1}
  MaxDepth = 3
  WordBits = 4
  Millisecond = 2
  INITIAL_MIN_VALUE = 2
  SHOW_CPU = TRUE
  ThresholdBits = 2
  Thresholds = {1, 2}
  WallClocks = {2}
  SetTime = 1
  StartTime = 4
  MaxTime = 3
  MaxCalls = 2
SYMMETRY Symmetry
INVARIANT ReachedThresholdIsLogged
