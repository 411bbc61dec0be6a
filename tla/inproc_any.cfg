\* Every use of the interface: closes in any order, by any thread.
SPECIFICATION Spec
CONSTANTS
  t1 = t1  t2 = t2
  r1 = r1  r2 = r2  r3 = r3
  a1 = a1  a2 = a2  a3 = a3  a4 = a4  a5 = a5
  n1 = n1  n2 = n2
  Null = Null
  Threads = {t1, t2}
  Records = {r1, r2, r3}
  Trees = {a1, a2, a3, a4, a5}
  Names = {n1}
  MaxDepth = 4
SYMMETRY Symmetry
INVARIANTS TypeOK TableConsistent StackIsCallPath OpenRecordsOnStack
PROPERTIES OnlyCloseFrees
\* The process stops at the first undefined behaviour.
CHECK_DEADLOCK FALSE
