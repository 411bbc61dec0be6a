\* The messages of any use of the interface, and processes that end in the middle.
SPECIFICATION Spec
CONSTANTS
  p1 = p1  p2 = p2  i1 = i1  i2 = i2  r1 = r1  r2 = r2  r3 = r3  n1 = n1  n2 = n2
  Procs = {p1}
  Tids = {i1, i2}
  Records = {r1, r2}
  Names = {n1}
  RootName = RootName
  Null = Null
  mq_maxmsg = 1
  MaxDepth = 3
SYMMETRY Symmetry
INVARIANTS TypeOK ServiceTablesConsistent ExitFindsItsCall TreesCatchUp
\* MaxDepth may leave a new process with the identifiers of an old one nothing to do.
CHECK_DEADLOCK FALSE
