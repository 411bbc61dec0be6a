\* What a report deletes, under scoped use.
SPECIFICATION ScopedSpec
CONSTANTS
  t1 = t1  t2 = t2
  r1 = r1  r2 = r2  r3 = r3
  a1 = a1  a2 = a2  a3 = a3  a4 = a4  a5 = a5
  n1 = n1  n2 = n2
  Null = Null
  Threads = {t1, t2}
  Records = {r1, r2}
  Trees = {a1, a2}
  Names = {n1}
  MaxDepth = 3
PROPERTIES ClosedThreadsHadNoActivity
