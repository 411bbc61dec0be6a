\* Services come and go at any time: who can be blocked for good?
SPECIFICATION FairSpec
CONSTANTS
  s1 = s1  s2 = s2  p1 = p1  i1 = i1  i2 = i2  q1 = q1  q2 = q2  q3 = q3
  Services = {s1, s2}
  Procs = {p1}
  Tids = {i1, i2}
  Queues = {q1, q2}
  NULL = NULL
  Failed = Failed
  mq_maxmsg = 1
  MAX_TIMEOUT = 1
INVARIANTS TypeOK ServiceReachable NameIsServed OneReferenceEach
PROPERTIES QueueIsKept ServedCallsReturn
