\* Does a call return, if services that exit are started again?
SPECIFICATION FairSupervisedSpec
CONSTANTS
  s1 = s1  s2 = s2  p1 = p1  i1 = i1  i2 = i2  q1 = q1  q2 = q2  q3 = q3
  Services = {s1, s2}
  Procs = {p1}
  Tids = {i1, i2}
  Queues = {q1, q2, q3}
  NULL = NULL
  Failed = Failed
  mq_maxmsg = 2
  MAX_TIMEOUT = 1
PROPERTIES CallsReturn
