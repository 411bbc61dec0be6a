--------------------------- MODULE PerfMsgQueueMC ---------------------------
(* Model values for checking PerfMsgQueue with TLC. *)
EXTENDS PerfMsgQueue

CONSTANTS s1, s2, p1, i1, i2, q1, q2, q3
=============================================================================
