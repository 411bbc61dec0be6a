----------------------------- MODULE TimingStats -----------------------------
(***************************************************************************)
(* The numbers of a node of a call tree: struct TimingStats and the        *)
(* operations of PerfNode on it (src/src/rdk_perf_node.cpp).  Each number  *)
(* is kept twice, since the node was made and since its last report.  The  *)
(* averages are left out: the code computes each as the time divided by    *)
(* the count beside it.                                                    *)
(***************************************************************************)
EXTENDS PerfClock, Sequences

CONSTANT INITIAL_MIN_VALUE    \* the minimum of no calls, in microseconds

ASSUME InitialMinAssumption == INITIAL_MIN_VALUE \in Nat

Summary == [count : Word, time : Word, max : Word, min : Word,
            userCPU : Word, systemCPU : Word]

Stats == [last : TimeStamp, total : Summary, interval : Summary]

NoCalls == [count |-> 0, time |-> 0, max |-> 0, min |-> INITIAL_MIN_VALUE,
            userCPU |-> 0, systemCPU |-> 0]

\* PerfNode::PerfNode(PerfRecord*)
NewStats == [last |-> ZeroStamp, total |-> NoCalls, interval |-> NoCalls]

\* PerfNode::PerfNode() of the root, which counts a call that is never made.
RootStats ==
  [NewStats EXCEPT !.total.count = 1, !.interval.count = 1]

\* Mutant: a new minimum is not looked at when there is a new maximum.
AddMaxElseMin(sum, delta) ==
  [count |-> Plus(sum.count, 1),
   time |-> Plus(sum.time, delta.wallClock),
   max |-> IF sum.max < delta.wallClock THEN delta.wallClock ELSE sum.max,
   min |-> IF sum.max >= delta.wallClock /\ sum.min > delta.wallClock
           THEN delta.wallClock ELSE sum.min,
   userCPU |-> Plus(sum.userCPU, delta.userCPU),
   systemCPU |-> Plus(sum.systemCPU, delta.systemCPU)]

\* One half of IncrementData: the totals or the intervals.
AddCall(sum, delta) ==
  [count |-> Plus(sum.count, 1),
   time |-> Plus(sum.time, delta.wallClock),
   max |-> IF sum.max < delta.wallClock THEN delta.wallClock ELSE sum.max,
   min |-> IF sum.min > delta.wallClock THEN delta.wallClock ELSE sum.min,
   userCPU |-> Plus(sum.userCPU, delta.userCPU),
   systemCPU |-> Plus(sum.systemCPU, delta.systemCPU)]

\* PerfNode::IncrementData
IncrementStats(stats, delta) ==
  [last |-> delta,
   total |-> AddCall(stats.total, delta),
   interval |-> AddCall(stats.interval, delta)]

\* PerfNode::ResetInterval, at the end of each report but that of a threshold.
ResetInterval(stats) == [stats EXCEPT !.interval = NoCalls]
=============================================================================
