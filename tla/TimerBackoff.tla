---------------------------- MODULE TimerBackoff ----------------------------
(***************************************************************************)
(* When the reporting timer reports: the counters of TimerCallback::Loop   *)
(* (rdkperf/rdk_perf.cpp).  Loop runs every TIMER_INTERVAL_SECONDS; a pass *)
(* that finds the process counts, and one of them reports.                 *)
(***************************************************************************)
EXTENDS Naturals

CONSTANTS MAX_DELAY,    \* the delay that is not increased any more
          DELAY_STEP    \* by how much a report increases the delay

ASSUME DelayAssumption == MAX_DELAY \in Nat \ {0} /\ DELAY_STEP \in Nat \ {0}

VARIABLES m_nCount, m_nDelay,
          passes,    \* history: counted passes since the last report
          lastGap    \* history: passes from one report to the next, 0 before

backoff == <<m_nCount, m_nDelay, passes, lastGap>>

BackoffInit == m_nCount = 0 /\ m_nDelay = 0 /\ passes = 0 /\ lastGap = 0

ReportIsDue == m_nCount > m_nDelay

\* Mutant: the pass is not counted.
NeverCounts == ~ReportIsDue /\ UNCHANGED backoff

\* A pass that finds the process before its report is due.
Count ==
  /\ ~ReportIsDue
  /\ m_nCount' = m_nCount + 1
  /\ passes' = passes + 1
  /\ UNCHANGED <<m_nDelay, lastGap>>

\* Mutant: the counter is not reset.
ReportAndGoOn ==
  /\ ReportIsDue
  /\ m_nCount' = m_nCount + 1
  /\ m_nDelay' = IF m_nDelay < MAX_DELAY THEN m_nDelay + DELAY_STEP ELSE m_nDelay
  /\ passes' = 0
  /\ lastGap' = passes + 1

\* Mutant: at its maximum the delay starts again.
ReportAndWrap ==
  /\ ReportIsDue
  /\ m_nCount' = 1
  /\ m_nDelay' = IF m_nDelay < MAX_DELAY THEN m_nDelay + DELAY_STEP ELSE 0
  /\ passes' = 0
  /\ lastGap' = passes + 1

\* The pass that reports: the counter is reset, and counts this pass.
Report ==
  /\ ReportIsDue
  /\ m_nCount' = 1
  /\ m_nDelay' = IF m_nDelay < MAX_DELAY THEN m_nDelay + DELAY_STEP ELSE m_nDelay
  /\ passes' = 0
  /\ lastGap' = passes + 1

BackoffNext == Count \/ Report

BackoffSpec == BackoffInit /\ [][BackoffNext]_backoff

-----------------------------------------------------------------------------
(* Properties *)

\* The counter never runs past the delay, so a report is never overdue by
\* more than the pass that makes it; the delay stops within a step of its
\* maximum.
CountersBounded ==
  /\ m_nDelay \in Nat /\ m_nDelay < MAX_DELAY + DELAY_STEP
  /\ m_nCount \in Nat /\ m_nCount <= m_nDelay + 1

\* Reports come "at ever increasing intervals" (README, background timer).
GapsNeverShrink == [][lastGap' >= lastGap]_backoff

TimerInterval == 10     \* TIMER_INTERVAL_SECONDS

\* The steady state is "10 minute gaps" (README, background timer).
TenMinuteGaps == lastGap * TimerInterval <= 600
=============================================================================
