----------------------------- MODULE TimerProofs -----------------------------
(***************************************************************************)
(* The lifetimes of the objects the timer thread uses, its last report, and *)
(* its counters: the thread implements TimerBackoff.                       *)
(***************************************************************************)
EXTENDS TimerTask, TLAPS

-----------------------------------------------------------------------------
(* The counters of Loop: the gaps for every maximal delay and every step *)

\* Before the first report the counter counts every pass; after it, the pass
\* of the report as well.  The gap before last follows the delay then.
GapInv ==
  /\ CountersBounded
  /\ \/ m_nCount = passes /\ lastGap = 0 /\ m_nDelay = 0
     \/ m_nCount = passes + 1 /\ lastGap \in Nat /\ lastGap <= m_nDelay + 1
  /\ passes \in Nat

\* A pass of Loop keeps the invariant and does not shrink the gap.
LEMMA GapInvInductive ==
  ASSUME GapInv, [BackoffNext]_backoff
  PROVE  GapInv' /\ lastGap' >= lastGap
  <1>1. /\ MAX_DELAY \in Nat /\ MAX_DELAY >= 1 /\ DELAY_STEP \in Nat /\ DELAY_STEP >= 1
        /\ m_nDelay \in Nat /\ m_nCount \in Nat /\ passes \in Nat
        /\ m_nDelay < MAX_DELAY + DELAY_STEP
        /\ m_nCount <= m_nDelay + 1
    BY DelayAssumption DEF GapInv, CountersBounded
  <1>2. \/ m_nCount = passes /\ lastGap = 0 /\ m_nDelay = 0
        \/ m_nCount = passes + 1 /\ lastGap \in Nat /\ lastGap <= m_nDelay + 1
    BY DEF GapInv
  <1>3. CASE Count
    BY <1>1, <1>2, <1>3 DEF Count, ReportIsDue, GapInv, CountersBounded
  <1>4. CASE Report
    <2>1. m_nCount = m_nDelay + 1
      BY <1>1, <1>4 DEF Report, ReportIsDue
    <2>2. m_nCount' = 1 /\ passes' = 0 /\ lastGap' = passes + 1
      BY <1>4 DEF Report
    <2>3. PICK delay : delay = m_nDelay'
      OBVIOUS
    <2>4. delay \in Nat /\ delay < MAX_DELAY + DELAY_STEP /\ delay >= m_nDelay /\ delay >= 1
      BY <1>1, <1>4, <2>3 DEF Report
    <2>5. CountersBounded'
      <3>1. 1 \in Nat /\ 1 <= delay + 1
        BY <2>4
      <3>2. QED BY <2>2, <2>3, <2>4, <3>1 DEF CountersBounded
    <2>6. passes + 1 \in Nat /\ passes + 1 <= delay + 1 /\ passes + 1 >= lastGap
      <3>1. CASE m_nCount = passes /\ lastGap = 0 /\ m_nDelay = 0
        BY <2>1, <2>4, <3>1
      <3>2. CASE m_nCount = passes + 1 /\ lastGap \in Nat /\ lastGap <= m_nDelay + 1
        BY <1>1, <2>1, <2>4, <3>2
      <3>3. QED BY <1>2, <3>1, <3>2
    <2>7. m_nCount' = passes' + 1 /\ passes' \in Nat
      BY <2>2
    <2>8. QED BY <2>2, <2>3, <2>5, <2>6, <2>7 DEF GapInv
  <1>5. CASE UNCHANGED backoff
    BY <1>5 DEF backoff, GapInv, CountersBounded
  <1>6. QED BY <1>3, <1>4, <1>5 DEF BackoffNext

\* The strengthened invariant holds throughout.
LEMMA GapInvInvariant == BackoffSpec => []GapInv
  <1>1. BackoffInit => GapInv
    BY DelayAssumption DEF BackoffInit, GapInv, CountersBounded
  <1>2. QED BY <1>1, GapInvInductive, PTL DEF BackoffSpec

\* The counters of TimerCallback::Loop stay within their bounds.
THEOREM CountersStayBounded == BackoffSpec => []CountersBounded
  <1>1. GapInv => CountersBounded
    BY DEF GapInv
  <1>2. QED BY <1>1, GapInvInvariant, PTL

\* The gap between reports never shrinks, for every MAX_DELAY and DELAY_STEP
\* that are not 0.
THEOREM GapsGrow == BackoffSpec => GapsNeverShrink
  <1>1. GapInv /\ [BackoffNext]_backoff => [lastGap' >= lastGap]_backoff
    BY GapInvInductive
  <1>2. QED BY <1>1, GapInvInvariant, PTL DEF BackoffSpec, GapsNeverShrink

-----------------------------------------------------------------------------
(* The thread and the objects it uses *)

\* Which objects exist and what the timer thread may be doing follow from
\* how far loading and unloading have come.
Lifetimes ==
  /\ main \in {"loading", "running", "signalling", "removing", "joining",
               "deleting", "unloaded"}
  /\ mapExists = (main \notin {"loading", "unloaded"})
  /\ timerExists = (main \notin {"loading", "deleting", "unloaded"})
  /\ main = "loading" => task = "none"
  /\ main \in {"deleting", "unloaded"} => task = "ended"

\* Every step of either thread keeps the invariant.
LEMMA LifetimesInductive ==
  ASSUME Lifetimes, [Next]_vars
  PROVE  Lifetimes'
  <1> USE DEF Lifetimes, control, objects
  <1>1. CASE ModuleInit BY <1>1 DEF ModuleInit
  <1>2. CASE StopTask BY <1>2 DEF StopTask
  <1>3. CASE Signal BY <1>3 DEF Signal
  <1>4. CASE RemoveProcess BY <1>4 DEF RemoveProcess
  <1>5. CASE JoinTimer BY <1>5 DEF JoinTimer
  <1>6. CASE DeleteMap BY <1>6 DEF DeleteMap
  <1>7. CASE TaskStart BY <1>7 DEF TaskStart, Goto
  <1>8. CASE TaskTest BY <1>8 DEF TaskTest, Goto
  <1>9. CASE LoopFind BY <1>9 DEF LoopFind, Goto
  <1>10. CASE LoopReport BY <1>10 DEF LoopReport, Goto
  <1>11. CASE WaitEnter BY <1>11 DEF WaitEnter, Goto
  <1>12. CASE WaitTimeout BY <1>12 DEF WaitTimeout, Goto
  <1>13. CASE WaitReturn BY <1>13 DEF WaitReturn, Goto
  <1>14. CASE Application BY <1>14 DEF Application
  <1>15. CASE UNCHANGED vars BY <1>15 DEF vars
  <1>16. QED
    BY <1>1, <1>2, <1>3, <1>4, <1>5, <1>6, <1>7, <1>8, <1>9, <1>10, <1>11, <1>12,
       <1>13, <1>14, <1>15
    DEF Next, ModuleTerminate, Task

\* The strengthened invariant holds throughout.
LEMMA LifetimesInvariant == Spec => []Lifetimes
  <1>1. Init => Lifetimes
    BY DEF Init, Lifetimes
  <1>2. QED BY <1>1, LifetimesInductive, PTL DEF Spec

\* TimerCallback::Loop never looks into the map after RDKPerf_DeleteMap,
\* because PerfModuleTerminate joins the timer thread first.
THEOREM MapStaysForTask == Spec => []MapOutlivesTask
  <1>1. Lifetimes => MapOutlivesTask
    BY DEF Lifetimes, MapOutlivesTask
  <1>2. QED BY <1>1, LifetimesInvariant, PTL

\* The timer thread is never in TimerCallback::Task when s_timer is deleted.
THEOREM TimerStaysForTask == Spec => []TimerOutlivesTask
  <1>1. Lifetimes => TimerOutlivesTask
    BY DEF Lifetimes, TimerOutlivesTask, TaskInObject
  <1>2. QED BY <1>1, LifetimesInvariant, PTL

-----------------------------------------------------------------------------
\* While the library is loaded no report is late.  After StopTask the thread
\* makes the report it was about to make, if any, and then meets its
\* condition; a thread that begins only now sets m_bContinue again.
LateInv ==
  /\ Lifetimes
  /\ late \in 0..2
  /\ main \in {"loading", "running"} => late = 0
  /\ m_bContinue \in BOOLEAN
  /\ ~m_bContinue => \/ late = 0
                     \/ late = 1 /\ task \notin {"finding", "reporting"}

\* Every step of either thread keeps the invariant.
LEMMA LateInvInductive ==
  ASSUME LateInv, [Next]_vars
  PROVE  LateInv'
  <1>0. Lifetimes'
    BY LifetimesInductive DEF LateInv
  <1> USE <1>0 DEF LateInv, Lifetimes, control, objects
  <1>1. CASE ModuleInit BY <1>1 DEF ModuleInit
  <1>2. CASE StopTask BY <1>2 DEF StopTask
  <1>3. CASE Signal BY <1>3 DEF Signal
  <1>4. CASE RemoveProcess BY <1>4 DEF RemoveProcess
  <1>5. CASE JoinTimer BY <1>5 DEF JoinTimer
  <1>6. CASE DeleteMap BY <1>6 DEF DeleteMap
  <1>7. CASE TaskStart BY <1>7 DEF TaskStart, Goto
  <1>8. CASE TaskTest BY <1>8 DEF TaskTest, Goto
  <1>9. CASE LoopFind BY <1>9 DEF LoopFind, Goto
  <1>10. CASE LoopReport
    <2>1. \/ late' = late
          \/ main # "running" /\ late < 2 /\ late' = late + 1
      BY <1>10 DEF LoopReport
    <2>2. task = "reporting" /\ task' = "pausing" /\ UNCHANGED <<main, m_bContinue>>
      BY <1>10 DEF LoopReport, Goto
    <2>3. QED BY <2>1, <2>2
  <1>11. CASE WaitEnter BY <1>11 DEF WaitEnter, Goto
  <1>12. CASE WaitTimeout BY <1>12 DEF WaitTimeout, Goto
  <1>13. CASE WaitReturn BY <1>13 DEF WaitReturn, Goto
  <1>14. CASE Application BY <1>14 DEF Application
  <1>15. CASE UNCHANGED vars BY <1>15 DEF vars
  <1>16. QED
    BY <1>1, <1>2, <1>3, <1>4, <1>5, <1>6, <1>7, <1>8, <1>9, <1>10, <1>11, <1>12,
       <1>13, <1>14, <1>15
    DEF Next, ModuleTerminate, Task

\* The state in which the library is loaded.
LEMMA LateInvInit == Init => LateInv
  <1> SUFFICES ASSUME Init PROVE LateInv
    OBVIOUS
  <1>1. Lifetimes
    BY DEF Init, Lifetimes
  <1>2. late = 0 /\ m_bContinue \in BOOLEAN
    BY DEF Init
  <1>3. late \in 0..2
    BY <1>2
  <1>4. QED BY <1>1, <1>2, <1>3 DEF LateInv

\* Once StopTask has cleared m_bContinue, and the thread has not set it again,
\* TimerCallback::Loop reports at most once more.
THEOREM AtMostOneLateReport == Spec => []OneLateReport
  <1>1. Init => LateInv
    BY LateInvInit
  <1>2. LateInv => OneLateReport
    BY DEF LateInv, OneLateReport
  <1>3. QED BY <1>1, <1>2, LateInvInductive, PTL DEF Spec

-----------------------------------------------------------------------------
\* Each step of the library is a pass of TimerCallback::Loop or leaves its
\* counters alone.
LEMMA StepsAreBackoffSteps ==
  ASSUME [Next]_vars
  PROVE  [BackoffNext]_backoff
  <1>1. CASE LoopFind BY <1>1 DEF LoopFind, BackoffNext
  <1>2. CASE LoopReport BY <1>2 DEF LoopReport, BackoffNext
  <1>3. CASE UNCHANGED vars BY <1>3 DEF vars, backoff
  <1>4. ~LoopFind /\ ~LoopReport => UNCHANGED backoff
    BY <1>3
    DEF Next, ModuleInit, StopTask, ModuleTerminate, Signal, RemoveProcess, JoinTimer,
        DeleteMap, Task, TaskStart, TaskTest, WaitEnter, WaitTimeout, WaitReturn,
        Application, backoff, vars
  <1>5. QED BY <1>1, <1>2, <1>4

\* The timer thread, loaded and unloaded in the middle of it, implements the
\* back-off of TimerBackoff.
THEOREM TaskImplementsBackoff == Spec => BackoffSpec
  <1>1. Init => BackoffInit
    BY DEF Init
  <1>2. QED BY <1>1, StepsAreBackoffSteps, PTL DEF Spec, BackoffSpec

\* The gap between two reports of the timer thread never shrinks, for every
\* MAX_DELAY and DELAY_STEP.
THEOREM TaskGapsGrow == Spec => GapsNeverShrink
  BY TaskImplementsBackoff, GapsGrow

\* What the timer thread may be doing, whatever the rest of it.
TaskPlaces ==
  /\ task \in {"none", "created", "testing", "finding", "reporting", "pausing",
               "waiting", "notified", "ended"}
  /\ m_current_state \in {WAITING, EXIT_LOOP}
  /\ processFound \in BOOLEAN

\* Both threads are where their code has a place for them, and the counters
\* within their bounds.
THEOREM TimerTypeCorrect == Spec => []TypeOK
  <1>1. Init => TaskPlaces /\ LateInv
    BY LateInvInit DEF Init, TaskPlaces
  <1>2. ASSUME TaskPlaces, [Next]_vars PROVE TaskPlaces'
    BY <1>2
    DEF TaskPlaces, Next, ModuleInit, StopTask, ModuleTerminate, Signal, RemoveProcess,
        JoinTimer, DeleteMap, Task, TaskStart, TaskTest, LoopFind, LoopReport, WaitEnter,
        WaitTimeout, WaitReturn, Application, Goto, control, objects, vars
  <1>3. TaskPlaces /\ LateInv /\ CountersBounded => TypeOK
    BY DEF TaskPlaces, LateInv, Lifetimes, TypeOK
  <1>4. Spec => []CountersBounded
    BY TaskImplementsBackoff, CountersStayBounded
  <1>5. QED BY <1>1, <1>2, <1>3, <1>4, LateInvInductive, PTL DEF Spec
=============================================================================
