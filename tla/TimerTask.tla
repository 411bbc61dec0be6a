------------------------------ MODULE TimerTask ------------------------------
(***************************************************************************)
(* The reporting timer of the in-process build (rdkperf/rdk_perf.cpp): the *)
(* thread that runs TimerCallback::Task, the module constructor that       *)
(* starts it and the module destructor that stops it, while application    *)
(* threads use the library.  Process map operations hold SCOPED_LOCK and   *)
(* are atomic; the timer's own fields are shared under m_mtx, except       *)
(* m_bContinue, which both threads write with no lock.                     *)
(***************************************************************************)
EXTENDS TimerBackoff

VARIABLES main,             \* the thread that loads and unloads the library
          task,             \* the timer thread
          m_bContinue,
          m_current_state,
          timerExists,      \* s_timer points to an object
          mapExists,        \* sp_ProcessMap is not NULL
          processFound,     \* sp_ProcessMap has an entry for getpid()
          late              \* history: reports since StopTask, at most 2

control == <<m_bContinue, m_current_state>>
objects == <<timerExists, mapExists>>
vars == <<main, task, control, objects, processFound, late, backoff>>

WAITING == "WAITING"
EXIT_LOOP == "EXIT_LOOP"

Init ==
  /\ main = "loading" /\ task = "none"
  /\ m_bContinue = FALSE /\ m_current_state = WAITING
  /\ timerExists = FALSE /\ mapExists = FALSE /\ processFound = FALSE
  /\ late = 0
  /\ BackoffInit

-----------------------------------------------------------------------------
(* The constructor and the destructor of the module *)

\* PerfModuleInit, with the TimerCallback it makes.
ModuleInit ==
  /\ main = "loading" /\ main' = "running"
  /\ task' = "created"
  /\ timerExists' = TRUE /\ mapExists' = TRUE
  /\ UNCHANGED <<control, processFound, late, backoff>>

\* PerfModuleTerminate begins: StopTask clears m_bContinue ...
StopTask ==
  /\ main = "running" /\ main' = "signalling"
  /\ m_bContinue' = FALSE
  /\ UNCHANGED <<task, m_current_state, objects, processFound, late, backoff>>

\* ... and signals: the wait of the timer thread ends if it waits now.
Signal ==
  /\ main = "signalling" /\ main' = "removing"
  /\ m_current_state' = EXIT_LOOP
  /\ task' = IF task = "waiting" THEN "notified" ELSE task
  /\ UNCHANGED <<m_bContinue, objects, processFound, late, backoff>>

\* Mutant: the map goes with the entry.
RemoveProcessAndMap ==
  /\ main = "removing" /\ main' = "joining"
  /\ processFound' = FALSE /\ mapExists' = FALSE
  /\ UNCHANGED <<task, control, timerExists, late, backoff>>

\* RDKPerf_RemoveProcess
RemoveProcess ==
  /\ main = "removing" /\ main' = "joining"
  /\ processFound' = FALSE
  /\ UNCHANGED <<task, control, objects, late, backoff>>

\* Mutant: the timer is deleted without waiting for its thread.
DeleteUnjoined ==
  /\ main = "joining" /\ main' = "deleting"
  /\ timerExists' = FALSE
  /\ UNCHANGED <<task, control, mapExists, processFound, late, backoff>>

\* The timer thread is joined, then it and s_timer are deleted.
JoinTimer ==
  /\ main = "joining" /\ main' = "deleting"
  /\ task = "ended"
  /\ timerExists' = FALSE
  /\ UNCHANGED <<task, control, mapExists, processFound, late, backoff>>

\* RDKPerf_DeleteMap
DeleteMap ==
  /\ main = "deleting" /\ main' = "unloaded"
  /\ mapExists' = FALSE
  /\ UNCHANGED <<task, control, timerExists, processFound, late, backoff>>

ModuleTerminate == Signal \/ RemoveProcess \/ JoinTimer \/ DeleteMap

-----------------------------------------------------------------------------
(* TimerCallback::Task *)

Goto(from, to) == task = from /\ task' = to

\* The first thing the new thread does is to set m_bContinue.
TaskStart ==
  /\ Goto("created", "testing")
  /\ m_bContinue' = TRUE
  /\ UNCHANGED <<main, m_current_state, objects, processFound, late, backoff>>

\* Mutant: the loop has no condition.
TaskTestsNothing ==
  /\ Goto("testing", "finding")
  /\ UNCHANGED <<main, control, objects, processFound, late, backoff>>

\* while(m_bContinue == true)
TaskTest ==
  /\ \/ m_bContinue /\ Goto("testing", "finding")
     \/ ~m_bContinue /\ Goto("testing", "ended")
  /\ UNCHANGED <<main, control, objects, processFound, late, backoff>>

\* Loop looks for the process: it reports, counts, or leaves it at that.
LoopFind ==
  /\ \/ /\ processFound /\ ReportIsDue
        /\ Goto("finding", "reporting")
        /\ UNCHANGED backoff
     \/ /\ processFound
        /\ Goto("finding", "pausing")
        /\ Count
     \/ /\ ~processFound
        /\ Goto("finding", "pausing")
        /\ UNCHANGED backoff
  /\ UNCHANGED <<main, control, objects, processFound, late>>

\* RDKPerf_ReportProcess, which looks for the process once more.
LoopReport ==
  /\ Goto("reporting", "pausing")
  /\ Report
  /\ late' = IF processFound /\ main # "running" /\ late < 2 THEN late + 1 ELSE late
  /\ UNCHANGED <<main, control, objects, processFound>>

\* Wait takes m_mtx: it returns at once when a signal came before it.
WaitEnter ==
  /\ \/ m_current_state = WAITING /\ Goto("pausing", "waiting")
     \/ m_current_state # WAITING /\ Goto("pausing", "testing")
  /\ m_current_state' = WAITING
  /\ UNCHANGED <<main, m_bContinue, objects, processFound, late, backoff>>

\* wait_for times out, or returns for no reason.
WaitTimeout ==
  /\ Goto("waiting", "notified")
  /\ UNCHANGED <<main, control, objects, processFound, late, backoff>>

\* wait_for has m_mtx again: whatever was signalled since is forgotten.  The
\* result, TIMEOUT or the state, is only logged.
WaitReturn ==
  /\ Goto("notified", "testing")
  /\ m_current_state' = WAITING
  /\ UNCHANGED <<main, m_bContinue, objects, processFound, late, backoff>>

Task == TaskStart \/ TaskTest \/ LoopFind \/ LoopReport
          \/ WaitEnter \/ WaitTimeout \/ WaitReturn

-----------------------------------------------------------------------------
\* An application thread makes the process entry (PerfRecord::PerfRecord) or
\* removes it (RDKPerf_CloseProcess); with no map to use it is undefined
\* behaviour, left out here.
Application ==
  /\ mapExists
  /\ processFound' \in BOOLEAN
  /\ UNCHANGED <<main, task, control, objects, late, backoff>>

Next == ModuleInit \/ StopTask \/ ModuleTerminate \/ Task \/ Application

Spec == Init /\ [][Next]_vars

\* Both threads run when they can; nothing has to unload the library.
FairSpec == Spec /\ WF_vars(ModuleInit) /\ WF_vars(ModuleTerminate) /\ WF_vars(Task)

-----------------------------------------------------------------------------
(* Properties *)

\* Both threads are where their code has a place for them, the counters of
\* Loop within their bounds.
TypeOK ==
  /\ main \in {"loading", "running", "signalling", "removing", "joining",
               "deleting", "unloaded"}
  /\ task \in {"none", "created", "testing", "finding", "reporting", "pausing",
               "waiting", "notified", "ended"}
  /\ m_bContinue \in BOOLEAN
  /\ m_current_state \in {WAITING, EXIT_LOOP}
  /\ {timerExists, mapExists, processFound} \subseteq BOOLEAN
  /\ late \in 0..2
  /\ CountersBounded

TaskInObject == task \notin {"none", "ended"}

\* Loop never looks into a deleted process map, whenever the library is
\* unloaded.
MapOutlivesTask == task \in {"finding", "reporting"} => mapExists

\* The timer thread never uses the fields of a deleted TimerCallback.
TimerOutlivesTask == TaskInObject => timerExists

\* Once m_bContinue is cleared for good, the report that was due is the last.
OneLateReport == ~m_bContinue => late <= 1

TaskBegun == task \notin {"none", "created"}

\* If the timer thread had begun its task when StopTask was called then the
\* library is unloaded, even when the signal is lost in a timeout.
BegunTaskIsJoined ==
  main = "signalling" /\ TaskBegun /\ ~m_bContinue ~> main = "unloaded"

\* While the process stays in the map and the library loaded, reports go on
\* and come to the "steady state" of the README (background timer): the delay
\* settles at or above MAX_DELAY and the gap between reports follows it.
SteadyState ==
  <>[](main = "running" /\ processFound) =>
    /\ []<>(task = "reporting")
    /\ <>[](m_nDelay >= MAX_DELAY /\ lastGap = m_nDelay + 1)

\* The destructor waits "for timer thread cleanup" (rdk_perf.cpp,
\* PerfModuleTerminate) and the loop it has "signaled" to exit (Task) ends.
SignalEndsTask == main = "removing" ~> task = "ended"
=============================================================================
