------------------------------ MODULE PerfReport ------------------------------
(***************************************************************************)
(* What the in-process build measures and reports: InProc, under scoped    *)
(* use, with the clocks of its records and of the process, the numbers of  *)
(* its nodes and the thresholds.  Each operation of the library is the one *)
(* of InProc together with what it does to the numbers.  Time passes, and  *)
(* the clock of the machine is set, between operations.                    *)
(***************************************************************************)
EXTENDS InProc, TimingStats, FiniteSetsExt

CONSTANTS SHOW_CPU,        \* built with PERF_SHOW_CPU: records use PerfClock
          ThresholdBits,   \* the width of uint32_t and int32_t
          Thresholds,      \* the thresholds callers ask for
          WallClocks,      \* the times an administrator sets the clock to
          SetTime,         \* bound of the model: when the clock may be set
          StartTime,       \* the wall clock when the process starts
          MaxTime,         \* bound of the model: the time that passes
          MaxCalls         \* bound of the model: the calls the trees have measured

ASSUME ReportAssumption ==
  /\ SHOW_CPU \in BOOLEAN
  /\ Thresholds \subseteq 0..(2 ^ ThresholdBits - 1)
  /\ IsFiniteSet(Trees)
  /\ MaxTime \in Nat /\ MaxCalls \in Nat /\ SetTime \in Nat
  /\ WallClocks \subseteq Nat /\ StartTime \in Nat

\* The words are wide enough for the times of the model: 2^64 microseconds are
\* more than half a million years.
ASSUME WidthAssumption ==
  /\ \A w \in WallClocks \cup {StartTime} : w + MaxTime < Modulus
  /\ MaxCalls * MaxTime < Modulus /\ MaxCalls < Modulus /\ INITIAL_MIN_VALUE < Modulus
  /\ Modulus \in Nat /\ 1 < Modulus

VARIABLES machine,      \* what gettimeofday and getrusage return now
          now,          \* history: the time that has really passed
          marker,       \* PerfRecord::m_clock of the records
          m_clock,      \* PerfProcess::m_clock, when the process is found
          stats,        \* the TimingStats of the nodes of each tree
          began,        \* history: the true times at which a record was opened
          calls,        \* history: the calls measured at each node
          reported,     \* history: what the next report of the process covers
          quiet         \* history: reports since a thread's last call returned

clocks == <<machine, now>>
numbers == <<marker, m_clock, stats>>
history == <<began, calls, reported, quiet>>
reportVars == <<vars, clocks, numbers, history>>

\* Kept for an open record: the true times at which it was opened, and whether
\* the wall clock was set since.
NotBegun == [time |-> 0, userCPU |-> 0, systemCPU |-> 0, clockSet |-> FALSE]

NoNodes == [n \in {} |-> NewStats]
NoLog == [total |-> <<>>, interval |-> <<>>]
NothingReported == [time |-> 0, clockSet |-> FALSE, newThread |-> FALSE]

ReportInit ==
  /\ Init
  /\ machine = [ZeroStamp EXCEPT !.wallClock = StartTime]
  /\ now = 0
  /\ marker = [r \in Records |-> ZeroStamp]
  /\ m_clock = ZeroStamp
  /\ stats = [a \in Trees |-> NoNodes]
  /\ began = [r \in Records |-> NotBegun]
  /\ calls = [a \in Trees |-> NoNodes]
  /\ reported = NothingReported
  /\ quiet = [t \in Threads |-> 0]

-----------------------------------------------------------------------------
(* The machine *)

\* A unit of time passes.  The process runs by turns in its own code and in
\* the system: one schedule, against which the operations come at any time.
Tick ==
  /\ now < MaxTime
  /\ now' = now + 1
  /\ machine' = [machine EXCEPT
       !.wallClock = @ + 1,
       !.userCPU = IF now % 2 = 0 THEN @ + 1 ELSE @,
       !.systemCPU = IF now % 2 = 1 THEN @ + 1 ELSE @]
  /\ UNCHANGED <<vars, numbers, history>>

\* The wall clock is set, once, while there is something to disturb: whatever
\* is being timed.
SetClock ==
  /\ now = SetTime
  /\ machine.wallClock = StartTime + now
  /\ \E r \in Records : IsOpen(r)
  /\ \E w \in WallClocks : machine' = [machine EXCEPT !.wallClock = w]
  /\ reported' = [reported EXCEPT !.clockSet = TRUE]
  /\ began' = [r \in Records |-> IF IsOpen(r) THEN [began[r] EXCEPT !.clockSet = TRUE]
                                             ELSE began[r]]
  /\ UNCHANGED <<vars, now, numbers, calls, quiet>>

-----------------------------------------------------------------------------
(* The operations of InProc with their numbers *)

\* Nodes are made with their numbers when they are first entered.
EnterNode(nodes, node, first) ==
  [n \in DOMAIN nodes \cup {node} |-> IF n \in DOMAIN nodes THEN nodes[n] ELSE first]

\* PerfProcess::NewTree marks the clock of the whole process.
MarkNewTree(t) == IF HasTree(t) THEN m_clock ELSE Marker(machine)

\* PerfRecord::PerfRecord
Open(r, t, name) ==
  /\ OpenRecord(r, t, name)
  /\ LET a == rec'[r].tree
         n == rec'[r].node
     IN  /\ stats' = [stats EXCEPT ![a] = EnterNode(EnterNode(@, Root, RootStats), n, NewStats)]
         /\ calls' = [calls EXCEPT ![a] = EnterNode(@, n, NoLog)]
  /\ marker' = [marker EXCEPT ![r] = Marker(machine)]
  /\ m_clock' = MarkNewTree(t)
  /\ began' = [began EXCEPT ![r] = [time |-> now, userCPU |-> machine.userCPU,
                                    systemCPU |-> machine.systemCPU, clockSet |-> FALSE]]
  /\ reported' = IF processFound
                 THEN [reported EXCEPT !.newThread = @ \/ ~HasTree(t)]
                 ELSE [time |-> now, clockSet |-> FALSE, newThread |-> FALSE]
  /\ quiet' = [quiet EXCEPT ![t] = 0]
  /\ UNCHANGED clocks

\* What the destructor measures: without PERF_SHOW_CPU only the wall clock.
Measured(r) ==
  LET delta == Elapsed(marker[r], machine)
  IN  IF SHOW_CPU THEN delta ELSE [ZeroStamp EXCEPT !.wallClock = delta.wallClock]

\* RDKPerfSetThreshold, or a constructor with a threshold: what the record
\* keeps, until it is closed, of the uint32_t that its caller asks for.
ToInt32(us) == IF us < 2 ^ (ThresholdBits - 1) THEN us ELSE us - 2 ^ ThresholdBits

\* The destructor logs the nodes from this one down.  That is all that a
\* threshold does, as ReportData(0, true, 0) changes nothing.
Alarm(r, threshold) ==
  threshold > 0 /\ Measured(r).wallClock > threshold

TrueCall(r) == [time |-> now - began[r].time,
                userCPU |-> machine.userCPU - began[r].userCPU,
                systemCPU |-> machine.systemCPU - began[r].systemCPU,
                clockSet |-> began[r].clockSet,
                cpuRead |-> began[r].systemCPU # 0]

\* The calls that the trees of the map have measured.
CallsMade ==
  SumFunction([a \in Trees |-> SumFunction([n \in DOMAIN calls[a] |-> Len(calls[a][n].total)])])

\* PerfRecord::~PerfRecord
Close(r) ==
  /\ CloseRecord(r)
  /\ LET a == rec[r].tree
         n == rec[r].node
     IN  /\ CallsMade < MaxCalls
         /\ stats' = [stats EXCEPT ![a][n] = IncrementStats(@, Measured(r))]
         /\ calls' = [calls EXCEPT ![a][n] = [total |-> Append(@.total, TrueCall(r)),
                                              interval |-> Append(@.interval, TrueCall(r))]]
  /\ marker' = [marker EXCEPT ![r] = ZeroStamp]
  /\ began' = [began EXCEPT ![r] = NotBegun]
  /\ quiet' = [quiet EXCEPT ![rec[r].thread] = 0]
  /\ UNCHANGED <<clocks, m_clock, reported>>

\* The numbers of the trees that are in the map after the step.
KeepLive(numbersOf, none) ==
  [a \in Trees |-> IF Live(a)' THEN numbersOf[a] ELSE none]

\* PerfTree::ReportData, for the trees in A.
ReportStats(A) ==
  [a \in Trees |-> IF a \in A THEN [n \in DOMAIN stats[a] |-> ResetInterval(stats[a][n])]
                             ELSE stats[a]]

StartInterval(A) ==
  [a \in Trees |-> IF a \in A THEN [n \in DOMAIN calls[a] |-> [calls[a][n] EXCEPT !.interval = <<>>]]
                             ELSE calls[a]]

\* Mutant: the clock holds the interval that was printed.
ElapsedOnly(printed) == IF printed THEN Elapsed(m_clock, machine) ELSE m_clock

\* PerfProcess::ReportData marks the clock again when it has printed threads.
MarkReport(printed) == IF printed THEN Marker(machine) ELSE m_clock

\* RDKPerf_ReportProcess
ReportAll ==
  /\ ReportProcess
  /\ LET printed == \E t \in Threads : HasTree(t)'
     IN  /\ m_clock' = MarkReport(printed)
         /\ reported' = IF printed THEN [time |-> now, clockSet |-> FALSE, newThread |-> FALSE]
                                   ELSE reported
  /\ stats' = KeepLive(ReportStats(Trees), NoNodes)
  /\ calls' = KeepLive(StartInterval(Trees), NoNodes)
  /\ quiet' = [t \in Threads |-> IF HasTree(t)' /\ ~Calling(t) THEN quiet[t] + 1 ELSE 0]
  /\ UNCHANGED <<clocks, marker, began>>

\* RDKPerf_ReportThread
ReportOne(t) ==
  /\ processFound
  /\ ReportThread(t)
  /\ stats' = ReportStats({mapThreads[t]})
  /\ calls' = StartInterval({mapThreads[t]})
  /\ UNCHANGED <<clocks, marker, m_clock, began, reported, quiet>>

\* RDKPerf_CloseThread of a thread that has left its scopes.
CloseOne(t) ==
  /\ ~Calling(t)
  /\ CloseThread(t)
  /\ stats' = KeepLive(stats, NoNodes)
  /\ calls' = KeepLive(calls, NoNodes)
  /\ quiet' = [quiet EXCEPT ![t] = 0]
  /\ UNCHANGED <<clocks, marker, m_clock, began, reported>>

\* RDKPerf_CloseProcess when all have.
CloseAll ==
  /\ \A t \in Threads : ~Calling(t)
  /\ CloseProcess
  /\ m_clock' = ZeroStamp
  /\ reported' = NothingReported
  /\ stats' = KeepLive(stats, NoNodes)
  /\ calls' = KeepLive(calls, NoNodes)
  /\ quiet' = [t \in Threads |-> 0]
  /\ UNCHANGED <<clocks, marker, began>>

ReportNext ==
  \/ Tick
  \/ SetClock
  \/ \E r \in Records, t \in Threads, name \in Names : Open(r, t, name)
  \/ \E r \in Records : Innermost(r) /\ Close(r)
  \/ \E t \in Threads : ReportOne(t) \/ CloseOne(t)
  \/ ReportAll
  \/ CloseAll

ReportSpec == ReportInit /\ [][ReportNext]_reportVars

-----------------------------------------------------------------------------
(* Properties *)

\* The numbers exist for the nodes of the trees in the map and are words; the
\* root is never measured.
ReportTypeOK ==
  /\ machine \in TimeStamp /\ m_clock \in TimeStamp
  /\ marker \in [Records -> TimeStamp]
  /\ \A a \in Trees :
       /\ \A n \in DOMAIN stats[a] : stats[a][n] \in Stats
       /\ DOMAIN stats[a] = IF Live(a) THEN DOMAIN calls[a] \cup {Root} ELSE {}

SumOf(log, what) == SumFunction([i \in DOMAIN log |-> log[i][what]])

TimesOf(log) == {log[i].time : i \in DOMAIN log}

\* The clock was not set in any of the calls of the log; the system time of
\* the process was not zero when any of them began.
Undisturbed(log) == \A i \in DOMAIN log : ~log[i].clockSet
CPUWasRead(log) == \A i \in DOMAIN log : log[i].cpuRead

\* What a report says of a node is true of the calls on its path: how many
\* returned, and how long they took in all, at most and at least, since the
\* tree was made and since its last report.  Not so once the clock was set in
\* the middle of one of them; and a minimum is never above
\* INITIAL_MIN_VALUE.
StatsTellCalls ==
  \A a \in Trees : \A n \in DOMAIN calls[a] : \A span \in {"total", "interval"} :
    LET told == stats[a][n][span]
        log == calls[a][n][span]
    IN  /\ told.count = Len(log)
        /\ Undisturbed(log) =>
             /\ told.time = SumOf(log, "time")
             /\ told.max = Max(TimesOf(log) \cup {0})
             /\ told.min = Min(TimesOf(log) \cup {INITIAL_MIN_VALUE})

\* The CPU time charged to a node is what the process used during its calls.
\* Not so for a call that began before the process had used any system time:
\* it is charged with all that the process used before.
CPUTellsCalls ==
  SHOW_CPU =>
    \A a \in Trees : \A n \in DOMAIN calls[a] : \A span \in {"total", "interval"} :
      LET told == stats[a][n][span]
          log == calls[a][n][span]
      IN  CPUWasRead(log) => /\ told.userCPU = SumOf(log, "userCPU")
                             /\ told.systemCPU = SumOf(log, "systemCPU")

Children(a, n) == {m \in DOMAIN calls[a] : Parent(m) = n}

\* The time of the call that is open on node n of the tree at a.
OpenTime(a, n) ==
  LET here == {r \in Records : IsOpen(r) /\ rec[r].tree = a /\ rec[r].node = n}
  IN  SumFunction([r \in here |-> now - began[r].time])

\* An element accounts for part of the time of the one above it (README,
\* "Logged data"): however reports and returns interleave, the total of a
\* node covers those of its children.
ChildrenWithinParent ==
  \A a \in Trees : \A n \in DOMAIN calls[a] :
    (\A m \in Children(a, n) \cup {n} : Undisturbed(calls[a][m].total))
      => SumFunction([m \in Children(a, n) |-> stats[a][m].total.time])
           <= stats[a][n].total.time + OpenTime(a, n)

\* The interval that a report of the process would print now, in
\* milliseconds, is the time since the last one that printed anything, cut to
\* a millisecond.  It is shorter when a thread was new since.
ReportCoversInterval ==
  processFound /\ ~reported.clockSet =>
    LET printed == InMilliseconds(Elapsed(m_clock, machine).wallClock)
        gap == now - reported.time
    IN  /\ printed <= InMilliseconds(gap)
        /\ ~reported.newThread => printed = InMilliseconds(gap)

\* README, "Instructions": if the threshold that the caller asked for is reached
\* when the call returns, it is logged.  The code wants it exceeded, and as an
\* int32_t a threshold of 2^31 or more is negative, which never is.
ReachedThresholdIsLogged ==
  \A r \in Records, us \in Thresholds :
    IsOpen(r) /\ ~began[r].clockSet /\ us > 0 /\ now - began[r].time >= us
      => Alarm(r, ToInt32(us))

\* No tree outlives a second report after the last call of its thread: if the
\* pthread_t of a thread that ended is given to a new one after that, the new
\* one does not continue the name and the totals of the old one.
QuietThreadsGo == \A t \in Threads : quiet[t] <= 1

=============================================================================
