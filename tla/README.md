# A TLA+ model of RDKPerf

RDKPerf times instrumented functions. An application creates an `RDKPerf`
object where a function or a section begins; when the object is destroyed the
elapsed time is added to a node of the calling thread's call tree. Trees are
reported on demand and by a background timer. There are two builds: in the
*in-process* build the trees live in the application, in the *remote* build
(`PERF_REMOTE`) the application sends messages to `perfservice`, which keeps
the trees of all its clients.

Paths below are relative to the repository's root.

## Inventory

| part | source | state | operations | interacts with |
|---|---|---|---|---|
| scoped lock | `src/rdk_perf_scopedlock.*` | one recursive mutex, `_bMutexInit` | enter a scope (initialising the mutex if need be), leave it | taken by nearly everything, logging included |
| logging | `src/rdk_perf_logging.*` | verbosity flag | log a line under the lock; module constructor | its constructor is what initialises the mutex |
| call tree | `src/rdk_perf_tree.*`, `src/rdk_perf_node.*` | nodes by name under their parent, stack of open nodes, activity counts, statistics | `AddNode`, `CloseNode`, `IncrementData`, `IsInactive`, `ReportData` | owned by a process' thread map; records point into it |
| process table | `src/rdk_perf_process.*` | `sp_ProcessMap`, `m_mapThreads` | find, insert, remove a process; get, make, remove a tree; close inactive threads; report | records, C interface, timer, service |
| records | `src/rdk_perf_record.*`, `RDKPerfInProc` | thread, pointer to a node, start time, threshold | construct, destroy | tree of the constructing thread |
| C interface | `rdkperf/rdk_perf.*` | none | start, stop, report or close a thread or the process | in-process: the table; remote: the queue |
| timer, module life cycle | `rdkperf/rdk_perf.cpp` | `TimerCallback`, its thread, back-off counters | module constructor and destructor, `Task`, `Loop`, `Wait`, `StopTask` | reports the process; looks into the process map |
| remote client | `RDKPerfRemote` | name, start time, `s_pQueue` | construct, destroy, set threshold | message queue |
| message queue | `src/rdk_perf_msgqueue.*` | a POSIX queue of 10 messages and its name, references | open, send, receive, release, unlink | clients and service |
| service | `service/perfservice.cpp` | process map and trees of all clients, timeout count | duplicate test, `RunLoop`, a handler per message | message queue, trees |
| clocks, statistics | `src/rdk_perf_clock.*`, `TimingStats` | time stamps of records and of the process; sums, minima, maxima of nodes | marker, elapsed, increment, reset | nodes, reports, thresholds |
| disabled build, inline metrics, ftrace helper | headers | none shared | print | nothing |

**What is hard here.** (1) Records hold raw pointers into trees that other
threads, the timer and explicit closes delete. (2) Whether a thread is idle is
judged from a count of entered calls. (3) Records may be closed in any order
and by any thread, while the tree pops its stack only for the right one.
(4) The lock everything relies on initialises itself without a lock. (5) The
library may be unloaded while its timer thread is at any point, that thread's
first step included. (6) In the remote build reports and closes of all threads
are queued between entries and exits; mq_send blocks when ten messages wait,
with the lock held in the C interface, and may fail, which nobody looks at. (7) The queue's name and the queue have
different lifetimes: services restart, are killed, race with one another, and
clients keep old descriptors. (8) The numbers in a report are made by several
clocks, one of them restarted by every new thread and all of them open to a
clock that is set, and by two kinds of reports that reset some of them.
PROJECT.json lists these as hazards, each at its
line.

**What makes each part correct.** The lock: scopes exclude one another and
nest, and the mutex is never made anew while in use. The tree: the stack is a
call path, never empty. The table: a tree per thread, none without a process,
none of them deleted while a record points into it other than by request. The
profile: a thread's stack is its open calls, each measurement is charged to
the path on which the call was made, and idle threads go. The timer: its
objects outlive it, its reports go on and ever more slowly, it ends with the
library. The service: its trees catch up with the calls, no exit misses its
call, unless a message or a process was lost. The queue: one service, reachable by its name, one queue for each client,
and no client blocked. The numbers: a report tells of the calls that returned
in the time it says it covers.

## Modules

| module | models | state |
|---|---|---|
| `PerfTree` | the call tree of a thread, as operators used by both builds | (none) |
| `InProc` | records, thread map, process entry, C interface, in-process build | `processFound`, `mapThreads`, `trees`, `rec`, `fault` |
| `CallProfile` | abstract: what the profiler promises its callers | `calls`, `frame` |
| `PerfClock` | time stamps, `Marker` and `Elapsed`, as operators over a machine | (none) |
| `TimingStats` | the numbers of a node, as operators | (none) |
| `PerfReport` | `InProc` under scoped use with its clocks and numbers, and which calls its thresholds log, while time passes | those of `InProc`, `machine`, `marker`, `m_clock`, `stats`, history |
| `ScopedLock` | the lazily initialised mutex from loading on | `loading`, `_bMutexInit`, `holder`, `depth`, `pc`, `nest` |
| `RecursiveLock` | abstract: what a recursive lock promises | `nest` |
| `TimerBackoff` | the counters of `TimerCallback::Loop` | `m_nCount`, `m_nDelay`, two history variables |
| `TimerTask` | the timer thread, module constructor and destructor; extends `TimerBackoff` and implements it | `main`, `task`, `m_bContinue`, `m_current_state`, what exists, the counters |
| `PerfService` | remote objects, messages and handlers; uses `PerfTree` | `s_pQueue`, `obj`, `sending`, `queue`, `service`, the history `astray` |
| `PerfMsgQueue` | the life of the queue and of the services that read it | `name`, `curmsgs`, `svc`, `m_queue`, `nTimeoutCount`, `s_PerfQueue`, `s_pQueue`, `m_RefCount`, `caller`, `lock`, the history `orderly` |
| `*MC` | model values and symmetry for TLC | |
| `PerfTreeProofs`, `InProcProofs`, `InProcScopedProofs`, `PerfReportProofs`, `PerfServiceProofs`, `ScopedLockProofs`, `TimerProofs`, `PerfMsgQueueProofs` | theorems and their lemmas | |

How the models correspond to the code:

* **Nodes are paths.** `AddChild` finds or makes one child per name, so a node
  is the sequence of names from the root, the root is `<<>>`, and two calls
  share a node exactly when they take the same path. The children of a node
  need not be stored.
* **Counts are compared, not read.** `m_ActivityCount` only grows and
  `m_CountAtLastReport` is only set to it; the model keeps whether they
  differ, `newCalls`. `PerfTree` keeps which nodes were measured since the
  last report, `measured`; their numbers are `PerfReport`'s.
* **Locked operations are atomic.** In `InProc` each call of the library is
  one action, because it holds SCOPED_LOCK for as long as it runs; the
  module `ScopedLock` is what that rests on. In `TimerTask` the steps of the
  two threads are as fine as the code's unlocked accesses: `m_bContinue` is
  tested and set in steps of its own, `Wait` and `Signal` are atomic where
  they hold `m_mtx`, and each look into the process map is a step.
* **Undefined behaviour.** A record whose tree was deleted, and a call through
  a NULL process, set `fault` and the model stops. Addresses of trees are not
  reused while a record remembers them, so that a dangling record is
  recognised. `pthread_mutex_init` on a mutex in use sets it to a free one;
  that it fails, while the library is loaded, is left out.
* **Messages** carry their type, the thread that sends them and (as history)
  the whole path of the call; the handlers see only the last name of it, which
  is what the code sends. `mq_send` is two steps, `SendMessage` and `Enqueue`,
  so that other threads and the service move while a sender waits. It may also
  fail (`LoseMessage`, instead of `Enqueue`): a signal comes while it waits, for
  instance. That is logged, no caller looks at the result, and the message is
  gone, be it that of an entry or of an exit.
* **Numbers beside trees.** Each action of `PerfReport` is the action of
  `InProc` for the same operation, conjoined with what the operation does to
  clocks and numbers. Words have `WordBits` bits and wrap as `uint64_t` does;
  averages and percentages are quotients of these and are left out. Time
  passes between operations, not within them (a report reads the clock for its
  interval and again for the next one's start: the model gives both the same
  time); the wall clock may be set while a call is open; user and system CPU time advance
  by turns. The histories keep, for each node, the true times of its calls:
  the properties compare what is printed with them.
* **Thresholds** have no state in `PerfReport`: a record's threshold decides
  whether its destructor logs (`Alarm`) and nothing else, so that a property of
  thresholds tries every one on every open record at every moment at which it
  may close.
* **Queues** in `PerfMsgQueue` are counted, not filled: what is in the
  messages is `PerfService`'s subject, and which queue they are in this one's.
  The steps of a thread are as fine as its unlocked accesses: a constructor
  tests `s_pQueue` (`FindNoQueue`), makes or finds the `PerfMsgQueue` under the
  lock (`GetQueue`, which sets `s_PerfQueue` and counts a reference) and stores
  it (`StoreQueue`, which sets `s_pQueue`). A thread waits for SCOPED_LOCK on
  entry to `RDKPerfStart` and `RDKPerfStop` ("waiting"), to open the queue and
  to log a message that it could not send. `mq_open` may fail for clients and
  for services, whose `main` goes on into `RunLoop` all the same.

`PerfService` omits SCOPED_LOCK around sends: its behaviours include those of
the code. `PerfMsgQueue` has the lock, because there it matters.

## Two ways of using the library

The interface lets a program destroy records in any order and on any thread,
and close threads and processes at any time. `Spec` of `InProc` and of
`PerfService` allows all of that.

For the in-process build, `ScopedSpec` is the use that the repository's
README.md shows first: the object is a local variable, so that the innermost
one of a thread is destroyed first and by its own thread; threads are closed
when they have left their scopes, the process when all have. The strong
properties hold for `ScopedSpec`, and the run over `Spec` says what is left of
them. `PerfReport` is about scoped use as well.

In the remote build scopes are not enough, as a message may be lost and a
process may end at any point, and what goes wrong in one process must not
disturb another. So there is one specification, and a history for each process:
`astray` says whether something has happened to it since it was last closed
after which the trees cannot show its calls: the message of an entry or of an
exit was lost, the process ended in a call (and its id may be used again), an
object was destroyed out of order or by another thread, or a thread was closed
in a call. A close of the process that is sent when no thread of it is in a
call makes an end of that, once it is in the queue for what is sent after it,
and once it is handled for all. The properties say that nothing else makes the
trees differ from the calls.

## Runs

| run | specification | checks | states |
|---|---|---|---|
| `inproc_any` | any use; 2 threads, 3 records, 5 addresses, 1 name, stacks of 4 | `TypeOK`, `TableConsistent`, `StackIsCallPath`, `OpenRecordsOnStack`, `OnlyCloseFrees` | 33,202 |
| `inproc_scoped` | scoped use, fair timer; 2 threads, 2 records, 2 addresses, 2 names, stacks of 3 | `MemorySafe`, `StackMirrorsCalls`, `ProfileSpec` (refines `CallProfile`), `IdleThreadRemoved` | 91,008 |
| `scoped_lock` | 3 threads, scopes up to 3 deep | `TypeOK`, `MutexCountsScopes`, `NoLateInit`, `LockSpec` (refines `RecursiveLock`) | 130 |
| `report_numbers` | scoped use with time, PERF_SHOW_CPU; 2 threads, 2 records, 2 addresses, 1 name, stacks of 3, 3 units of time, 2 measured calls, words of 4 bits | `ReportTypeOK`, `StatsTellCalls`, `CPUTellsCalls`, `ChildrenWithinParent`, `ReportCoversInterval`, `QuietThreadsGo` | 475,176 |
| `timer_task` | both threads fair; maximal delay 60, step 5 | `TypeOK`, `MapOutlivesTask`, `TimerOutlivesTask`, `OneLateReport`, `GapsNeverShrink`, `BegunTaskIsJoined`, `SteadyState` | 91,737 |
| `service_any` | any use, lost messages, processes that end anywhere; 1 process, 2 threads, 2 objects, queue of 1, stacks of 3 | `TypeOK`, `ServiceTablesConsistent`, `ExitFindsItsCall`, `TreesCatchUp` | 2,064,758 |
| `queue_any` | services start, exit, are killed, fail to open at any time; 2 services, 1 process of 2 threads, 2 queues of 1 message, 1 timeout | `TypeOK`, `ServiceReachable`, `NameIsServed`, `OneReferenceEach`, `QueueIsKept`, `ServedCallsReturn` | 733,924 |

Each property of these runs is also checked to fail when the code is changed
in a plausible way: the definitions marked *Mutant* in the modules.

Runs that end in a counterexample, where a document or a comment says
otherwise than the code (PROJECT.json quotes the line of each):

| run | the code's behaviour |
|---|---|
| `inproc_lost_calls` | a call is open while its thread is reported and returns afterwards; the next report deletes the tree without printing the measurement |
| `timer_ten_minutes` | the delay counts passes of ten seconds: the steady gap is 601 passes, 100 minutes |
| `timer_exit_signal` | `StopTask` runs before the new thread's first step, which sets `m_bContinue` again; the join never returns |
| `report_thresholds` | a call that takes exactly as long as its threshold is not logged, and none is for a threshold of 2^31 or more |
| `queue_blocked` | a service exits and is started again; a client that keeps the old queue fills it and is blocked for good |

Other behaviours of the code that the models contain, and that no run singles
out:

* Two records closed outer first leave a node on the stack, and the idle
  thread in the table, for good (`IdleThreadRemoved` fails under `FairSpec` of
  `InProc`; README.md says that such a thread is removed).
* After a report the log announces the next one for `m_nDelay` passes later;
  it comes one pass after that (`TimerBackoff`, `GapInv` in its proofs).
* The totals of a node begin again when its thread was quiet for a whole
  interval, because its tree was deleted; README.md:127 speaks of the life
  time of the process. `StatsTellCalls` is about the life of the tree.
* A wall clock that is set back in the middle of a call leaves an enormous time
  in the total and the maximum of its node for as long as the tree lives; a
  call that begins before the process has used any system time is charged
  with all its user time so far (PERF_SHOW_CPU).
* A new thread shortens the interval that the next report prints.
* A process of the remote build that ends inside a call leaves its stack to
  the next one with its id, until that one closes the process
  (`PerfService`, `astray`).
* A lost entry makes the service drop the exit of the same call, or take it for
  that of an outer call of the same name; a lost exit leaves a node on the
  stack under which all later calls of the thread are shown. The process stays
  so until it is closed outside of all calls (`PerfService`, `astray`).
* A service whose `mq_open` fails goes on into `RunLoop`, where
  `mq_timedreceive` fails and ends it; a client whose `mq_open` fails has no
  queue for the rest of its life (`PerfMsgQueue`).
* Nothing reports on its own in the remote build: the timer of a client finds
  no process in its map, and perfservice links libperftool only, which has no
  timer. The service reports when a client asks for it.
* Nothing is reported when a process ends: `PerfModuleTerminate` has the call
  of `RDKPerf_ReportProcess` under `#if 0` (`rdkperf/rdk_perf.cpp:220`), while
  a comment of a test (`test/perftest.cpp:163`) relies on it. `TimerTask`
  has no such step.
* Two threads that open the queue together take a reference each and the
  module destructor releases one, so that the queue stays open until the
  process ends (`PerfMsgQueue`).
* In the remote build `RDKPerf_ReportThread` and `RDKPerf_CloseThread` are
  about the thread that calls them, whichever is given (`PerfService`).
* A service that was killed leaves the queue's name, and every later one takes
  itself for a duplicate; two services that are started together both run, one
  of them on a queue without a name (`PerfMsgQueue`). `ServiceReachable` and
  `NameIsServed` say that nothing else can go wrong between name and service:
  they hold while `orderly` does.

**Why the bounds are enough.** Two threads show every interference between a
thread and another one or the timer, since the library's own operations are
atomic. Two records in one thread, and stacks of a root and two nodes, are
the least with which closing out of order, recursion and siblings happen; in
`inproc_any` there is one more of each. One name makes paths coincide, two
make them differ. In `report_numbers` two measured calls give a sum, a
maximum and a minimum that differ, one above and one below
`INITIAL_MIN_VALUE`, or a call within a call; three units of time give
intervals of less than a `Millisecond` and of more; four bits are enough that
only a clock that was set back wraps. `inproc_any` has as many addresses as
records and threads can pin, so a new tree always finds one. A queue of one message already makes
senders wait, and together with the senders that wait three messages are on
their way; that longer queues keep the order of what a thread sends is in the
theorems about them, which are for every `mq_maxmsg`. Two services
race, replace and duplicate one another, and two queues are enough for one
that is served and a forgotten one; in `queue_blocked` there are three, of two
messages. The bounds are named: `MaxDepth`,
`MaxNest`, `MaxTime`, `MaxCalls`, `SetTime`, and the constants `mq_maxmsg`,
`MAX_TIMEOUT`, `MAX_DELAY`, which have other values in the code (10, 6, 600);
`timer_ten_minutes` runs with 600.

Symmetry is used for threads, records, addresses and names, only in runs
without liveness. Deadlock is checked except where the model does stop:
`inproc_any` (the first undefined behaviour ends the process), `timer_task`
and `timer_exit_signal` (the library is unloaded), `report_numbers` (time and calls run out; so they do in `report_thresholds`),
and `service_any`, where `MaxDepth` may leave a process that inherits a deep stack
with nothing to do.

## Fairness

* `InProc`: the timer calls `ReportProcess` again and again (`Task` is a
  loop); applications need not do anything.
* `TimerTask`: each thread runs when it can; nothing has to unload the
  library. `SteadyState` is about runs in which the library stays loaded and
  the process stays in the map. `BegunTaskIsJoined` rests on the timeout of
  `wait_for`.
* `PerfMsgQueue`: a service that can receive does; a sender that waits is
  served in its turn (strong fairness of `SendMessage`: `mq_send` admits
  waiting senders in the order of their arrival at one priority). No message
  has to be lost: `LoseMessage` is not fair, so that no call returns only
  because its message may fail. A mutex of pthreads need not be fair to those
  that wait for it: a thread takes the lock if it stays free, but others may
  take it by turns. `ServedCallsReturn` therefore leaves out the threads that
  wait for the lock, on entry, to open the queue or to log a failure.
  `FairSupervisedSpec` grants even a fair lock, queues that open and an eager
  supervisor, and the call still does not return.
* `PerfService` and `PerfReport` state safety only.

## Proofs

TLAPS checks every theorem, for all values of the constants that the modules'
assumptions allow: that `Null` is nothing else (`NullAssumption`), that bounds
and delays are numbers and sets are finite where they are summed over
(`MaxDepthAssumption`, `LoaderAssumption`, `MaxNestAssumption`,
`DelayAssumption`, `QueueAssumption`, `BoundAssumption`, `TidsAssumption`,
`WordAssumption`, `InitialMinAssumption`, `ReportAssumption`), and that the
words are wide enough (`WidthAssumption`). Only the last says something about
the code: wall clocks, the number of the calls and the sum of their times are
less than 2^`WordBits`. With 64 bits and microseconds that is true of half a
million years of calls; the runs use words of four bits and the same
assumption, which TLC evaluates.

Every safety property that a passing run checks is a theorem. They hold of the
specifications with fairness as well, whose behaviours are among those of the
ones without.

* `PerfTreeProofs`: what the tree operators preserve. `AddNode` turns an empty
  or a call-path stack into a longer call path and keeps every node that was
  on it; `CloseNode` of a node other than the root takes off at most that
  node, from the top; a report keeps the stack.
* `InProcProofs`: `IInv`, the conjunction of `TypeOK`, `TableConsistent`,
  `StackIsCallPath` and `OpenRecordsOnStack`, is inductive under **any** use of
  the interface. None of the four is inductive alone: that a stack never loses
  its root follows from records never having the root for their node
  (`TypeOK`); that a popped node belongs to no other record from their being
  distinct; that a new tree is empty from deleted trees being empty
  (`TableConsistent`). There is a lemma for each action; `CloseThread`,
  `CloseProcess` and the first half of a report share
  `DeleteTreesKeepsIInv`. `OnlyCloseFrees` follows because a record's node on
  the stack makes its tree active (`AttachedIsActive`), so a report leaves it.
* `InProcScopedProofs`: `SInv` adds `MemorySafe` and `StackMirrorsCalls`. Each
  needs the other: closing the innermost record pops its node, and no other,
  because the node on top belongs to an open record of the thread
  (`InnermostIsActive`); a report deletes no tree that is in use because the
  node of an open record is above the root (`CallingIsActive`). Under `SInv`
  each step of scoped use is a step or a stutter of `CallProfile`
  (`ScopedNextImplements`), where a thread is in the call on top of its tree
  (`CallsShown`): entries and returns are those of the innermost call, reports
  and closes change nothing that a caller sees (`ProfileKept`).
* `PerfServiceProofs`: `Inv` holds under any use, crashes included. Every
  handler leaves a consistent service, whatever the message
  (`HandleMessageEffect`), because no message of a call names the root.
  `FollowInv` is about the messages on their way, under any use as well.
  `Replay` is the service
  after each of the messages in the queue; `Follows` says that each message
  fits what the service will show of its thread by then (an entry is that of a
  call from there, an exit that of the call on top, a close comes when no call
  is open), and that what is shown at the end, after the message that the
  thread waits to send, is the path of its calls. For a process that went
  astray this is so from the close on that it sends outside of all calls.
  A step of the service shifts the replay by one; a new message extends it,
  and fits because the objects of a thread that is not astray measure nested
  calls (`CallsNested`)
  and because nothing of another thread moves its tree but the close of the
  process, after which it is only followed when no thread was in a call. A
  lost report or close changes nothing that was to be shown.
  `ExitFindsItsCall` is `Follows` at the head of the queue and `TreesCatchUp`
  at its end.
* `PerfReportProofs`: a step of `PerfReport` is one of scoped use
  (`MeasuringIsScopedUse`), so `SInv` holds. `RInv` adds what the properties need:
  * the machine's clock is below the width (`ClockTyped`), the marker of an
    open record is the time at which it was opened (`MarkersTrue`), so that
    what a destructor measures is true (`MeasuredIsTrue`), which the numbers
    rest on;
  * the clock of the process is marked at the last report, or later
    (`IntervalTrue`): `ReportCoversInterval`;
  * a thread reported since its last call is inactive (`QuietIsInactive`), so
    that the next report closes it: `QuietThreadsGo`;
  * numbers and logs have the same nodes (`NumbersTyped`: `ReportTypeOK`), and
    say the same (`NumbersTell`: `StatsTellCalls`, `CPUTellsCalls`). No sum
    wraps because a log has at most `MaxCalls` calls (`CallsBounded`) of at
    most `MaxTime` each;
  * the time spent at a node, returned and open, covers that of its children
    (`TimeNests`). The reported totals alone are not inductive: they say
    nothing of a call that is open. Time that passes is added to at most one
    child of a node (`OneOpenChild`), and then to the node (`OpenChild`), as
    the stack is that of the open calls; a return moves time from the open
    call to the log. `ChildrenWithinParent` follows, as the totals of
    undisturbed calls are their logs' and a child's open time is not negative.

  The sums are the library's `SumFunction`, a recursion that is hidden in a
  CHOOSE. `SumExists` shows that it has a solution and `SumsAgree` that it has
  one, by induction; what sums do when an element is added or changed
  follows (`TotalOfOne` and the lemmas after it).
* `ScopedLockProofs`: `LockInv` adds to the checked invariants that nobody but
  the loading thread is in a scope while the library is loaded
  (`LoadingAlone`) and that a thread entering a scope has room for it. It
  gives mutual exclusion, that the initialisation is never late, and the
  refinement of `RecursiveLock`: only `Lock` and `Unlock` change `nest`, and
  `MutexCountsScopes` makes the first an `Acquire` and the second a `Release`.
* `TimerProofs`: for the counters alone, `GapInv` relates them to the length
  of the gap that they produce; bounded counters and growing gaps follow.
  Which objects exist, and that the timer thread has ended,
  follow from how far loading and unloading have come (`Lifetimes`). That
  there is at most one late report needs where the thread stands when
  `StopTask` clears the flag. Every step of `TimerTask` is a step or a stutter
  of `TimerBackoff` (`TaskImplementsBackoff`), which carries the bounds and
  the growing gaps over, and with them `TypeOK`.
* `PerfMsgQueueProofs`: `ServiceInv` adds to `TypeOK` that `RunLoop` counts one
  timeout too many only when it leaves, and (`OrderlyName`) that services which
  are not started together are alone from their test of the name on: each
  unlinks it and then holds it, unless its queue does not open, when there is
  no name. That gives `ServiceReachable` and `NameIsServed`. That a process has
  a reference per thread at most is inductive (`RefInv`) with the threads
  between the two stores in it: one that still has to store what `GetQueue`
  returned does so while `s_PerfQueue` is set. A thread finds no queue only
  while the first store has not been made (`FindNoQueueKeepsRefs`), and
  `GetQueue` turns each thread that waits to open the queue into a reference
  (`GetQueueKeepsRefs`).

Induction is by well-foundedness of the natural numbers: a set of them that is
not empty has a least one (`LeastNumber`), which gives `InductiveSet`, an
induction rule about a set of numbers instead of an operator.

Only model-checked: all liveness (`IdleThreadRemoved`, `SteadyState`,
`BegunTaskIsJoined`, `ServedCallsReturn`), which is beyond the prover. The
findings are counterexamples that TLC finds; there is nothing to prove.

## Not modelled

The text of reports and logs, with the averages and percentages in it; what a
threshold report prints of the nodes below; a node's threshold in the service,
which nothing reads. Receiving without a timeout, which nothing calls. Thread
names and the end of a `pthread_t` (`QuietThreadsGo` bounds how long its tree
can be found by a new one). Application threads that run on after
`PerfModuleTerminate` (undefined behaviour). `fork`. The disabled build, the
inline metrics macros and the ftrace helper, which share no state with the
library. The numbers of the remote build: the service uses the same
`TimingStats` with the time that the client measured and no CPU time.

## Plan

Done: the lock, on which atomicity rests; the tree and the in-process build
with their proofs; the timer, down to its back-off, with its proofs; the
remote build in its two aspects, with processes that end and references to the
queue, both with their proofs; clocks, numbers and intervals of
the in-process build, with theirs, and its thresholds.

Every safety property that a run checks is proved. Next:

1. what is left when use is not scoped: that under `Spec` of `InProc` the only
   undefined behaviours are a record that outlives the close of its thread or
   process and a report without a process;
2. what a report of the process covers when the clock was set in a call: the
   bounds on the numbers that still hold;
3. proofs that are shorter, where lemmas of different modules say the same.

Not planned: a refinement of `CallProfile` by the remote build, which would
have to say when the service has caught up and is what `TreesCatchUp` says
directly; a thread's end and the reuse of its id beyond `QuietThreadsGo`.
