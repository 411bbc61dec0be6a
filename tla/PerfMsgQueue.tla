---------------------------- MODULE PerfMsgQueue ----------------------------
(***************************************************************************)
(* The life of the message queue of the remote build: class PerfMsgQueue   *)
(* (src/src/rdk_perf_msgqueue.cpp) in the instrumented processes and in    *)
(* perfservice, whose main and RunLoop (service/perfservice.cpp) make the  *)
(* queue, read it and remove it.  What the messages say is in PerfService; *)
(* here they are only counted.                                             *)
(*                                                                         *)
(* A POSIX queue has a name, which can be unlinked and given to another    *)
(* queue while descriptors of the first are open; it exists as long as it  *)
(* has its name or a descriptor.                                           *)
(***************************************************************************)
EXTENDS Naturals, FiniteSets

CONSTANTS Services,     \* processes that run perfservice, one after another or not
          Procs, Tids,  \* the instrumented processes, and the threads of each
          Queues,       \* the message queues of the system
          NULL,         \* no queue, no descriptor, no thread
          Failed,       \* the descriptor that mq_open failed to make
          mq_maxmsg,    \* capacity of a queue, 10 in the code
          MAX_TIMEOUT   \* receive timeouts that RunLoop puts up with, 6 in the code

ASSUME QueueAssumption == NULL \notin Queues /\ Failed \notin Queues /\ Failed # NULL
ASSUME BoundAssumption == mq_maxmsg \in Nat \ {0} /\ MAX_TIMEOUT \in Nat
ASSUME TidsAssumption == IsFiniteSet(Tids)

Threads == Procs \X Tids
Pid(t) == t[1]

VARIABLES name,      \* the queue that RDK_PERF_MSG_QUEUE_NAME refers to
          curmsgs,   \* curmsgs[q]: the messages in queue q
          svc,       \* svc[s]: where service s is in main
          m_queue,   \* m_queue[s]: the descriptor of service s
          nTimeoutCount,
          orderly,   \* history: no service was killed, or started with another there
          s_PerfQueue,\* s_PerfQueue[p]: the descriptor of process p, in its PerfMsgQueue
          s_pQueue,  \* s_pQueue[p]: the same once a constructor has stored it
          m_RefCount,\* m_RefCount[p]: the references that p holds to its queue
          caller,    \* caller[t]: where thread t is in a call of the library
          lock       \* lock[p]: the thread of p that is in SCOPED_LOCK

serviceVars == <<svc, m_queue, nTimeoutCount, orderly>>
queueOf == <<s_PerfQueue, s_pQueue, m_RefCount>>
clientVars == <<queueOf, caller, lock>>
vars == <<name, curmsgs, serviceVars, clientVars>>

Init ==
  /\ name = NULL
  /\ curmsgs = [q \in Queues |-> 0]
  /\ svc = [s \in Services |-> "off"]
  /\ m_queue = [s \in Services |-> NULL]
  /\ nTimeoutCount = [s \in Services |-> 0]
  /\ orderly = TRUE
  /\ s_PerfQueue = [p \in Procs |-> NULL]
  /\ s_pQueue = [p \in Procs |-> NULL]
  /\ m_RefCount = [p \in Procs |-> 0]
  /\ caller = [t \in Threads |-> "outside"]
  /\ lock = [p \in Procs |-> NULL]

Goto(s, from, to) == svc[s] = from /\ svc' = [svc EXCEPT ![s] = to]

-----------------------------------------------------------------------------
(* perfservice *)

IsStopped(s) == svc[s] \in {"off", "duplicate"}
Alone(s) == \A other \in Services \ {s} : IsStopped(other)

\* IsQueueCreated finds a queue: main exits, "service is a duplicate".
ExitAsDuplicate(s) ==
  /\ name # NULL
  /\ Goto(s, "off", "duplicate")
  /\ UNCHANGED <<name, curmsgs, m_queue, nTimeoutCount, orderly, clientVars>>

\* IsQueueCreated finds none, or cannot open the one there is: main goes on to
\* GetQueue.
Start(s) ==
  /\ IsStopped(s)
  /\ svc' = [svc EXCEPT ![s] = "unlinking"]
  /\ orderly' = (orderly /\ Alone(s))
  /\ UNCHANGED <<name, curmsgs, m_queue, nTimeoutCount, clientVars>>

\* The constructor for the service first unlinks the name ...
Unlink(s) ==
  /\ Goto(s, "unlinking", "opening")
  /\ name' = NULL
  /\ UNCHANGED <<curmsgs, m_queue, nTimeoutCount, orderly, clientVars>>

Unused(q) ==
  /\ name # q
  /\ \A s \in Services : m_queue[s] # q
  /\ \A p \in Procs : s_PerfQueue[p] # q

\* Mutant: the queue is made, then the name unlinked.
OpenThenUnlink(s) ==
  /\ Goto(s, "opening", "running")
  /\ \E q \in Queues : Unused(q) /\ m_queue' = [m_queue EXCEPT ![s] = q]
  /\ name' = NULL
  /\ nTimeoutCount' = [nTimeoutCount EXCEPT ![s] = 0]
  /\ UNCHANGED <<curmsgs, orderly, clientVars>>

\* ... then opens it, which makes a queue unless the name exists again.
Open(s) ==
  /\ Goto(s, "opening", "running")
  /\ \/ name # NULL /\ UNCHANGED <<name, curmsgs>>
     \/ /\ name = NULL
        /\ \E q \in Queues : Unused(q)
        /\ name' = CHOOSE q \in Queues : Unused(q)
        /\ curmsgs' = [curmsgs EXCEPT ![name'] = 0]
  /\ m_queue' = [m_queue EXCEPT ![s] = name']
  /\ nTimeoutCount' = [nTimeoutCount EXCEPT ![s] = 0]
  /\ UNCHANGED <<orderly, clientVars>>

\* mq_open fails: that is logged, and main enters RunLoop all the same.
OpenFails(s) ==
  /\ Goto(s, "opening", "running")
  /\ m_queue' = [m_queue EXCEPT ![s] = Failed]
  /\ nTimeoutCount' = [nTimeoutCount EXCEPT ![s] = 0]
  /\ UNCHANGED <<name, curmsgs, orderly, clientVars>>

\* RunLoop receives a message.
Receive(s) ==
  /\ svc[s] = "running" /\ m_queue[s] \in Queues
  /\ curmsgs[m_queue[s]] > 0
  /\ curmsgs' = [curmsgs EXCEPT ![m_queue[s]] = @ - 1]
  /\ nTimeoutCount' = [nTimeoutCount EXCEPT ![s] = 0]
  /\ UNCHANGED <<name, svc, m_queue, orderly, clientVars>>

\* ReceiveMessage times out; after MAX_TIMEOUT of them RunLoop returns.
Timeout(s) ==
  /\ svc[s] = "running" /\ m_queue[s] \in Queues
  /\ curmsgs[m_queue[s]] = 0
  /\ \/ nTimeoutCount[s] < MAX_TIMEOUT /\ UNCHANGED svc
     \/ nTimeoutCount[s] = MAX_TIMEOUT /\ svc' = [svc EXCEPT ![s] = "leaving"]
  /\ nTimeoutCount' = [nTimeoutCount EXCEPT ![s] = @ + 1]
  /\ UNCHANGED <<name, curmsgs, m_queue, orderly, clientVars>>

\* Any other error of mq_timedreceive ends RunLoop at once: a signal, or that
\* the queue could not be opened.  (The buffer has the size that nothing has set
\* then.  Should that crash the service, it is killed.)
ReceiveFails(s) ==
  /\ Goto(s, "running", "leaving")
  /\ nTimeoutCount' = [nTimeoutCount EXCEPT ![s] = 0]
  /\ UNCHANGED <<name, curmsgs, m_queue, orderly, clientVars>>

\* Mutant: the queue is closed and keeps its name.
ReleaseWithoutUnlink(s) ==
  /\ Goto(s, "leaving", "off")
  /\ m_queue' = [m_queue EXCEPT ![s] = NULL]
  /\ nTimeoutCount' = [nTimeoutCount EXCEPT ![s] = 0]
  /\ UNCHANGED <<name, curmsgs, orderly, clientVars>>

\* Release deletes the PerfMsgQueue: the queue is closed and its name, by now
\* perhaps that of another queue, unlinked.
Release(s) ==
  /\ Goto(s, "leaving", "off")
  /\ name' = NULL
  /\ m_queue' = [m_queue EXCEPT ![s] = NULL]
  /\ nTimeoutCount' = [nTimeoutCount EXCEPT ![s] = 0]
  /\ UNCHANGED <<curmsgs, orderly, clientVars>>

\* The service is killed or crashes: the name stays.
Kill(s) ==
  /\ ~IsStopped(s)
  /\ svc' = [svc EXCEPT ![s] = "off"]
  /\ m_queue' = [m_queue EXCEPT ![s] = NULL]
  /\ nTimeoutCount' = [nTimeoutCount EXCEPT ![s] = 0]
  /\ orderly' = FALSE
  /\ UNCHANGED <<name, curmsgs, clientVars>>

-----------------------------------------------------------------------------
(* The instrumented processes *)

\* Thread t calls the library: RDKPerfStart or RDKPerfStop, which wait for
\* SCOPED_LOCK and hold it until they return, or another function or a C++
\* object, which do not.
Call(t) ==
  /\ caller[t] = "outside"
  /\ \E where \in {"waiting", "calling"} : caller' = [caller EXCEPT ![t] = where]
  /\ UNCHANGED <<name, curmsgs, serviceVars, queueOf, lock>>

MayLock(t) == lock[Pid(t)] \in {NULL, t}

TakeLock(t) ==
  /\ caller[t] = "waiting" /\ MayLock(t)
  /\ caller' = [caller EXCEPT ![t] = "calling"]
  /\ lock' = [lock EXCEPT ![Pid(t)] = t]
  /\ UNCHANGED <<name, curmsgs, serviceVars, queueOf>>

Return(t) ==
  /\ caller' = [caller EXCEPT ![t] = "outside"]
  /\ lock' = IF lock[Pid(t)] = t THEN [lock EXCEPT ![Pid(t)] = NULL] ELSE lock

\* Mutant: every object asks for the queue.
AlwaysOpenQueue(t) ==
  /\ caller[t] = "calling"
  /\ caller' = [caller EXCEPT ![t] = "opening"]
  /\ UNCHANGED <<name, curmsgs, serviceVars, queueOf, lock>>

\* The constructor of an object looks at s_pQueue, with no lock of its own.
FindNoQueue(t) ==
  /\ caller[t] = "calling"
  /\ s_pQueue[Pid(t)] = NULL
  /\ caller' = [caller EXCEPT ![t] = "opening"]
  /\ UNCHANGED <<name, curmsgs, serviceVars, queueOf, lock>>

\* Any other call does without, if there is no queue; a destructor logs that.
SendNothing(t) ==
  /\ caller[t] = "calling"
  /\ s_pQueue[Pid(t)] = NULL
  /\ \/ Return(t)
     \/ caller' = [caller EXCEPT ![t] = "logging"] /\ UNCHANGED lock
  /\ UNCHANGED <<name, curmsgs, serviceVars, queueOf>>

\* What mq_open may return to a client.
Descriptors == {Failed} \cup ({name} \ {NULL})

\* Mutant: GetQueue relies on the test that its caller has made.
GetQueueUntested(t) ==
  /\ caller[t] = "opening" /\ MayLock(t)
  /\ \E mqd \in Descriptors : s_PerfQueue' = [s_PerfQueue EXCEPT ![Pid(t)] = mqd]
  /\ m_RefCount' = [m_RefCount EXCEPT ![Pid(t)] = @ + 1]
  /\ caller' = [caller EXCEPT ![t] = "storing"]
  /\ UNCHANGED <<name, curmsgs, serviceVars, s_pQueue, lock>>

\* GetQueue, under the lock: the process opens the queue once, whether that
\* succeeds or not, and each thread that got here takes a reference.
GetQueue(t) ==
  /\ caller[t] = "opening" /\ MayLock(t)
  /\ \E mqd \in Descriptors :
       s_PerfQueue' = [s_PerfQueue EXCEPT ![Pid(t)] = IF @ = NULL THEN mqd ELSE @]
  /\ m_RefCount' = [m_RefCount EXCEPT ![Pid(t)] = @ + 1]
  /\ caller' = [caller EXCEPT ![t] = "storing"]
  /\ UNCHANGED <<name, curmsgs, serviceVars, s_pQueue, lock>>

\* The constructor stores what GetQueue returned, again with no lock of its own.
StoreQueue(t) ==
  /\ caller[t] = "storing"
  /\ s_pQueue' = [s_pQueue EXCEPT ![Pid(t)] = s_PerfQueue[Pid(t)]]
  /\ caller' = [caller EXCEPT ![t] = "calling"]
  /\ UNCHANGED <<name, curmsgs, serviceVars, s_PerfQueue, m_RefCount, lock>>

\* mq_send on a failed descriptor.
SendFails(t) ==
  /\ caller[t] = "calling"
  /\ s_pQueue[Pid(t)] = Failed
  /\ caller' = [caller EXCEPT ![t] = "logging"]
  /\ UNCHANGED <<name, curmsgs, serviceVars, queueOf, lock>>

\* mq_send on a queue may fail as well: a signal, while it waits for room.
LoseMessage(t) ==
  /\ caller[t] = "calling"
  /\ s_pQueue[Pid(t)] \in Queues
  /\ caller' = [caller EXCEPT ![t] = "logging"]
  /\ UNCHANGED <<name, curmsgs, serviceVars, queueOf, lock>>

\* The message was not sent, which LOG writes under the lock.
Log(t) ==
  /\ caller[t] = "logging" /\ MayLock(t)
  /\ Return(t)
  /\ UNCHANGED <<name, curmsgs, serviceVars, queueOf>>

\* Mutant: the sender leaves its last slot free.
SendKeepsSlot(t) ==
  /\ caller[t] = "calling"
  /\ s_pQueue[Pid(t)] \in Queues
  /\ curmsgs[s_pQueue[Pid(t)]] + 1 < mq_maxmsg
  /\ curmsgs' = [curmsgs EXCEPT ![s_pQueue[Pid(t)]] = @ + 1]
  /\ Return(t)
  /\ UNCHANGED <<name, serviceVars, queueOf>>

\* Mutant: the message is sent whether or not there is room.
SendUnbounded(t) ==
  /\ caller[t] = "calling"
  /\ s_pQueue[Pid(t)] \in Queues
  /\ curmsgs[s_pQueue[Pid(t)]] <= mq_maxmsg
  /\ curmsgs' = [curmsgs EXCEPT ![s_pQueue[Pid(t)]] = @ + 1]
  /\ Return(t)
  /\ UNCHANGED <<name, serviceVars, queueOf>>

\* mq_send waits until the queue has room, with the lock if the thread has it.
SendMessage(t) ==
  /\ caller[t] = "calling"
  /\ s_pQueue[Pid(t)] \in Queues
  /\ curmsgs[s_pQueue[Pid(t)]] < mq_maxmsg
  /\ curmsgs' = [curmsgs EXCEPT ![s_pQueue[Pid(t)]] = @ + 1]
  /\ Return(t)
  /\ UNCHANGED <<name, serviceVars, queueOf>>

\* The process ends, in whatever call its threads are.  PerfModuleTerminate
\* releases one reference, which closes the queue if no other was taken; the
\* end of the process closes it in any case.
ExitProcess(p) ==
  /\ s_PerfQueue[p] # NULL
  /\ s_PerfQueue' = [s_PerfQueue EXCEPT ![p] = NULL]
  /\ s_pQueue' = [s_pQueue EXCEPT ![p] = NULL]
  /\ m_RefCount' = [m_RefCount EXCEPT ![p] = 0]
  /\ caller' = [t \in Threads |-> IF Pid(t) = p THEN "outside" ELSE caller[t]]
  /\ lock' = [lock EXCEPT ![p] = NULL]
  /\ UNCHANGED <<name, curmsgs, serviceVars>>

-----------------------------------------------------------------------------
Serve(s) ==
  \/ Unlink(s) \/ Open(s) \/ OpenFails(s)
  \/ Receive(s) \/ Timeout(s) \/ ReceiveFails(s) \/ Release(s)

ClientNext ==
  \/ \E t \in Threads : Call(t) \/ TakeLock(t) \/ FindNoQueue(t) \/ GetQueue(t) \/ StoreQueue(t)
  \/ \E t \in Threads : SendNothing(t) \/ SendFails(t) \/ LoseMessage(t) \/ Log(t) \/ SendMessage(t)
  \/ \E p \in Procs : ExitProcess(p)

\* Services are started and killed at any time.
Next ==
  \/ \E s \in Services : ExitAsDuplicate(s) \/ Start(s) \/ Serve(s) \/ Kill(s)
  \/ ClientNext

Spec == Init /\ [][Next]_vars

\* A service that can receive does, and threads go on.  When the service has
\* made room, the system gives the room to the thread that has waited longest;
\* mq_send need not fail.  A thread that waits for the lock gets it if the lock
\* stays free; among several that want it, the mutex is not fair.
GoOn(t) ==
  \/ TakeLock(t) \/ FindNoQueue(t) \/ GetQueue(t) \/ StoreQueue(t)
  \/ SendNothing(t) \/ SendFails(t) \/ Log(t)

Fairness ==
  /\ \A s \in Services :
       /\ WF_vars(Receive(s))
       /\ WF_vars(Unlink(s) \/ Open(s) \/ OpenFails(s) \/ Release(s))
       /\ WF_vars(m_queue[s] = Failed /\ ReceiveFails(s))
  /\ \A t \in Threads : SF_vars(SendMessage(t)) /\ WF_vars(GoOn(t))

FairSpec == Spec /\ Fairness

\* One service at a time, started again whenever it has exited, never killed,
\* and none that cannot open its queue; even a lock that starves no thread is
\* assumed here.
Supervised == orderly' /\ \A s \in Services : m_queue'[s] # Failed

FairSupervisedSpec ==
  /\ Init /\ [][Next /\ Supervised]_vars /\ Fairness
  /\ WF_vars(\E s \in Services : Alone(s) /\ Start(s))
  /\ \A t \in Threads : SF_vars(GoOn(t))

-----------------------------------------------------------------------------
(* Properties *)

\* No queue holds more than its capacity and RunLoop puts up with no more
\* timeouts than it should.
TypeOK ==
  /\ name \in Queues \cup {NULL}
  /\ curmsgs \in [Queues -> 0..mq_maxmsg]
  /\ svc \in [Services -> {"off", "duplicate", "unlinking", "opening", "running", "leaving"}]
  /\ m_queue \in [Services -> Queues \cup {NULL, Failed}]
  /\ nTimeoutCount \in [Services -> 0..(MAX_TIMEOUT + 1)]
  /\ orderly \in BOOLEAN
  /\ s_PerfQueue \in [Procs -> Queues \cup {NULL, Failed}]
  /\ s_pQueue \in [Procs -> Queues \cup {NULL, Failed}]
  /\ m_RefCount \in [Procs -> Nat]
  /\ caller \in [Threads -> {"outside", "waiting", "calling", "opening", "storing", "logging"}]
  /\ lock \in [Procs -> Threads \cup {NULL}]

Served(p) ==
  s_pQueue[p] \in Queues /\ \E s \in Services : svc[s] = "running" /\ m_queue[s] = s_pQueue[p]

\* However the unlocked tests and stores of s_pQueue interleave, all threads
\* of a process use the one PerfMsgQueue that it made, and it takes at most one
\* reference for each of them, and one at least: the first Release may leave
\* the queue open, but none deletes it twice.
OneReferenceEach ==
  \A p \in Procs :
    /\ s_PerfQueue[p] # NULL <=> m_RefCount[p] > 0
    /\ s_pQueue[p] \in {NULL, s_PerfQueue[p]}
    /\ m_RefCount[p] + Cardinality({i \in Tids : caller[<<p, i>>] = "opening"})
         <= Cardinality(Tids)

\* A process keeps the queue that it opened first: its threads send to one
\* queue, in one order, even if two of them were opening it while one service
\* gave way to another.
QueueIsKept ==
  [][\A p \in Procs : s_pQueue[p] # NULL => s_pQueue'[p] \in {s_pQueue[p], NULL}]_vars

\* Thread t wants SCOPED_LOCK, and another has it.
WaitsForLock(t) == caller[t] \in {"waiting", "opening", "logging"} /\ ~MayLock(t)

\* While a service goes on receiving from the queue of a process, no thread
\* of the process stays in a call for good, full queue or not, however
\* services come and go otherwise.  But a thread that waits for the lock, on
\* entry or to log a message that was lost, may wait without end: not for one
\* other that has it, but for others that take it by turns.
ServedCallsReturn ==
  \A t \in Threads :
    <>[]Served(Pid(t)) => []<>(caller[t] = "outside" \/ WaitsForLock(t))

\* As long as services are started one at a time and none is killed, a running
\* service owns the name, so that a process that opens the queue reaches it;
\* one that could not open its queue leaves no name to be found.
ServiceReachable ==
  orderly => \A s \in Services :
    svc[s] = "running" => m_queue[s] = IF name = NULL THEN Failed ELSE name

\* As long as that is so the name does not outlive its service: the next one
\* is not taken for a duplicate of one that has exited.
NameIsServed == orderly /\ name # NULL => \E s \in Services : m_queue[s] = name

\* Instrumentation causes "minimal disruption to the original code flow"
\* (README, "Overview"): a call of the library returns.
CallsReturn == \A t \in Threads : caller[t] # "outside" ~> caller[t] = "outside"
=============================================================================
