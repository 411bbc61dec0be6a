------------------------- MODULE PerfMsgQueueProofs -------------------------
(***************************************************************************)
(* Theorems about PerfMsgQueue: its types, how name and service stay       *)
(* together, and that the threads of a process share one queue.            *)
(***************************************************************************)
EXTENDS PerfMsgQueue, FiniteSetTheorems, TLAPS

\* RunLoop has timeouts left.
RunLoopReady ==
  \A s \in Services : svc[s] = "running" => nTimeoutCount[s] <= MAX_TIMEOUT

\* An orderly service is alone; it finds the name free, and its queue, once it
\* has one, has the name.
OrderlyName ==
  orderly =>
    /\ \A s, other \in Services : s # other => IsStopped(s) \/ IsStopped(other)
    /\ \A s \in Services : svc[s] \in {"unlinking", "opening"} => name = NULL
    /\ \A s \in Services : svc[s] \in {"running", "leaving"} =>
         m_queue[s] = IF name = NULL THEN Failed ELSE name
    /\ name # NULL => \E s \in Services : svc[s] \in {"running", "leaving"}

ServiceInv == TypeOK /\ RunLoopReady /\ OrderlyName

\* At the start no service runs and there is no queue.
LEMMA ServiceInvInit == Init => ServiceInv
  BY QueueAssumption, BoundAssumption
  DEF Init, ServiceInv, TypeOK, RunLoopReady, OrderlyName, IsStopped, Threads

\* A step of main from one point to another changes svc there only.
LEMMA GotoMoves ==
  ASSUME NEW s \in Services, NEW from, NEW to, Goto(s, from, to), TypeOK,
         to \in {"off", "duplicate", "unlinking", "opening", "running", "leaving"}
  PROVE  /\ svc[s] = from /\ svc'[s] = to
         /\ \A other \in Services : other # s => svc'[other] = svc[other]
         /\ svc' \in [Services -> {"off", "duplicate", "unlinking", "opening", "running", "leaving"}]
  BY DEF Goto, TypeOK

\* Starting, or not starting, a service keeps the invariant.
LEMMA StartInductive ==
  ASSUME ServiceInv, NEW s \in Services, ExitAsDuplicate(s) \/ Start(s)
  PROVE  ServiceInv'
  <1>1. CASE ExitAsDuplicate(s)
    BY <1>1, GotoMoves
    DEF ServiceInv, ExitAsDuplicate, TypeOK, RunLoopReady, OrderlyName, IsStopped, clientVars, queueOf
  <1>2. CASE Start(s)
    BY <1>2
    DEF ServiceInv, Start, Alone, TypeOK, RunLoopReady, OrderlyName, IsStopped, clientVars, queueOf
  <1>3. QED BY <1>1, <1>2

\* So does the constructor of its queue: an orderly service makes a new queue,
\* or there is none.
LEMMA OpenInductive ==
  ASSUME ServiceInv, NEW s \in Services, Unlink(s) \/ Open(s) \/ OpenFails(s)
  PROVE  ServiceInv'
  <1> USE QueueAssumption, BoundAssumption
  <1>1. CASE Unlink(s)
    BY <1>1, GotoMoves
    DEF ServiceInv, Unlink, TypeOK, RunLoopReady, OrderlyName, IsStopped, clientVars, queueOf
  <1>2. CASE Open(s)
    <2>1. name' \in Queues
      BY <1>2 DEF Open, ServiceInv, TypeOK
    <2>2. /\ svc[s] = "opening" /\ svc'[s] = "running"
          /\ \A other \in Services : other # s => svc'[other] = svc[other]
          /\ svc' \in [Services -> {"off", "duplicate", "unlinking", "opening", "running", "leaving"}]
      BY <1>2, GotoMoves DEF Open, ServiceInv
    <2>3. TypeOK'
      <3>1. curmsgs' \in [Queues -> 0..mq_maxmsg]
        BY <1>2, <2>1 DEF Open, ServiceInv, TypeOK
      <3>2. UNCHANGED <<orderly, clientVars>> /\ m_queue' = [m_queue EXCEPT ![s] = name']
        BY <1>2 DEF Open
      <3>3. nTimeoutCount' = [nTimeoutCount EXCEPT ![s] = 0]
        BY <1>2 DEF Open
      <3>4. QED BY <2>1, <2>2, <3>1, <3>2, <3>3 DEF ServiceInv, TypeOK, clientVars, queueOf
    <2>4. RunLoopReady'
      BY <1>2, <2>1, <2>2 DEF Open, ServiceInv, TypeOK, RunLoopReady
    <2>5. OrderlyName'
      <3>1. SUFFICES ASSUME orderly' PROVE OrderlyName'
        BY DEF OrderlyName
      <3>2. orderly /\ m_queue' = [m_queue EXCEPT ![s] = name']
        BY <1>2, <3>1 DEF Open
      <3>3. \A other \in Services : other # s => IsStopped(other) /\ IsStopped(other)'
        BY <2>2, <3>2 DEF ServiceInv, OrderlyName, IsStopped
      <3>4. m_queue'[s] = name'
        BY <3>2 DEF ServiceInv, TypeOK
      <3>5. name' # NULL
        BY <2>1
      <3>6. QED BY <2>2, <3>3, <3>4, <3>5 DEF OrderlyName, IsStopped
    <2>6. QED BY <2>3, <2>4, <2>5 DEF ServiceInv
  <1>3. CASE OpenFails(s)
    BY <1>3, GotoMoves
    DEF ServiceInv, OpenFails, TypeOK, RunLoopReady, OrderlyName, IsStopped, clientVars, queueOf
  <1>4. QED BY <1>1, <1>2, <1>3

\* So do the passes of RunLoop.
LEMMA RunLoopInductive ==
  ASSUME ServiceInv, NEW s \in Services, Receive(s) \/ Timeout(s) \/ ReceiveFails(s)
  PROVE  ServiceInv'
  <1> USE QueueAssumption, BoundAssumption
  <1>1. CASE Receive(s)
    <2>1. m_queue[s] \in Queues /\ curmsgs[m_queue[s]] \in 1..mq_maxmsg
      BY <1>1 DEF Receive, ServiceInv, TypeOK
    <2>2. QED BY <1>1, <2>1
      DEF Receive, ServiceInv, TypeOK, RunLoopReady, OrderlyName, IsStopped, clientVars, queueOf
  <1>2. CASE Timeout(s)
    BY <1>2
    DEF Timeout, ServiceInv, TypeOK, RunLoopReady, OrderlyName, IsStopped, clientVars, queueOf
  <1>3. CASE ReceiveFails(s)
    BY <1>3, GotoMoves
    DEF ReceiveFails, ServiceInv, TypeOK, RunLoopReady, OrderlyName, IsStopped, clientVars, queueOf
  <1>4. QED BY <1>1, <1>2, <1>3

\* So does the end of a service.
LEMMA EndInductive ==
  ASSUME ServiceInv, NEW s \in Services, Release(s) \/ Kill(s)
  PROVE  ServiceInv'
  <1> USE QueueAssumption, BoundAssumption
  <1>1. CASE Release(s)
    BY <1>1, GotoMoves
    DEF Release, ServiceInv, TypeOK, RunLoopReady, OrderlyName, IsStopped, clientVars, queueOf
  <1>2. CASE Kill(s)
    <2>1. TypeOK'
      <3>1. orderly' \in BOOLEAN
        BY <1>2 DEF Kill
      <3>2. /\ svc' = [svc EXCEPT ![s] = "off"] /\ m_queue' = [m_queue EXCEPT ![s] = NULL]
            /\ nTimeoutCount' = [nTimeoutCount EXCEPT ![s] = 0]
            /\ UNCHANGED <<name, curmsgs, clientVars>>
        BY <1>2 DEF Kill
      <3>3. QED BY <3>1, <3>2 DEF ServiceInv, TypeOK, clientVars, queueOf
    <2>2. RunLoopReady'
      BY <1>2 DEF Kill, ServiceInv, TypeOK, RunLoopReady
    <2>3. OrderlyName'
      BY <1>2 DEF Kill, OrderlyName
    <2>4. QED BY <2>1, <2>2, <2>3 DEF ServiceInv
  <1>3. QED BY <1>1, <1>2

\* Clients fill queues, and change nothing else that is the service's.
LEMMA ClientsKeepServices ==
  ASSUME ServiceInv, ClientNext
  PROVE  ServiceInv'
  <1> USE QueueAssumption, BoundAssumption
  <1>1. UNCHANGED <<name, serviceVars>>
    BY DEF ClientNext, Call, TakeLock, FindNoQueue, GetQueue, StoreQueue, SendNothing, SendFails,
           LoseMessage, Log, SendMessage, ExitProcess
  <1>2. TypeOK'
    <2>1. CASE \E t \in Threads :
                 Call(t) \/ TakeLock(t) \/ FindNoQueue(t) \/ SendFails(t) \/ LoseMessage(t)
      BY <1>1, <2>1
      DEF ServiceInv, TypeOK, Call, TakeLock, FindNoQueue, SendFails, LoseMessage, serviceVars,
          queueOf, Threads, Pid
    <2>2. CASE \E t \in Threads : GetQueue(t) \/ StoreQueue(t)
      <3>1. caller' \in [Threads -> {"outside", "waiting", "calling", "opening", "storing", "logging"}]
        BY <2>2 DEF GetQueue, StoreQueue, ServiceInv, TypeOK
      <3>2. m_RefCount' \in [Procs -> Nat] /\ lock' = lock /\ curmsgs' = curmsgs
        BY <2>2 DEF GetQueue, StoreQueue, ServiceInv, TypeOK
      <3>3. /\ s_PerfQueue' \in [Procs -> Queues \cup {NULL, Failed}]
            /\ s_pQueue' \in [Procs -> Queues \cup {NULL, Failed}]
        <4>1. \A t \in Threads : s_PerfQueue[Pid(t)] \in Queues \cup {NULL, Failed}
          BY DEF ServiceInv, TypeOK, Threads, Pid
        <4>2. CASE \E t \in Threads : GetQueue(t)
          <5>1. PICK t \in Threads : GetQueue(t)
            BY <4>2
          <5>2. PICK mqd \in Queues \cup {Failed} :
                  s_PerfQueue' = [s_PerfQueue EXCEPT ![Pid(t)] = IF @ = NULL THEN mqd ELSE @]
            BY <5>1 DEF GetQueue, Descriptors, ServiceInv, TypeOK
          <5>3. QED BY <5>1, <5>2 DEF GetQueue, ServiceInv, TypeOK
        <4>3. CASE \E t \in Threads : StoreQueue(t)
          BY <4>1, <4>3 DEF StoreQueue, ServiceInv, TypeOK
        <4>4. QED BY <2>2, <4>2, <4>3
      <3>4. QED BY <1>1, <3>1, <3>2, <3>3 DEF ServiceInv, TypeOK, serviceVars
    <2>3. CASE \E t \in Threads : SendNothing(t) \/ Log(t)
      BY <1>1, <2>3
      DEF ServiceInv, TypeOK, SendNothing, Log, Return, serviceVars, queueOf, Threads, Pid
    <2>4. CASE \E t \in Threads : SendMessage(t)
      BY <1>1, <2>4
      DEF ServiceInv, TypeOK, SendMessage, Return, serviceVars, queueOf, Threads, Pid
    <2>5. CASE \E p \in Procs : ExitProcess(p)
      BY <1>1, <2>5 DEF ServiceInv, TypeOK, ExitProcess, serviceVars, Threads, Pid
    <2>6. QED BY <2>1, <2>2, <2>3, <2>4, <2>5 DEF ClientNext
  <1>3. QED
    BY <1>1, <1>2 DEF ServiceInv, RunLoopReady, OrderlyName, IsStopped, serviceVars

\* Every step keeps the invariant.
LEMMA ServiceInvInductive == ServiceInv /\ [Next]_vars => ServiceInv'
  <1> SUFFICES ASSUME ServiceInv, [Next]_vars PROVE ServiceInv'
    OBVIOUS
  <1>1. CASE ClientNext
    BY <1>1, ClientsKeepServices
  <1>2. CASE UNCHANGED vars
    BY <1>2 DEF ServiceInv, TypeOK, RunLoopReady, OrderlyName, IsStopped, vars, serviceVars,
                clientVars, queueOf
  <1>3. CASE \E s \in Services : ExitAsDuplicate(s) \/ Start(s) \/ Serve(s) \/ Kill(s)
    BY <1>3, StartInductive, OpenInductive, RunLoopInductive, EndInductive DEF Serve
  <1>4. QED BY <1>1, <1>2, <1>3 DEF Next

\* The inductive invariant of services and their name.
THEOREM ServiceInvariant == Spec => []ServiceInv
  BY ServiceInvInit, ServiceInvInductive, PTL DEF Spec

\* Every variable stays in its domain: no queue is over its capacity, whoever
\* sends and receives.
THEOREM QueueTypeCorrect == Spec => []TypeOK
  <1>1. ServiceInv => TypeOK BY DEF ServiceInv
  <1>2. QED BY <1>1, ServiceInvariant, PTL

\* A service that was started when no other was there is reachable by name
\* for as long as it receives, whatever clients do.
THEOREM OrderlyServiceReachable == Spec => []ServiceReachable
  <1>1. ServiceInv => ServiceReachable BY DEF ServiceInv, OrderlyName, ServiceReachable
  <1>2. QED BY <1>1, ServiceInvariant, PTL

\* The name that an orderly service leaves behind is none.
THEOREM OrderlyNameServed == Spec => []NameIsServed
  <1>1. ServiceInv => NameIsServed BY DEF ServiceInv, OrderlyName, NameIsServed
  <1>2. QED BY <1>1, ServiceInvariant, PTL

-----------------------------------------------------------------------------
(* The references of a process to its queue *)

Opening(p) == {i \in Tids : caller[<<p, i>>] = "opening"}
Storing(p) == {i \in Tids : caller[<<p, i>>] = "storing"}

\* The references of one process, with those of the threads that have not
\* stored the queue: until one has, there are no others.
RefsOf(p) ==
  /\ s_PerfQueue[p] # NULL <=> m_RefCount[p] > 0
  /\ s_pQueue[p] \in {NULL, s_PerfQueue[p]}
  /\ m_RefCount[p] + Cardinality(Opening(p)) <= Cardinality(Tids)
  /\ s_pQueue[p] = NULL => m_RefCount[p] = Cardinality(Storing(p))
  /\ \A i \in Storing(p) : s_PerfQueue[p] # NULL

RefInv == \A p \in Procs : RefsOf(p)

\* Threads that open the queue, or have opened it, are threads of the process.
LEMMA OpeningIsFinite ==
  ASSUME NEW p \in Procs
  PROVE  /\ IsFiniteSet(Opening(p)) /\ IsFiniteSet(Storing(p)) /\ IsFiniteSet(Tids)
         /\ Cardinality(Opening(p)) \in Nat /\ Cardinality(Storing(p)) \in Nat
         /\ Cardinality(Tids) \in Nat
         /\ Cardinality(Opening(p)) + Cardinality(Storing(p)) <= Cardinality(Tids)
  <1>1. /\ Opening(p) \subseteq Tids /\ Storing(p) \subseteq Tids
        /\ Opening(p) \cap Storing(p) = {} /\ Opening(p) \cup Storing(p) \subseteq Tids
    BY DEF Opening, Storing
  <1>2. IsFiniteSet(Opening(p)) /\ IsFiniteSet(Storing(p)) /\ IsFiniteSet(Tids)
    BY <1>1, TidsAssumption, FS_Subset
  <1>3. Cardinality(Opening(p)) \in Nat /\ Cardinality(Storing(p)) \in Nat /\ Cardinality(Tids) \in Nat
    BY <1>2, FS_CardinalityType
  <1>4. Cardinality(Opening(p) \cup Storing(p)) = Cardinality(Opening(p)) + Cardinality(Storing(p))
    <2>1. /\ Cardinality(Opening(p) \cup Storing(p))
               = Cardinality(Opening(p)) + Cardinality(Storing(p))
                   - Cardinality(Opening(p) \cap Storing(p))
      BY <1>2, FS_Union
    <2>2. Cardinality(Opening(p) \cap Storing(p)) = 0
      BY <1>1, FS_EmptySet
    <2>3. QED BY <1>3, <2>1, <2>2
  <1>5. Cardinality(Opening(p) \cup Storing(p)) <= Cardinality(Tids)
    BY <1>1, <1>2, FS_Subset
  <1>6. QED BY <1>2, <1>3, <1>4, <1>5

\* The definition below holds by the last lemma, and so after a step.
ThreadsCounted ==
  \A p \in Procs :
    /\ Cardinality(Opening(p)) \in Nat /\ Cardinality(Storing(p)) \in Nat
    /\ Cardinality(Opening(p)) + Cardinality(Storing(p)) <= Cardinality(Tids)

LEMMA OpeningIsFiniteNext == ThreadsCounted'
  <1>1. ThreadsCounted
    BY OpeningIsFinite DEF ThreadsCounted
  <1>2. QED BY <1>1, PTL

\* A process whose references do not change keeps its bound if no thread of it
\* comes to open the queue, and none has it to store or stores it.
LEMMA RefsKept ==
  ASSUME TypeOK, NEW p \in Procs, RefsOf(p),
         s_PerfQueue'[p] = s_PerfQueue[p], s_pQueue'[p] = s_pQueue[p],
         m_RefCount'[p] = m_RefCount[p],
         Opening(p)' \subseteq Opening(p), Storing(p)' = Storing(p)
  PROVE  RefsOf(p)'
  <1>1. Cardinality(Opening(p)') <= Cardinality(Opening(p))
    BY OpeningIsFinite, FS_Subset
  <1>2. m_RefCount[p] \in Nat
    BY DEF TypeOK
  <1>3. QED BY <1>1, <1>2, OpeningIsFinite, OpeningIsFiniteNext DEF RefsOf, ThreadsCounted

\* Finding no queue, the process has no references but of threads that have it
\* to store, and so room for one of each other thread.
LEMMA FindNoQueueKeepsRefs ==
  ASSUME TypeOK, NEW t \in Threads, FindNoQueue(t), NEW p \in Procs, RefsOf(p)
  PROVE  RefsOf(p)'
  <1>1. m_RefCount[p] \in Nat /\ UNCHANGED <<s_PerfQueue, s_pQueue, m_RefCount>>
    BY DEF FindNoQueue, TypeOK, queueOf
  <1>2. Storing(p)' = Storing(p)
    BY DEF Storing, FindNoQueue, TypeOK, Threads
  <1>3. CASE p = Pid(t)
    <2>1. s_pQueue[p] = NULL /\ m_RefCount[p] = Cardinality(Storing(p))
      BY <1>3 DEF FindNoQueue, RefsOf
    <2>2. m_RefCount[p] + Cardinality(Opening(p)') <= Cardinality(Tids)
      BY <1>2, <2>1, OpeningIsFinite, OpeningIsFiniteNext DEF ThreadsCounted
    <2>3. QED BY <1>1, <1>2, <2>2 DEF RefsOf
  <1>4. CASE p # Pid(t)
    <2>1. Opening(p)' \subseteq Opening(p)
      BY <1>4 DEF Opening, FindNoQueue, TypeOK, Threads, Pid
    <2>2. QED BY <1>1, <1>2, <2>1, RefsKept
  <1>5. QED BY <1>3, <1>4

\* GetQueue turns a thread that opens the queue into a reference, and into a
\* thread that has the queue to store.
LEMMA GetQueueKeepsRefs ==
  ASSUME TypeOK, NEW t \in Threads, GetQueue(t), NEW p \in Procs, RefsOf(p)
  PROVE  RefsOf(p)'
  <1>1. m_RefCount[p] \in Nat /\ s_pQueue' = s_pQueue
    BY DEF GetQueue, TypeOK
  <1>2. CASE p = Pid(t)
    <2>1. PICK i \in Tids : t = <<p, i>>
      BY <1>2 DEF Threads, Pid
    <2>2. /\ i \in Opening(p) /\ Opening(p)' = Opening(p) \ {i}
          /\ i \notin Storing(p) /\ Storing(p)' = Storing(p) \cup {i}
      BY <2>1 DEF Opening, Storing, GetQueue, TypeOK, Threads
    <2>3. Cardinality(Opening(p)') = Cardinality(Opening(p)) - 1
      BY <2>2, OpeningIsFinite, FS_RemoveElement
    <2>4. Cardinality(Storing(p)') = Cardinality(Storing(p)) + 1
      BY <2>2, OpeningIsFinite, FS_AddElement
    <2>5. m_RefCount'[p] = m_RefCount[p] + 1
      BY <1>2 DEF GetQueue, TypeOK
    <2>6. s_PerfQueue'[p] # NULL /\ (s_PerfQueue[p] # NULL => s_PerfQueue'[p] = s_PerfQueue[p])
      BY <1>2, QueueAssumption DEF GetQueue, TypeOK, Descriptors
    <2>7. s_pQueue'[p] \in {NULL, s_PerfQueue'[p]}
      BY <1>1, <2>6 DEF RefsOf
    <2>8. QED BY <1>1, <2>3, <2>4, <2>5, <2>6, <2>7, OpeningIsFinite DEF RefsOf
  <1>3. CASE p # Pid(t)
    <2>1. Opening(p)' \subseteq Opening(p) /\ Storing(p)' = Storing(p)
      BY <1>3 DEF Opening, Storing, GetQueue, TypeOK, Threads, Pid
    <2>2. s_PerfQueue'[p] = s_PerfQueue[p] /\ m_RefCount'[p] = m_RefCount[p]
      BY <1>3 DEF GetQueue, TypeOK
    <2>3. QED BY <1>1, <2>1, <2>2, RefsKept
  <1>4. QED BY <1>2, <1>3

\* Whichever thread stores the queue, it is that of the process.
LEMMA StoreQueueKeepsRefs ==
  ASSUME TypeOK, NEW t \in Threads, StoreQueue(t), NEW p \in Procs, RefsOf(p)
  PROVE  RefsOf(p)'
  <1>1. m_RefCount[p] \in Nat /\ UNCHANGED <<s_PerfQueue, m_RefCount>>
    BY DEF StoreQueue, TypeOK
  <1>2. Opening(p)' = Opening(p)
    BY DEF Opening, StoreQueue, TypeOK, Threads
  <1>3. CASE p = Pid(t)
    <2>1. PICK i \in Tids : t = <<p, i>>
      BY <1>3 DEF Threads, Pid
    <2>2. i \in Storing(p) /\ Storing(p)' \subseteq Storing(p)
      BY <2>1 DEF Storing, StoreQueue, TypeOK, Threads
    <2>3. s_PerfQueue[p] # NULL /\ s_pQueue'[p] = s_PerfQueue[p]
      BY <1>3, <2>2 DEF StoreQueue, TypeOK, RefsOf
    <2>4. QED BY <1>1, <1>2, <2>3 DEF RefsOf
  <1>4. CASE p # Pid(t)
    <2>1. Storing(p)' = Storing(p)
      BY <1>4 DEF Storing, StoreQueue, TypeOK, Threads, Pid
    <2>2. s_pQueue'[p] = s_pQueue[p]
      BY <1>4 DEF StoreQueue, TypeOK
    <2>3. QED BY <1>1, <1>2, <2>1, <2>2, RefsKept
  <1>5. QED BY <1>3, <1>4

\* Calls and returns move no thread to the opening of the queue.
LEMMA CallsKeepRefs ==
  ASSUME TypeOK, NEW t \in Threads, NEW p \in Procs, RefsOf(p),
         \/ Call(t) \/ TakeLock(t) \/ SendNothing(t) \/ SendFails(t)
         \/ LoseMessage(t) \/ Log(t) \/ SendMessage(t)
  PROVE  RefsOf(p)'
  <1>1. UNCHANGED <<s_PerfQueue, s_pQueue, m_RefCount>>
    BY DEF Call, TakeLock, SendNothing, SendFails, LoseMessage, Log, SendMessage, queueOf
  <1>2. /\ caller[t] \in {"outside", "waiting", "calling", "logging"}
        /\ \E where \in {"outside", "waiting", "calling", "logging"} :
             caller' = [caller EXCEPT ![t] = where]
    BY DEF Call, TakeLock, SendNothing, SendFails, LoseMessage, Log, SendMessage, Return
  <1>3. Opening(p)' \subseteq Opening(p) /\ Storing(p)' = Storing(p)
    BY <1>2 DEF Opening, Storing, TypeOK, Threads
  <1>4. QED BY <1>1, <1>3, RefsKept

\* The end of a process leaves it nothing.
LEMMA ExitKeepsRefs ==
  ASSUME TypeOK, NEW q \in Procs, ExitProcess(q), NEW p \in Procs, RefsOf(p)
  PROVE  RefsOf(p)'
  <1>1. CASE p = q
    <2>1. s_PerfQueue'[p] = NULL /\ s_pQueue'[p] = NULL /\ m_RefCount'[p] = 0
      BY <1>1 DEF ExitProcess, TypeOK
    <2>2. Storing(p)' = {}
      BY <1>1 DEF Storing, ExitProcess, TypeOK, Threads, Pid
    <2>3. Cardinality(Storing(p)') = 0
      BY <2>2, FS_EmptySet
    <2>4. 0 + Cardinality(Opening(p)') <= Cardinality(Tids)
      BY <2>3, OpeningIsFiniteNext DEF ThreadsCounted
    <2>5. QED BY <2>1, <2>2, <2>3, <2>4 DEF RefsOf
  <1>2. CASE p # q
    <2>1. UNCHANGED <<s_PerfQueue[p], s_pQueue[p], m_RefCount[p]>>
      BY <1>2 DEF ExitProcess, TypeOK
    <2>2. Opening(p)' = Opening(p) /\ Storing(p)' = Storing(p)
      BY <1>2 DEF Opening, Storing, ExitProcess, TypeOK, Threads, Pid
    <2>3. QED BY <2>1, <2>2, RefsKept
  <1>3. QED BY <1>1, <1>2

\* Services do nothing to a client's references.
LEMMA ServicesKeepClients ==
  ASSUME NEW s \in Services, ExitAsDuplicate(s) \/ Start(s) \/ Serve(s) \/ Kill(s)
  PROVE  UNCHANGED clientVars
  BY DEF ExitAsDuplicate, Start, Serve, Kill, Unlink, Open, OpenFails, Receive, Timeout,
         ReceiveFails, Release

\* Every step keeps the references of every process.
LEMMA RefInvInductive == TypeOK /\ RefInv /\ [Next]_vars => RefInv'
  <1>1. SUFFICES ASSUME TypeOK, RefInv, [Next]_vars, NEW p \in Procs PROVE RefsOf(p)'
    BY DEF RefInv
  <1>2. RefsOf(p)
    BY <1>1 DEF RefInv
  <1>3. CASE UNCHANGED clientVars
    BY <1>2, <1>3 DEF RefsOf, Opening, Storing, clientVars, queueOf
  <1>4. CASE ClientNext
    BY <1>1, <1>2, <1>4, FindNoQueueKeepsRefs, GetQueueKeepsRefs, StoreQueueKeepsRefs,
       CallsKeepRefs, ExitKeepsRefs
    DEF ClientNext
  <1>5. QED BY <1>1, <1>3, <1>4, ServicesKeepClients DEF Next, vars

\* Initially there are none.
LEMMA RefInvInit == Init => RefInv
  <1>1. SUFFICES ASSUME Init, NEW p \in Procs PROVE RefsOf(p)
    BY DEF RefInv
  <1>2. s_PerfQueue[p] = NULL /\ s_pQueue[p] = NULL /\ m_RefCount[p] = 0 /\ Storing(p) = {}
    BY <1>1 DEF Init, Storing, Threads
  <1>3. QED BY <1>2, OpeningIsFinite, FS_EmptySet DEF RefsOf

\* The threads of a process share one PerfMsgQueue, of which it holds at most
\* one reference for each of them, however they race to open and to store it.
THEOREM ReferencesBounded == Spec => []OneReferenceEach
  <1>1. RefInv => OneReferenceEach
    BY DEF RefInv, RefsOf, OneReferenceEach, Opening
  <1>2. QED BY <1>1, RefInvInit, RefInvInductive, QueueTypeCorrect, PTL DEF Spec

\* A process changes its queue for no other, whichever thread opens it and
\* whatever has become of the name.
THEOREM ProcessKeepsQueue == Spec => QueueIsKept
  <1>1. ASSUME TypeOK, RefInv, [Next]_vars, NEW p \in Procs, s_pQueue[p] # NULL
        PROVE  s_pQueue'[p] \in {s_pQueue[p], NULL}
    <2>1. CASE UNCHANGED s_pQueue
      BY <2>1
    <2>2. CASE \E t \in Threads : StoreQueue(t)
      BY <1>1, <2>2 DEF StoreQueue, TypeOK, RefInv, RefsOf
    <2>3. CASE \E q \in Procs : ExitProcess(q)
      BY <1>1, <2>3 DEF ExitProcess, TypeOK
    <2>4. QED
      BY <1>1, <2>1, <2>2, <2>3, ServicesKeepClients
      DEF Next, ClientNext, Call, TakeLock, FindNoQueue, GetQueue, SendNothing, SendFails,
          LoseMessage, Log, SendMessage, vars, clientVars, queueOf
  <1>2. TypeOK /\ RefInv /\ [Next]_vars
          => [\A p \in Procs : s_pQueue[p] # NULL => s_pQueue'[p] \in {s_pQueue[p], NULL}]_vars
    BY <1>1
  <1>3. QED BY <1>2, RefInvInit, RefInvInductive, QueueTypeCorrect, PTL DEF Spec, QueueIsKept
=============================================================================
