----------------------------- MODULE PerfService -----------------------------
(***************************************************************************)
(* The remote build (PERF_REMOTE): class RDKPerfRemote and the C interface *)
(* of rdkperf/rdk_perf.cpp in the instrumented processes, the messages     *)
(* they send (src/src/rdk_perf_msgqueue.cpp), and the handlers of          *)
(* service/perfservice.cpp, which replay them on a PerfTree per thread.    *)
(* One service runs throughout; PerfMsgQueue is about its start and end.   *)
(*                                                                         *)
(* A caller hands its message to mq_send and waits there while the queue   *)
(* is full, so that other threads and the service move in between.  All    *)
(* messages have one priority: the queue is first in, first out.  mq_send  *)
(* may fail, and no caller looks at its result: the message is lost.       *)
(* RDKPerfStart and RDKPerfStop keep SCOPED_LOCK while they send, which    *)
(* takes some of these interleavings away and is left out here.            *)
(***************************************************************************)
EXTENDS PerfTree

CONSTANTS Procs,       \* the process ids of the instrumented processes
          Tids,        \* the pthread_t values, unique within a process only
          Records,     \* the addresses of RDKPerfRemote objects
          RootName,    \* the name of a root node, "root_node"
          Null,        \* no message, and the thread of no object
          mq_maxmsg,   \* capacity of the queue, 10 in the code
          MaxDepth     \* bound of the model: nodes on a stack, root included

ASSUME QueueAssumption == mq_maxmsg \in Nat \ {0} /\ MaxDepth \in Nat

Threads == Procs \X Tids
Pid(t) == t[1]

VARIABLES s_pQueue,  \* s_pQueue[p]: process p has opened the queue
          obj,       \* the RDKPerfRemote objects: their thread, and as history
                     \* the path of the call they measure
          sending,   \* sending[t]: the message with which thread t is in mq_send
          queue,     \* the messages in the queue
          service,   \* the process map and the trees of perfservice
          astray     \* history: may the trees of a process differ from its calls?
                     \* "closing" if so, until a close that is queued is handled

vars == <<s_pQueue, obj, sending, queue, service, astray>>

NoObject == [thread |-> Null, path |-> Root]

\* A message names the thread that sends it.  Of the path of the call that it
\* is about only the last name is sent: the rest is history.
MessageType == {"eEntry", "eExit", "eThreshold", "eReportThread",
                "eReportProcess", "eCloseThread", "eCloseProcess"}
PerfMessage == [type : MessageType, from : Threads, path : Node]

ASSUME NullAssumption == Null \notin Threads /\ Null \notin PerfMessage

szName(m) == m.path[Len(m.path)]

Init ==
  /\ s_pQueue = [p \in Procs |-> FALSE]
  /\ obj = [r \in Records |-> NoObject]
  /\ sending = [t \in Threads |-> Null]
  /\ queue = <<>>
  /\ service = [processes |-> {}, tree |-> [t \in Threads |-> EmptyTree]]
  /\ astray = [p \in Procs |-> "no"]

-----------------------------------------------------------------------------
(* perfservice: what each handler makes of the process map and the trees.  *)
(* A tree that is in the map has its root, so EmptyTree stands for none.   *)

\* GetTree without bCreate finds a tree.
HasTree(svc, t) == Pid(t) \in svc.processes /\ svc.tree[t] # EmptyTree

\* PerfNode::GetName
GetName(node) == IF node = Root THEN RootName ELSE node[Len(node)]

\* GetTree with bCreate, then AddNode.
HandleEntry(svc, m) ==
  [processes |-> svc.processes \cup {Pid(m.from)},
   tree |-> [svc.tree EXCEPT ![m.from] = AddNode(@, szName(m))]]

\* HandleThreshold reads nThresholdInUS where SendMessage, which fills in an
\* entry message, has left zeros; zero is no threshold.
HandleThreshold(svc, m) == svc

\* Mutant: the exit measures its call and leaves it on the stack.
HandleExitOnlyMeasures(svc, m) ==
  IF HasTree(svc, m.from) /\ GetName(Top(svc.tree[m.from])) = szName(m)
  THEN [svc EXCEPT !.tree[m.from] = IncrementData(@, Top(@))] ELSE svc

\* HandleExit: the exit of a call that is not on top is dropped.
HandleExit(svc, m) ==
  LET top == Top(svc.tree[m.from])
  IN  IF HasTree(svc, m.from) /\ GetName(top) = szName(m)
      THEN [svc EXCEPT !.tree[m.from] = CloseNode(IncrementData(@, top), top)]
      ELSE svc

HandleReportThread(svc, m) ==
  IF HasTree(svc, m.from) THEN [svc EXCEPT !.tree[m.from] = ReportData(@)] ELSE svc

\* HandleReportProcess closes the inactive threads and reports the others.
HandleReportProcess(svc, m) ==
  LET reported(t) == IF IsInactive(svc.tree[t]) THEN EmptyTree ELSE ReportData(svc.tree[t])
  IN  [svc EXCEPT !.tree = [t \in Threads |-> IF Pid(t) = Pid(m.from) /\ HasTree(svc, t)
                                              THEN reported(t) ELSE @[t]]]

HandleCloseThread(svc, m) ==
  IF HasTree(svc, m.from) THEN [svc EXCEPT !.tree[m.from] = EmptyTree] ELSE svc

\* Mutant: the process goes, its trees stay.
HandleCloseProcessOnly(svc, m) == [svc EXCEPT !.processes = @ \ {Pid(m.from)}]

HandleCloseProcess(svc, m) ==
  [processes |-> svc.processes \ {Pid(m.from)},
   tree |-> [t \in Threads |-> IF Pid(t) = Pid(m.from) THEN EmptyTree ELSE svc.tree[t]]]

HandleMessage(svc, m) ==
  CASE m.type = "eEntry"         -> HandleEntry(svc, m)
    [] m.type = "eThreshold"     -> HandleThreshold(svc, m)
    [] m.type = "eExit"          -> HandleExit(svc, m)
    [] m.type = "eReportThread"  -> HandleReportThread(svc, m)
    [] m.type = "eReportProcess" -> HandleReportProcess(svc, m)
    [] m.type = "eCloseThread"   -> HandleCloseThread(svc, m)
    [] m.type = "eCloseProcess"  -> HandleCloseProcess(svc, m)

\* The queue q holds a message that will close process p.
ClosesProcess(p, q) ==
  \E i \in DOMAIN q : q[i].type = "eCloseProcess" /\ Pid(q[i].from) = p

\* A pass of RunLoop that receives a message.
RunLoop ==
  /\ queue # <<>>
  /\ service' = HandleMessage(service, Head(queue))
  /\ queue' = Tail(queue)
  /\ astray' = [p \in Procs |-> IF astray[p] = "closing" /\ ~ClosesProcess(p, queue')
                                 THEN "no" ELSE astray[p]]
  /\ UNCHANGED <<s_pQueue, obj, sending>>

\* The service svc after each of the messages in q.
Replay(svc, q) ==
  LET after[n \in 0..Len(q)] ==
        IF n = 0 THEN svc ELSE HandleMessage(after[n - 1], q[n])
  IN  after

\* The trees once the service has caught up with the queue, and that of
\* thread t when the message it is sending has been handled as well.
Settled == Replay(service, queue)[Len(queue)]
SettledTree(t) ==
  IF sending[t] = Null THEN Settled.tree[t]
  ELSE HandleMessage(Settled, sending[t]).tree[t]

-----------------------------------------------------------------------------
(* The instrumented processes *)

Siblings(t) == {s \in Threads : Pid(s) = Pid(t)}
Objects(t) == {r \in Records : obj[r].thread = t}
Innermost(r) == \A q \in Objects(obj[r].thread) : Len(obj[q].path) <= Len(obj[r].path)

\* The path of the calls that thread t measures.
OpenPath(t) ==
  IF Objects(t) = {} THEN Root ELSE obj[CHOOSE r \in Objects(t) : Innermost(r)].path

\* PerfMsgQueue::SendMessage up to mq_send.
SendMessage(t, type, path) ==
  /\ sending[t] = Null
  /\ sending' = [sending EXCEPT ![t] = [type |-> type, from |-> t, path |-> path]]

\* The thread is in a call, or has not sent the exit of its last one.
InCall(t) ==
  \/ Objects(t) # {}
  \/ sending[t] # Null /\ sending[t].type = "eExit"

\* History: what the trees show of process p is not its calls from here on.
\* It is so when a call or its end is not told to the service, when objects are
\* destroyed out of order or by another thread, and when a thread in a call is
\* closed.
GoAstrayIf(p, doubtful) ==
  astray' = IF doubtful THEN [astray EXCEPT ![p] = "yes"] ELSE astray

\* History: a close of the process makes an end of that, unless one of its
\* threads is in a call, which the new trees will lack.
Straighten(t) ==
  astray' = IF sending[t].type # "eCloseProcess" THEN astray
            ELSE IF \E s \in Siblings(t) : InCall(s) THEN [astray EXCEPT ![Pid(t)] = "yes"]
            ELSE [astray EXCEPT ![Pid(t)] = IF @ = "yes" THEN "closing" ELSE @]

\* Mutant: the queue takes a message when it is full.
EnqueueUnbounded(t) ==
  /\ sending[t] # Null
  /\ Len(queue) <= mq_maxmsg
  /\ queue' = Append(queue, sending[t])
  /\ sending' = [sending EXCEPT ![t] = Null]
  /\ Straighten(t)
  /\ UNCHANGED <<s_pQueue, obj, service>>

\* mq_send once the queue has room.
Enqueue(t) ==
  /\ sending[t] # Null
  /\ Len(queue) < mq_maxmsg
  /\ queue' = Append(queue, sending[t])
  /\ sending' = [sending EXCEPT ![t] = Null]
  /\ Straighten(t)
  /\ UNCHANGED <<s_pQueue, obj, service>>

\* mq_send fails, because a signal came while it waited or for another reason.
\* SendMessage logs that and returns false, which no caller looks at.
LoseMessage(t) ==
  /\ sending[t] # Null
  /\ sending' = [sending EXCEPT ![t] = Null]
  /\ GoAstrayIf(Pid(t), sending[t].type \in {"eEntry", "eExit"})
  /\ UNCHANGED <<s_pQueue, obj, queue, service>>

\* RDKPerfRemote::RDKPerfRemote, which opens the queue of the process.
Construct(r, t, name) ==
  /\ obj[r] = NoObject
  /\ Len(OpenPath(t)) + 1 < MaxDepth /\ Len(SettledTree(t).activeNode) < MaxDepth
  /\ SendMessage(t, "eEntry", Append(OpenPath(t), name))
  /\ obj' = [obj EXCEPT ![r] = [thread |-> t, path |-> Append(OpenPath(t), name)]]
  /\ s_pQueue' = [s_pQueue EXCEPT ![Pid(t)] = TRUE]
  /\ UNCHANGED <<queue, service, astray>>

\* RDKPerfRemote::~RDKPerfRemote, run by any thread of the process: the
\* message names that thread.
Destroy(r, t) ==
  /\ obj[r] # NoObject /\ Pid(obj[r].thread) = Pid(t)
  /\ sending[obj[r].thread] = Null
  /\ SendMessage(t, "eExit", obj[r].path)
  /\ obj' = [obj EXCEPT ![r] = NoObject]
  /\ GoAstrayIf(Pid(t), obj[r].thread # t \/ ~Innermost(r))
  /\ UNCHANGED <<s_pQueue, queue, service>>

\* RDKPerfRemote::SetThreshhold
SetThreshold(r, t) ==
  /\ obj[r] # NoObject /\ Pid(obj[r].thread) = Pid(t)
  /\ sending[obj[r].thread] = Null
  /\ SendMessage(t, "eThreshold", obj[r].path)
  /\ UNCHANGED <<s_pQueue, obj, queue, service, astray>>

\* RDKPerf_ReportThread, RDKPerf_ReportProcess, RDKPerf_CloseThread and
\* RDKPerf_CloseProcess do nothing before the queue is open.  The thread tID
\* that the first and the third are called with is not in their message.
Request(t, type) ==
  /\ s_pQueue[Pid(t)]
  /\ SendMessage(t, type, Root)
  /\ GoAstrayIf(Pid(t), type \in {"eCloseThread", "eCloseProcess"} /\ InCall(t))
  /\ UNCHANGED <<s_pQueue, obj, queue, service>>

ReportProcess(t) == Request(t, "eReportProcess")
ReportThread(t, tID) == Request(t, "eReportThread")
CloseThread(t, tID) == Request(t, "eCloseThread")
CloseProcess(t) == Request(t, "eCloseProcess")

\* The process ends, and with it whatever it has not sent; nothing tells the
\* service (PerfModuleTerminate).  Another may get its process id.
PerfModuleTerminate(p) ==
  /\ s_pQueue[p]
  /\ s_pQueue' = [s_pQueue EXCEPT ![p] = FALSE]
  /\ obj' = [r \in Records |-> IF \E i \in Tids : obj[r].thread = <<p, i>>
                               THEN NoObject ELSE obj[r]]
  /\ sending' = [t \in Threads |-> IF Pid(t) = p THEN Null ELSE sending[t]]
  /\ GoAstrayIf(p, \E i \in Tids : InCall(<<p, i>>))
  /\ UNCHANGED <<queue, service>>

-----------------------------------------------------------------------------
\* Any use of the interface, by any number of processes.
Next ==
  \/ RunLoop
  \/ \E t \in Threads :
       \/ Enqueue(t) \/ LoseMessage(t)
       \/ \E r \in Records : Destroy(r, t) \/ SetThreshold(r, t)
       \/ \E r \in Records, name \in Names : Construct(r, t, name)
       \/ ReportProcess(t) \/ CloseProcess(t)
       \/ \E s \in Siblings(t) : ReportThread(t, s) \/ CloseThread(t, s)
  \/ \E p \in Procs : PerfModuleTerminate(p)

Spec == Init /\ [][Next]_vars

-----------------------------------------------------------------------------
(* Properties *)

\* Messages, objects and trees are well formed, the queue within its capacity.
TypeOK ==
  /\ s_pQueue \in [Procs -> BOOLEAN]
  /\ obj \in [Records -> [thread : Threads, path : Node] \cup {NoObject}]
  /\ \A t \in Threads : sending[t] # Null => sending[t] \in PerfMessage
  /\ queue \in Seq(PerfMessage) /\ Len(queue) <= mq_maxmsg
  /\ service.processes \subseteq Procs
  /\ service.tree \in [Threads -> Tree]
  /\ astray \in [Procs -> {"no", "yes", "closing"}]

\* Whatever the clients send, and if they end in the middle of it, the trees
\* of the service are those of processes in its map, and the stack of each is
\* a call path: the unchecked top() of the handlers is defined.
ServiceTablesConsistent ==
  \A t \in Threads : service.tree[t] # EmptyTree =>
    /\ Pid(t) \in service.processes
    /\ IsCallPath(service.tree[t].activeNode)

\* The exit of a call finds the node of that call on top of the stack, whatever
\* was reported or closed in between, so that its time is charged to the path on
\* which the call was made.  That is so for every process of which no message of
\* a call was lost, and which neither died in a call nor closed or left one
\* other than in the order of scopes, since a process with its id was closed.
ExitFindsItsCall ==
  queue # <<>> /\ Head(queue).type = "eExit" =>
    LET t == Head(queue).from
    IN  astray[Pid(t)] = "no" =>
          HasTree(service, t) /\ Top(service.tree[t]) = Head(queue).path

\* The service catches up with the calls: once it has handled every message on
\* its way, the stack of a thread is the path of the calls that the thread is
\* in, whatever reports and closes were sent in between.  A process that went
\* astray, as above, is followed again as soon as a close of it is in the queue
\* that was sent while none of its threads was in a call.
TreesCatchUp ==
  \A t \in Threads : astray[Pid(t)] # "yes" =>
    LET tree == SettledTree(t)
    IN  OpenPath(t) = IF tree = EmptyTree THEN Root ELSE Top(tree)
=============================================================================
