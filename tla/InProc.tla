------------------------------- MODULE InProc -------------------------------
(***************************************************************************)
(* The in-process build (PERF_REMOTE not defined): class PerfRecord, the   *)
(* thread map of PerfProcess, the entry of this process in sp_ProcessMap,  *)
(* and the C interface of rdkperf/rdk_perf.cpp.                            *)
(*                                                                         *)
(* Every operation takes the recursive mutex behind SCOPED_LOCK for as     *)
(* long as it runs, so each one is one atomic action.  Application threads *)
(* and the reporting timer interleave between them.                        *)
(*                                                                         *)
(* Records and trees are heap objects that hold pointers to one another.   *)
(* An address is not given out again while a record still points to it, so *)
(* that a record whose tree was deleted can be told from one whose tree is *)
(* alive.  Using such a record, or calling a method of a NULL process, is  *)
(* undefined behaviour: `fault' records it and the model stops there.      *)
(***************************************************************************)
EXTENDS PerfTree

CONSTANTS Threads,   \* the pthread_t values of the instrumented process
          Trees,     \* the addresses of PerfTree objects
          Records,   \* the addresses of PerfRecord objects
          Null,      \* the NULL pointer, and the thread of no record
          MaxDepth   \* bound of the model: nodes on a stack, root included

ASSUME NullAssumption == Null \notin Trees /\ Null \notin Threads
ASSUME MaxDepthAssumption == MaxDepth \in Nat

VARIABLES processFound, \* sp_ProcessMap has an entry for getpid()
          mapThreads,   \* PerfProcess::m_mapThreads
          trees,        \* the PerfTree objects by address
          rec,          \* the PerfRecord objects: thread, tree and node in it
          fault         \* the undefined behaviour met, if any

vars == <<processFound, mapThreads, trees, rec, fault>>

NoFault == "none"
NullProcess == "null_process"
FreedNode == "freed_node"

Closed == [thread |-> Null, tree |-> Null, node |-> Root]
IsOpen(r) == rec[r] # Closed

\* The tree at address a is in the thread map, that is, not deleted.
Live(a) == \E t \in Threads : mapThreads[t] = a

\* Record r is open and the node it points to still exists.
Attached(r) == IsOpen(r) /\ Live(rec[r].tree)

\* Addresses at which no tree lives and which no record remembers.
FreshTrees == {a \in Trees : ~Live(a) /\ \A r \in Records : rec[r].tree # a}

Init ==
  /\ processFound = FALSE
  /\ mapThreads = [t \in Threads |-> Null]
  /\ trees = [a \in Trees |-> EmptyTree]
  /\ rec = [r \in Records |-> Closed]
  /\ fault = NoFault

-----------------------------------------------------------------------------
\* PerfProcess::GetTree, and NewTree when the thread has none.
GetOrNewTree(t) == IF mapThreads[t] = Null THEN FreshTrees ELSE {mapThreads[t]}

\* The constructor PerfRecord::PerfRecord, run by thread t.
OpenRecord(r, t, name) ==
  /\ fault = NoFault
  /\ ~IsOpen(r)
  /\ \E a \in GetOrNewTree(t) :
       LET grown == AddNode(trees[a], name)
       IN  /\ Len(grown.activeNode) <= MaxDepth
           /\ mapThreads' = [mapThreads EXCEPT ![t] = a]
           /\ trees' = [trees EXCEPT ![a] = grown]
           /\ rec' = [rec EXCEPT ![r] = [thread |-> t, tree |-> a, node |-> Top(grown)]]
  /\ processFound' = TRUE
  /\ UNCHANGED fault

\* The destructor PerfRecord::~PerfRecord, run by any thread that holds r.
CloseRecord(r) ==
  /\ fault = NoFault
  /\ Attached(r)
  /\ LET a == rec[r].tree
         n == rec[r].node
     IN  trees' = [trees EXCEPT ![a] = CloseNode(IncrementData(@, n), n)]
  /\ rec' = [rec EXCEPT ![r] = Closed]
  /\ UNCHANGED <<processFound, mapThreads, fault>>

\* The same destructor once the tree is gone: m_nodeInTree dangles.
CloseDanglingRecord(r) ==
  /\ fault = NoFault
  /\ IsOpen(r) /\ ~Attached(r)
  /\ fault' = FreedNode
  /\ UNCHANGED <<processFound, mapThreads, trees, rec>>

DestroyRecord(r) == CloseRecord(r) \/ CloseDanglingRecord(r)

-----------------------------------------------------------------------------
HasTree(t) == mapThreads[t] # Null

\* Mutant: the entries are erased and the trees are not deleted.
TreesWithoutDelete(S) == trees

\* The thread map, and the trees, once those of the threads in S are deleted.
\* What is left at a freed address is what the next `new' there will make.
MapWithout(S) == [t \in Threads |-> IF t \in S THEN Null ELSE mapThreads[t]]

TreesWithout(S) ==
  [a \in Trees |-> IF \E t \in S : mapThreads[t] = a THEN EmptyTree ELSE trees[a]]

\* The threads PerfProcess::CloseInactiveThreads closes.
InactiveThreads == {t \in Threads : HasTree(t) /\ IsInactive(trees[mapThreads[t]])}

\* PerfProcess::ReportData
ReportTrees(forest) == [a \in Trees |-> IF Live(a) THEN ReportData(forest[a]) ELSE forest[a]]

\* RDKPerf_ReportProcess: close the inactive threads, then report the others.
\* What has just been freed is an empty tree, reported or not.
ReportProcess ==
  /\ fault = NoFault
  /\ processFound
  /\ trees' = ReportTrees(TreesWithout(InactiveThreads))
  /\ mapThreads' = MapWithout(InactiveThreads)
  /\ UNCHANGED <<processFound, rec, fault>>

\* RDKPerf_ReportThread: the process it finds is used without a NULL check.
ReportThread(t) ==
  /\ fault = NoFault
  /\ \/ /\ processFound
        /\ HasTree(t)
        /\ trees' = [trees EXCEPT ![mapThreads[t]] = ReportData(@)]
        /\ UNCHANGED fault
     \/ /\ ~processFound
        /\ fault' = NullProcess
        /\ UNCHANGED trees
  /\ UNCHANGED <<processFound, mapThreads, rec>>

\* RDKPerf_CloseThread
CloseThread(t) ==
  /\ fault = NoFault
  /\ processFound
  /\ HasTree(t)
  /\ mapThreads' = MapWithout({t})
  /\ trees' = TreesWithout({t})
  /\ UNCHANGED <<processFound, rec, fault>>

\* RDKPerf_CloseProcess: every tree goes with the process.
CloseProcess ==
  /\ fault = NoFault
  /\ processFound
  /\ mapThreads' = MapWithout(Threads)
  /\ trees' = TreesWithout(Threads)
  /\ processFound' = FALSE
  /\ UNCHANGED <<rec, fault>>

-----------------------------------------------------------------------------
\* Any use of the interface: records on the heap, closed in any order and by
\* any thread, threads and processes closed and reported at any time.
Next ==
  \/ \E r \in Records, t \in Threads, name \in Names : OpenRecord(r, t, name)
  \/ \E r \in Records : DestroyRecord(r)
  \/ \E t \in Threads : ReportThread(t) \/ CloseThread(t)
  \/ ReportProcess
  \/ CloseProcess

Spec == Init /\ [][Next]_vars

\* The timer thread calls ReportProcess again and again (TimerCallback::Loop).
FairSpec == Spec /\ WF_vars(ReportProcess)

\* The use the README shows first: records are objects in the scope of the
\* function they measure, so the innermost one of a thread is closed first;
\* a thread is closed when it has left its scopes, the process when all have,
\* and a thread is reported when the process has been seen.
Calling(t) == \E r \in Records : IsOpen(r) /\ rec[r].thread = t

Innermost(r) ==
  \A q \in Records : rec[q].thread = rec[r].thread => Len(rec[q].node) <= Len(rec[r].node)

ScopedNext ==
  \/ \E r \in Records, t \in Threads, name \in Names : OpenRecord(r, t, name)
  \/ \E r \in Records : Innermost(r) /\ DestroyRecord(r)
  \/ \E t \in Threads : processFound /\ ReportThread(t)
  \/ \E t \in Threads : ~Calling(t) /\ CloseThread(t)
  \/ ReportProcess
  \/ (\A t \in Threads : ~Calling(t)) /\ CloseProcess

ScopedSpec == Init /\ [][ScopedNext]_vars
FairScopedSpec == ScopedSpec /\ WF_vars(ReportProcess)

-----------------------------------------------------------------------------
(* Properties *)

\* Every variable stays in its domain; no record has the root for its node,
\* whose CloseNode does nothing.
TypeOK ==
  /\ processFound \in BOOLEAN
  /\ mapThreads \in [Threads -> Trees \cup {Null}]
  /\ trees \in [Trees -> Tree]
  /\ rec \in [Records -> [thread : Threads, tree : Trees, node : Node \ {Root}] \cup {Closed}]
  /\ fault \in {NoFault, NullProcess, FreedNode}

\* The table is consistent: no two threads share a tree, a process that is
\* not in the process map has no trees, a deleted tree is gone.
TableConsistent ==
  /\ \A s, t \in Threads : HasTree(s) /\ mapThreads[s] = mapThreads[t] => s = t
  /\ ~processFound => \A t \in Threads : ~HasTree(t)
  /\ \A a \in Trees : Live(a) \/ trees[a] = EmptyTree

\* The stack of a tree in the map is never empty, so the unchecked top() calls
\* of IsInactive, CloseActiveNode and ShowTree are defined, and each node on
\* it is an ancestor of those above it, so the report shows a call path,
\* whatever the order in which records are closed.
StackIsCallPath ==
  \A t \in Threads : HasTree(t) => IsCallPath(trees[mapThreads[t]].activeNode)

\* A record that is open in an existing tree has its node on the stack of the
\* tree, above the root, and no other record has that node: closing it
\* changes the node it opened and no other one.
OpenRecordsOnStack ==
  /\ \A r \in Records :
       Attached(r) => /\ mapThreads[rec[r].thread] = rec[r].tree
                      /\ IsOnStack(rec[r].node, trees[rec[r].tree])
  /\ \A q, r \in Records : Attached(q) /\ Attached(r) /\ rec[q] = rec[r] => q = r

\* A record can lose the tree it points into only by an explicit close of its
\* thread or process: no report, by the timer or by a caller, deletes a node
\* that an open record still points to.
OnlyCloseFrees ==
  [][\A r \in Records :
       Attached(r) /\ rec'[r] = rec[r] /\ ~Attached(r)'
         => CloseProcess \/ \E t \in Threads : CloseThread(t)]_vars

\* Under scoped use no destructor meets a deleted node and no report meets a
\* missing process, whatever the timer does in between.
MemorySafe == fault = NoFault /\ \A r \in Records : IsOpen(r) => Attached(r)

\* Under scoped use the stack of a thread holds its open calls and nothing
\* else: no call that has returned stays on it.
StackMirrorsCalls ==
  \A t \in Threads : HasTree(t) =>
    LET stack == trees[mapThreads[t]].activeNode
    IN  \A i \in 2..Len(stack) :
          \E r \in Records : rec[r] = [thread |-> t, tree |-> mapThreads[t], node |-> stack[i]]

\* A thread that makes no calls is removed from the table in the end (README,
\* "Logged data": if there are no new calls to a specific thread over the
\* reporting interval then it is removed from the table).
IdleThreadRemoved ==
  \A t \in Threads : []<>(~HasTree(t) \/ Calling(t) \/ fault # NoFault)

\* A report closes only "threads that have no activity since the last report"
\* (rdk_perf.cpp, RDKPerf_ReportProcess): nothing was measured in them.
ClosedThreadsHadNoActivity ==
  [][ReportProcess =>
       \A t \in InactiveThreads : trees[mapThreads[t]].measured = {}]_vars

NoFrame == [thread |-> Null, path |-> Root]

\* The calls of each thread as its tree shows them, and what each record
\* measures: the refinement mapping.
CallsShown == [t \in Threads |-> IF HasTree(t) THEN Top(trees[mapThreads[t]]) ELSE <<>>]
FramesHeld == [r \in Records |-> [thread |-> rec[r].thread, path |-> rec[r].node]]

Profile == INSTANCE CallProfile WITH calls <- CallsShown, frame <- FramesHeld

\* Under scoped use the library keeps the promise of CallProfile: the stack
\* of a thread's tree moves with its calls and with nothing else, deleted and
\* made again as the tree may be.
ProfileSpec == Profile!Spec
=============================================================================
