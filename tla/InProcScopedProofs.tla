------------------------- MODULE InProcScopedProofs -------------------------
(***************************************************************************)
(* What scoped use adds to the invariant of InProc, and the proof that     *)
(* under it the library implements CallProfile.                            *)
(***************************************************************************)
EXTENDS InProcProofs

\* The inductive invariant of scoped use.
SInv == IInv /\ MemorySafe /\ StackMirrorsCalls

\* Scoped use is a use.
LEMMA ScopedIsUse ==
  ASSUME [ScopedNext]_vars
  PROVE  [Next]_vars
  BY DEF ScopedNext, Next

\* An open record is that of a thread of the table, in that thread's tree.
LEMMA OpenRecordIsCall ==
  ASSUME SInv, NEW r \in Records, IsOpen(r)
  PROVE  /\ rec[r] \in [thread : Threads, tree : Trees, node : Node \ {Root}]
         /\ HasTree(rec[r].thread)
         /\ mapThreads[rec[r].thread] = rec[r].tree
         /\ IsOnStack(rec[r].node, trees[rec[r].tree])
  <1>1. rec[r] \in [thread : Threads, tree : Trees, node : Node \ {Root}]
    BY DEF SInv, IInv, TypeOK, IsOpen
  <1>2. Attached(r)
    BY DEF SInv, MemorySafe
  <1>3. /\ mapThreads[rec[r].thread] = rec[r].tree
        /\ IsOnStack(rec[r].node, trees[rec[r].tree])
    BY <1>2 DEF SInv, IInv, OpenRecordsOnStack
  <1>4. QED BY <1>1, <1>3, NullAssumption DEF HasTree

\* The record to be destroyed first has the active node of its tree.
LEMMA InnermostIsActive ==
  ASSUME SInv, NEW r \in Records, IsOpen(r), Innermost(r)
  PROVE  Top(trees[rec[r].tree]) = rec[r].node
  <1>1. PICK t, a, n : t = rec[r].thread /\ a = rec[r].tree /\ n = rec[r].node
    OBVIOUS
  <1>2. /\ t \in Threads /\ a \in Trees /\ n \in Node
        /\ HasTree(t) /\ mapThreads[t] = a /\ IsOnStack(n, trees[a])
    BY <1>1, OpenRecordIsCall
  <1>3. PICK stack : stack = trees[a].activeNode
    OBVIOUS
  <1>4. /\ IsCallPath(stack) /\ Len(stack) \in Nat
        /\ Len(n) \in 1..(Len(stack) - 1) /\ stack[Len(n) + 1] = n
    BY <1>2, <1>3, LiveTree, LastOfSeq
    DEF IsOnStack, SInv, IInv, StackIsCallPath, Tree, IsCallPath
  <1>5. PICK q \in Records :
          rec[q] = [thread |-> t, tree |-> a, node |-> stack[Len(stack)]]
    BY <1>2, <1>3, <1>4 DEF SInv, StackMirrorsCalls
  <1>6. Len(stack[Len(stack)]) <= Len(n)
    BY <1>1, <1>5 DEF Innermost
  <1>7. Len(stack[Len(stack)]) = Len(stack) - 1
    BY <1>4 DEF IsCallPath
  <1>8. Len(n) + 1 = Len(stack)
    BY <1>4, <1>6, <1>7
  <1>9. QED BY <1>1, <1>3, <1>4, <1>8 DEF Top

-----------------------------------------------------------------------------
(* One lemma per operation *)

\* The constructor: its record is the call on top of the stack of its thread.
LEMMA OpenRecordKeepsSInv ==
  ASSUME SInv, NEW r \in Records, NEW t \in Threads, NEW name \in Names,
         OpenRecord(r, t, name)
  PROVE  MemorySafe' /\ StackMirrorsCalls'
  <1>1. PICK a \in GetOrNewTree(t), grown \in Tree, old \in Seq(Node) :
          Opened(r, t, name, a, grown, old)
    BY OpenRecordEffect DEF SInv
  <1> USE DEF Opened
  <1>2. /\ a \in Trees /\ mapThreads[t] \in {a, Null} /\ a # Null
        /\ mapThreads[t] = Null => ~Live(a)
    BY GetOrNewTreeType, LiveTree DEF SInv
  <1>3. /\ mapThreads'[t] = a /\ trees'[a] = grown
        /\ rec'[r] = [thread |-> t, tree |-> a, node |-> Top(grown)]
        /\ \A u \in Threads \ {t} : mapThreads'[u] = mapThreads[u]
        /\ \A b \in Trees \ {a} : trees'[b] = trees[b]
        /\ \A q \in Records \ {r} : rec'[q] = rec[q]
    BY <1>1, <1>2 DEF SInv, IInv, TypeOK
  <1>4. MemorySafe'
    <2>1. ASSUME NEW q \in Records, IsOpen(q)' PROVE Live(rec[q].tree)'
      <3>1. CASE q = r
        BY <1>3, <3>1 DEF Live
      <3>2. CASE q # r
        <4>1. IsOpen(q) /\ rec'[q] = rec[q]
          BY <1>3, <2>1, <3>2 DEF IsOpen
        <4>2. /\ rec[q].thread \in Threads /\ rec[q].tree \in Trees
              /\ mapThreads[rec[q].thread] = rec[q].tree
          BY <4>1, OpenRecordIsCall
        <4>3. mapThreads'[rec[q].thread] = rec[q].tree
          BY <1>2, <1>3, <4>2, NullAssumption
        <4>4. QED BY <4>1, <4>2, <4>3 DEF Live
      <3>3. QED BY <3>1, <3>2
    <2>2. fault' = NoFault
      BY <1>1 DEF SInv, MemorySafe
    <2>3. QED BY <2>1, <2>2 DEF MemorySafe, Attached, Live, IsOpen
  <1>5. ASSUME NEW u \in Threads, HasTree(u)',
               NEW i \in 2..Len(trees'[mapThreads'[u]].activeNode)
        PROVE  \E q \in Records :
                 rec'[q] = [thread |-> u, tree |-> mapThreads'[u],
                            node |-> trees'[mapThreads'[u]].activeNode[i]]
    <2>1. ASSUME NEW b \in Trees, HasTree(u), mapThreads[u] = b, mapThreads'[u] = b,
                 i \in 2..Len(trees[b].activeNode),
                 trees'[b].activeNode[i] = trees[b].activeNode[i]
          PROVE  \E q \in Records :
                   rec'[q] = [thread |-> u, tree |-> b, node |-> trees'[b].activeNode[i]]
      <3>1. PICK q \in Records :
              rec[q] = [thread |-> u, tree |-> b, node |-> trees[b].activeNode[i]]
        BY <2>1 DEF SInv, StackMirrorsCalls
      <3>2. q # r
        BY <1>1, <3>1, NullAssumption DEF IsOpen, Closed
      <3>3. QED BY <1>3, <2>1, <3>1, <3>2
    <2>2. CASE u = t /\ i = Len(old) + 1
      BY <1>1, <1>3, <2>2 DEF Top
    <2>3. CASE u = t /\ i # Len(old) + 1
      <3>1. Len(old) \in Nat /\ i \in 2..Len(old)
        BY <1>1, <1>3, <1>5, <2>3, LastOfSeq
      <3>2. Live(a) /\ old = trees[a].activeNode
        <4>1. trees[a].activeNode # <<>>
          BY <1>1, <3>1
        <4>2. Live(a)
          BY <1>2, <4>1, LiveTree DEF SInv, EmptyTree
        <4>3. QED BY <1>1, <4>2
      <3>3. mapThreads[t] = a /\ HasTree(t)
        BY <1>2, <3>2 DEF HasTree
      <3>4. grown.activeNode[i] = old[i]
        BY <1>1, <3>1
      <3>5. QED BY <1>2, <1>3, <2>1, <2>3, <3>1, <3>2, <3>3, <3>4
    <2>4. CASE u # t
      <3>1. HasTree(u) /\ mapThreads'[u] = mapThreads[u] /\ mapThreads[u] \in Trees
        BY <1>3, <1>5, <2>4 DEF HasTree, SInv, IInv, TypeOK
      <3>2. mapThreads[u] # a
        BY <1>2, <2>4, <3>1 DEF Live, SInv, IInv, TableConsistent
      <3>3. QED BY <1>3, <1>5, <2>1, <3>1, <3>2
    <2>5. QED BY <2>2, <2>3, <2>4
  <1>6. QED BY <1>4, <1>5 DEF StackMirrorsCalls, HasTree

\* What the destructor does to the stack of the innermost record of a thread:
\* its node, which is on top, comes off.
Popped(r, a, n, old, closed) ==
  /\ a \in Trees /\ Live(a) /\ n \in Node \ {Root}
  /\ old = trees[a].activeNode /\ IsCallPath(old)
  /\ old[Len(old)] = n /\ Len(n) = Len(old) - 1
  /\ IsCallPath(closed.activeNode)
  /\ Len(closed.activeNode) = Len(old) - 1
  /\ \A i \in 1..Len(closed.activeNode) : closed.activeNode[i] = old[i]
  /\ rec[r] = [thread |-> rec[r].thread, tree |-> a, node |-> n]
  /\ mapThreads[rec[r].thread] = a
  /\ trees' = [trees EXCEPT ![a] = closed]
  /\ rec' = [rec EXCEPT ![r] = Closed]
  /\ mapThreads' = mapThreads /\ fault' = fault

\* The destructor of the innermost record does just that.
LEMMA CloseInnermostEffect ==
  ASSUME SInv, NEW r \in Records, Innermost(r), CloseRecord(r)
  PROVE  \E a \in Trees, n \in Node, old \in Seq(Node), closed \in Tree :
           Popped(r, a, n, old, closed)
  <1>1. PICK a, n : a = rec[r].tree /\ n = rec[r].node
    OBVIOUS
  <1>2. IsOpen(r)
    BY DEF CloseRecord, Attached
  <1>3. /\ rec[r] \in [thread : Threads, tree : Trees, node : Node \ {Root}]
        /\ mapThreads[rec[r].thread] = a
        /\ a \in Trees /\ n \in Node \ {Root}
        /\ Top(trees[a]) = n
        /\ Live(a)
    BY <1>1, <1>2, OpenRecordIsCall, InnermostIsActive DEF Live
  <1>4. trees[a] \in Tree /\ IsCallPath(trees[a].activeNode)
    BY <1>3, LiveTree DEF SInv
  <1>5. PICK old \in Seq(Node) : old = trees[a].activeNode
    BY <1>4 DEF Tree
  <1>6. PICK closed : closed = CloseNode(IncrementData(trees[a], n), n)
    OBVIOUS
  <1>7. /\ closed \in Tree /\ IsCallPath(closed.activeNode)
        /\ Len(closed.activeNode) = Len(old) - 1
        /\ \A i \in 1..Len(closed.activeNode) : closed.activeNode[i] = old[i]
    BY <1>3, <1>4, <1>5, <1>6, CloseNodeShrinks
  <1>8. old[Len(old)] = n /\ Len(n) = Len(old) - 1
    BY <1>3, <1>4, <1>5, TopOfCallPath DEF Top
  <1>9. /\ trees' = [trees EXCEPT ![a] = closed]
        /\ rec' = [rec EXCEPT ![r] = Closed]
        /\ mapThreads' = mapThreads /\ fault' = fault
    BY <1>1, <1>6 DEF CloseRecord
  <1>10. QED BY <1>1, <1>3, <1>4, <1>5, <1>7, <1>8, <1>9 DEF Popped

\* The destructor of the innermost record: every other call of the thread
\* keeps its node, and the node that goes is that of the call that returns.
LEMMA CloseRecordKeepsSInv ==
  ASSUME SInv, NEW r \in Records, Innermost(r), CloseRecord(r)
  PROVE  MemorySafe' /\ StackMirrorsCalls'
  <1>1. PICK a \in Trees, n \in Node, old \in Seq(Node), closed \in Tree :
          Popped(r, a, n, old, closed)
    BY CloseInnermostEffect
  <1>2. /\ trees'[a] = closed
        /\ \A b \in Trees \ {a} : trees'[b] = trees[b]
        /\ rec'[r] = Closed
        /\ \A q \in Records \ {r} : rec'[q] = rec[q]
        /\ mapThreads' = mapThreads /\ fault' = fault
    BY <1>1 DEF Popped, SInv, IInv, TypeOK
  <1>3. MemorySafe'
    BY <1>2 DEF SInv, MemorySafe, Attached, Live, IsOpen
  <1>4. ASSUME NEW u \in Threads, HasTree(u),
               NEW i \in 2..Len(trees'[mapThreads[u]].activeNode)
        PROVE  \E q \in Records :
                 rec'[q] = [thread |-> u, tree |-> mapThreads[u],
                            node |-> trees'[mapThreads[u]].activeNode[i]]
    <2>1. mapThreads[u] \in Trees
      BY <1>4 DEF SInv, IInv, TypeOK, HasTree
    <2>2. CASE mapThreads[u] = a
      <3>1. Len(old) \in Nat /\ i \in 2..Len(closed.activeNode)
        BY <1>2, <1>4, <2>2, LastOfSeq
      <3>2. i \in 2..(Len(old) - 1) /\ closed.activeNode[i] = old[i]
        BY <1>1, <3>1 DEF Popped
      <3>3. Len(old[i]) = i - 1 /\ old = trees[a].activeNode
        BY <1>1, <3>1, <3>2 DEF Popped, IsCallPath
      <3>4. PICK q \in Records : rec[q] = [thread |-> u, tree |-> a, node |-> old[i]]
        BY <1>4, <2>2, <3>1, <3>2, <3>3 DEF SInv, StackMirrorsCalls
      <3>5. rec[q].node # rec[r].node
        BY <1>1, <3>1, <3>2, <3>3, <3>4 DEF Popped
      <3>6. q # r
        BY <3>5
      <3>7. QED BY <1>2, <2>2, <3>2, <3>4, <3>6
    <2>3. CASE mapThreads[u] # a
      <3>1. i \in 2..Len(trees[mapThreads[u]].activeNode)
        BY <1>2, <1>4, <2>1, <2>3
      <3>2. PICK q \in Records :
              rec[q] = [thread |-> u, tree |-> mapThreads[u],
                        node |-> trees[mapThreads[u]].activeNode[i]]
        BY <1>4, <3>1 DEF SInv, StackMirrorsCalls
      <3>3. rec[q].tree = mapThreads[u] /\ rec[r].tree = a
        BY <1>1, <3>2 DEF Popped
      <3>4. q # r
        BY <2>3, <3>3
      <3>5. QED BY <1>2, <2>1, <2>3, <3>2, <3>4
    <2>4. QED BY <2>2, <2>3
  <1>5. QED BY <1>2, <1>3, <1>4 DEF StackMirrorsCalls, HasTree

\* Deleting and reporting trees moves no call of a thread that stays.
LEMMA DeleteTreesKeepsMirror ==
  ASSUME IInv, StackMirrorsCalls, NEW S \in SUBSET Threads,
         mapThreads' = MapWithout(S),
         \A a \in Trees : Live(a)' => trees'[a].activeNode = trees[a].activeNode,
         rec' = rec
  PROVE  StackMirrorsCalls'
  <1>1. ASSUME NEW t \in Threads, HasTree(t)'
        PROVE  /\ HasTree(t) /\ mapThreads'[t] = mapThreads[t]
               /\ trees'[mapThreads'[t]].activeNode = trees[mapThreads[t]].activeNode
    <2>1. HasTree(t) /\ mapThreads'[t] = mapThreads[t] /\ mapThreads[t] \in Trees
      BY <1>1 DEF MapWithout, HasTree, IInv, TypeOK
    <2>2. Live(mapThreads[t])'
      BY <2>1 DEF Live
    <2>3. QED BY <2>1, <2>2
  <1>2. QED BY <1>1 DEF StackMirrorsCalls, HasTree

\* A thread with an open record is not inactive.
LEMMA CallingIsActive ==
  ASSUME SInv, NEW r \in Records, IsOpen(r)
  PROVE  rec[r].thread \notin InactiveThreads
  <1>1. Attached(r) /\ mapThreads[rec[r].thread] = rec[r].tree
    BY OpenRecordIsCall DEF SInv, MemorySafe
  <1>2. ~IsInactive(trees[rec[r].tree])
    BY <1>1, AttachedIsActive DEF SInv
  <1>3. QED BY <1>1, <1>2 DEF InactiveThreads

\* No open record loses its tree when only threads without calls are deleted.
LEMMA DeleteIdleKeepsMemorySafe ==
  ASSUME SInv, NEW S \in SUBSET Threads, mapThreads' = MapWithout(S),
         \A r \in Records : IsOpen(r) => rec[r].thread \notin S,
         rec' = rec, fault' = fault
  PROVE  MemorySafe'
  <1>1. ASSUME NEW r \in Records, IsOpen(r)'
        PROVE  Live(rec[r].tree)'
    <2>1. IsOpen(r)
      BY <1>1 DEF IsOpen
    <2>2. rec[r].thread \in Threads /\ mapThreads[rec[r].thread] = rec[r].tree
      BY <2>1, OpenRecordIsCall
    <2>3. mapThreads'[rec[r].thread] = rec[r].tree
      BY <2>1, <2>2 DEF MapWithout
    <2>4. QED BY <2>2, <2>3 DEF Live
  <1>2. QED BY <1>1 DEF SInv, MemorySafe, Attached, Live, IsOpen

\* The timer deletes no tree in which a call is open.
LEMMA ReportProcessKeepsSInv ==
  ASSUME SInv, ReportProcess
  PROVE  MemorySafe' /\ StackMirrorsCalls'
  <1>1. PICK S \in SUBSET Threads : S = InactiveThreads
    BY DEF InactiveThreads
  <1>2. mapThreads' = MapWithout(S) /\ UNCHANGED <<rec, fault>>
    BY <1>1 DEF ReportProcess
  <1>3. \A r \in Records : IsOpen(r) => rec[r].thread \notin S
    BY <1>1, CallingIsActive
  <1>4. MemorySafe'
    BY <1>2, <1>3, DeleteIdleKeepsMemorySafe
  <1>5. \A a \in Trees : Live(a)' => trees'[a].activeNode = trees[a].activeNode
    BY ReportProcessEffect DEF SInv
  <1>6. QED BY <1>2, <1>4, <1>5, DeleteTreesKeepsMirror DEF SInv

\* A report of a thread moves no call.
LEMMA ReportThreadKeepsSInv ==
  ASSUME SInv, NEW t \in Threads, processFound, ReportThread(t)
  PROVE  MemorySafe' /\ StackMirrorsCalls'
  <1>1. mapThreads' = MapWithout({}) /\ UNCHANGED <<rec, fault>>
    BY DEF ReportThread, MapWithout, SInv, IInv, TypeOK
  <1>2. MemorySafe'
    BY <1>1, DeleteIdleKeepsMemorySafe
  <1>3. \A a \in Trees : trees'[a].activeNode = trees[a].activeNode
    BY LiveTree, ReportDataKeepsStack DEF ReportThread, SInv, IInv, TypeOK
  <1>4. QED BY <1>1, <1>2, <1>3, DeleteTreesKeepsMirror DEF SInv

\* A thread is closed when it has left its scopes.
LEMMA CloseThreadKeepsSInv ==
  ASSUME SInv, NEW t \in Threads, ~Calling(t), CloseThread(t)
  PROVE  MemorySafe' /\ StackMirrorsCalls'
  <1>1. /\ mapThreads' = MapWithout({t}) /\ trees' = TreesWithout({t})
        /\ UNCHANGED <<rec, fault>>
    BY DEF CloseThread
  <1>2. MemorySafe'
    BY <1>1, DeleteIdleKeepsMemorySafe DEF Calling
  <1>3. \A a \in Trees : Live(a)' => trees'[a].activeNode = trees[a].activeNode
    BY <1>1, TreesWithoutType DEF SInv
  <1>4. QED BY <1>1, <1>2, <1>3, DeleteTreesKeepsMirror DEF SInv

\* A process is closed when all its threads have left their scopes.
LEMMA CloseProcessKeepsSInv ==
  ASSUME SInv, \A t \in Threads : ~Calling(t), CloseProcess
  PROVE  MemorySafe' /\ StackMirrorsCalls'
  <1>1. /\ mapThreads' = MapWithout(Threads) /\ trees' = TreesWithout(Threads)
        /\ UNCHANGED <<rec, fault>>
    BY DEF CloseProcess
  <1>2. \A r \in Records : ~IsOpen(r)
    BY OpenRecordIsCall DEF Calling
  <1>3. MemorySafe'
    BY <1>1, <1>2, DeleteIdleKeepsMemorySafe
  <1>4. \A a \in Trees : Live(a)' => trees'[a].activeNode = trees[a].activeNode
    BY <1>1, TreesWithoutType DEF SInv
  <1>5. QED BY <1>1, <1>3, <1>4, DeleteTreesKeepsMirror DEF SInv

-----------------------------------------------------------------------------
(* Theorems *)

\* The invariant of scoped use holds at the start.
LEMMA InitSInv == Init => SInv
  BY InitIInv, NullAssumption
  DEF Init, SInv, MemorySafe, StackMirrorsCalls, IsOpen, HasTree

\* The invariant of scoped use is inductive.
LEMMA ScopedNextSInv ==
  ASSUME SInv, [ScopedNext]_vars
  PROVE  SInv'
  <1>1. IInv'
    BY ScopedIsUse, NextIInv DEF SInv
  <1>2. MemorySafe' /\ StackMirrorsCalls'
    <2>1. ASSUME NEW r \in Records, NEW t \in Threads, NEW name \in Names,
                 OpenRecord(r, t, name)
          PROVE  MemorySafe' /\ StackMirrorsCalls'
      BY <2>1, OpenRecordKeepsSInv
    <2>2. ASSUME NEW r \in Records, Innermost(r), DestroyRecord(r)
          PROVE  MemorySafe' /\ StackMirrorsCalls'
      <3>1. ~CloseDanglingRecord(r)
        BY DEF CloseDanglingRecord, SInv, MemorySafe
      <3>2. QED BY <2>2, <3>1, CloseRecordKeepsSInv DEF DestroyRecord
    <2>3. ASSUME NEW t \in Threads, processFound, ReportThread(t)
          PROVE  MemorySafe' /\ StackMirrorsCalls'
      BY <2>3, ReportThreadKeepsSInv
    <2>4. ASSUME NEW t \in Threads, ~Calling(t), CloseThread(t)
          PROVE  MemorySafe' /\ StackMirrorsCalls'
      BY <2>4, CloseThreadKeepsSInv
    <2>5. CASE ReportProcess
      BY <2>5, ReportProcessKeepsSInv
    <2>6. CASE (\A t \in Threads : ~Calling(t)) /\ CloseProcess
      BY <2>6, CloseProcessKeepsSInv
    <2>7. CASE UNCHANGED vars
      BY <2>7 DEF SInv, MemorySafe, StackMirrorsCalls, Attached, IsOpen, Live, HasTree, vars
    <2>8. QED BY <2>1, <2>2, <2>3, <2>4, <2>5, <2>6, <2>7 DEF ScopedNext
  <1>3. QED BY <1>1, <1>2 DEF SInv

\* Under scoped use every open record keeps its tree, and every node on a
\* stack its record, for any number of threads, records, trees and names.
THEOREM SInvIsInvariant == ScopedSpec => []SInv
  <1>1. SInv /\ [ScopedNext]_vars => SInv'
    BY ScopedNextSInv
  <1>2. QED BY InitSInv, <1>1, PTL DEF ScopedSpec

\* Under scoped use no destructor meets a node that was deleted and no report
\* a process that is not there, whatever the timer does in between.
THEOREM ScopedUseIsSafe == ScopedSpec => []MemorySafe
  <1>1. SInv => MemorySafe BY DEF SInv
  <1>2. QED BY <1>1, SInvIsInvariant, PTL

\* Under scoped use each node on the stack of a thread is that of an open
\* call: AddNode and CloseActiveNode stay in step with the program.
THEOREM StackIsOpenCalls == ScopedSpec => []StackMirrorsCalls
  <1>1. SInv => StackMirrorsCalls BY DEF SInv
  <1>2. QED BY <1>1, SInvIsInvariant, PTL

-----------------------------------------------------------------------------
(* The refinement of CallProfile *)

\* A thread shows the top of its tree, and nothing without one.
LEMMA CallShown ==
  ASSUME NEW t \in Threads
  PROVE  /\ HasTree(t) => CallsShown[t] = Top(trees[mapThreads[t]])
         /\ ~HasTree(t) => CallsShown[t] = <<>>
  BY DEF CallsShown

\* The constructor enters a call.
LEMMA OpenRecordEnters ==
  ASSUME SInv, NEW r \in Records, NEW t \in Threads, NEW name \in Names,
         OpenRecord(r, t, name)
  PROVE  Profile!Enter(r, t, name)
  <1>1. PICK a \in GetOrNewTree(t), grown \in Tree, old \in Seq(Node) :
          Opened(r, t, name, a, grown, old)
    BY OpenRecordEffect DEF SInv
  <1> USE DEF Opened
  <1>2. /\ a \in Trees /\ mapThreads[t] \in {a, Null} /\ a # Null
        /\ mapThreads[t] = Null => ~Live(a)
    BY GetOrNewTreeType, LiveTree DEF SInv
  <1>3. /\ mapThreads'[t] = a /\ trees'[a] = grown
        /\ \A u \in Threads \ {t} : mapThreads'[u] = mapThreads[u]
        /\ \A b \in Trees \ {a} : trees'[b] = trees[b]
    BY <1>1, <1>2 DEF SInv, IInv, TypeOK
  <1>4. old[Len(old)] = CallsShown[t]
    <2>1. CASE mapThreads[t] = a
      <3>1. HasTree(t) /\ old = trees[a].activeNode
        BY <1>1, <1>2, <2>1 DEF HasTree, Live
      <3>2. QED BY <2>1, <3>1, CallShown DEF Top
    <2>2. CASE mapThreads[t] = Null
      <3>1. ~HasTree(t) /\ old = <<Root>>
        BY <1>1, <1>2, <2>2, LiveTree DEF HasTree, SInv, EmptyTree
      <3>2. QED BY <3>1, CallShown DEF Root
    <2>3. QED BY <1>2, <2>1, <2>2
  <1>5. Top(grown) = Append(CallsShown[t], name)
    BY <1>1, <1>4 DEF AddChild
  <1>6. CallsShown' = [CallsShown EXCEPT ![t] = Append(@, name)]
    <2>1. ASSUME NEW u \in Threads
          PROVE  (IF HasTree(u)' THEN Top(trees[mapThreads[u]])' ELSE <<>>)
                   = IF u = t THEN Top(grown) ELSE CallsShown[u]
      <3>1. CASE u = t
        BY <1>2, <1>3, <3>1 DEF HasTree, Top
      <3>2. CASE u # t
        <4>1. HasTree(u)' <=> HasTree(u)
          BY <1>3, <3>2 DEF HasTree
        <4>2. HasTree(u) => /\ mapThreads[u] \in Trees /\ mapThreads[u] # a
                            /\ mapThreads'[u] = mapThreads[u]
          BY <1>2, <1>3, <3>2 DEF HasTree, Live, SInv, IInv, TypeOK, TableConsistent
        <4>3. QED BY <1>3, <3>2, <4>1, <4>2, CallShown DEF Top
      <3>3. QED BY <3>1, <3>2
    <2>2. CallsShown' = [u \in Threads |-> IF u = t THEN Top(grown) ELSE CallsShown[u]]
      BY <2>1 DEF CallsShown
    <2>3. CallsShown = [u \in Threads |-> CallsShown[u]]
      BY DEF CallsShown
    <2>4. QED BY <1>5, <2>2, <2>3
  <1>7. FramesHeld[r] = NoFrame
    BY <1>1 DEF FramesHeld, NoFrame, IsOpen, Closed
  <1>8. FramesHeld' = [FramesHeld EXCEPT ![r] = [thread |-> t,
                                                 path |-> Append(CallsShown[t], name)]]
    BY <1>1, <1>5 DEF FramesHeld, SInv, IInv, TypeOK
  <1>9. QED BY <1>6, <1>7, <1>8 DEF Profile!Enter

\* The destructor of the innermost record of a thread leaves its call.
LEMMA CloseInnermostLeaves ==
  ASSUME SInv, NEW r \in Records, Innermost(r), CloseRecord(r)
  PROVE  \E t \in Threads : Profile!Leave(r, t)
  <1>1. PICK a \in Trees, n \in Node, old \in Seq(Node), closed \in Tree :
          Popped(r, a, n, old, closed)
    BY CloseInnermostEffect
  <1>2. PICK t \in Threads : t = rec[r].thread /\ HasTree(t)
    BY OpenRecordIsCall DEF CloseRecord, Attached
  <1> USE DEF Popped
  <1>3. CallsShown[t] = n /\ n # <<>> /\ mapThreads[t] = a
    BY <1>1, <1>2, CallShown DEF Top, Root
  <1>4. /\ FramesHeld[r] # NoFrame
        /\ FramesHeld[r] = [thread |-> t, path |-> CallsShown[t]]
        /\ FramesHeld' = [FramesHeld EXCEPT ![r] = NoFrame]
    <2>1. /\ FramesHeld[r] = [thread |-> t, path |-> n]
          /\ t # Null
      BY <1>1, <1>2, NullAssumption DEF FramesHeld
    <2>2. FramesHeld[r] # NoFrame
      BY <2>1 DEF NoFrame
    <2>3. FramesHeld' = [q \in Records |-> IF q = r THEN NoFrame ELSE FramesHeld[q]]
      BY <1>1 DEF FramesHeld, NoFrame, Closed, SInv, IInv, TypeOK
    <2>4. FramesHeld' = [FramesHeld EXCEPT ![r] = NoFrame]
      BY <2>3 DEF FramesHeld
    <2>5. QED BY <1>3, <2>1, <2>2, <2>4
  <1>5. /\ trees'[a] = closed /\ mapThreads' = mapThreads
        /\ \A b \in Trees \ {a} : trees'[b] = trees[b]
    BY <1>1 DEF SInv, IInv, TypeOK
  <1>6. Top(closed) = Parent(n)
    <2>1. Len(old) \in Nat /\ Len(old) >= 2
      BY <1>1, LastOfSeq DEF IsCallPath
    <2>2. Len(closed.activeNode) = Len(old) - 1 /\ Len(old) - 1 \in 1..Len(closed.activeNode)
      BY <1>1, <2>1
    <2>3. Top(closed) = old[Len(old) - 1]
      BY <1>1, <2>2 DEF Top
    <2>4. Parent(old[Len(old)]) = old[Len(old) - 1]
      BY <1>1, <2>1 DEF IsCallPath
    <2>5. QED BY <1>1, <2>3, <2>4
  <1>7. CallsShown' = [CallsShown EXCEPT ![t] = SubSeq(@, 1, Len(@) - 1)]
    <2>1. ASSUME NEW u \in Threads
          PROVE  (IF HasTree(u)' THEN Top(trees[mapThreads[u]])' ELSE <<>>)
                   = IF u = t THEN Parent(n) ELSE CallsShown[u]
      <3>1. CASE u = t
        BY <1>2, <1>3, <1>5, <1>6, <3>1 DEF HasTree, Top
      <3>2. CASE u # t
        <4>1. HasTree(u) => mapThreads[u] \in Trees /\ mapThreads[u] # a
          BY <1>2, <1>3, <3>2 DEF HasTree, SInv, IInv, TypeOK, TableConsistent
        <4>2. QED BY <1>5, <3>2, <4>1, CallShown DEF Top, HasTree
      <3>3. QED BY <3>1, <3>2
    <2>2. CallsShown' = [u \in Threads |-> IF u = t THEN Parent(n) ELSE CallsShown[u]]
      BY <2>1 DEF CallsShown
    <2>3. CallsShown = [u \in Threads |-> CallsShown[u]]
      BY DEF CallsShown
    <2>4. QED BY <1>3, <2>2, <2>3 DEF Parent
  <1>8. QED BY <1>2, <1>3, <1>4, <1>7 DEF Profile!Leave

\* Deleting trees without open calls, and reporting others, is not seen.
LEMMA DeleteTreesStutters ==
  ASSUME SInv, NEW S \in SUBSET Threads, mapThreads' = MapWithout(S),
         \A a \in Trees : Live(a)' => trees'[a].activeNode = trees[a].activeNode,
         \A t \in S : HasTree(t) => Top(trees[mapThreads[t]]) = Root,
         rec' = rec
  PROVE  UNCHANGED <<CallsShown, FramesHeld>>
  <1>1. ASSUME NEW t \in Threads
        PROVE  (IF HasTree(t)' THEN Top(trees[mapThreads[t]])' ELSE <<>>) = CallsShown[t]
    <2>1. CASE t \in S
      <3>1. ~HasTree(t)'
        BY <2>1 DEF MapWithout, HasTree
      <3>2. CallsShown[t] = <<>>
        BY <2>1, CallShown DEF Root
      <3>3. QED BY <3>1, <3>2
    <2>2. CASE t \notin S
      <3>1. mapThreads'[t] = mapThreads[t]
        BY <2>2 DEF MapWithout
      <3>2. HasTree(t) => /\ mapThreads[t] \in Trees
                          /\ trees'[mapThreads[t]].activeNode = trees[mapThreads[t]].activeNode
        BY <3>1 DEF HasTree, Live, SInv, IInv, TypeOK
      <3>3. QED BY <3>1, <3>2, CallShown DEF HasTree, Top
    <2>3. QED BY <2>1, <2>2
  <1>2. CallsShown' = [t \in Threads |-> CallsShown[t]]
    BY <1>1 DEF CallsShown
  <1>3. CallsShown = [t \in Threads |-> CallsShown[t]]
    BY DEF CallsShown
  <1>4. FramesHeld' = FramesHeld
    BY DEF FramesHeld
  <1>5. QED BY <1>2, <1>3, <1>4

\* The tree of a thread that is in no call has its root on top.
LEMMA NotCallingShowsRoot ==
  ASSUME SInv, NEW t \in Threads, ~Calling(t), HasTree(t)
  PROVE  Top(trees[mapThreads[t]]) = Root
  <1>1. PICK tree \in Tree : tree = trees[mapThreads[t]]
    BY DEF SInv, IInv, TypeOK, HasTree
  <1>2. IsCallPath(tree.activeNode)
    BY <1>1 DEF SInv, IInv, StackIsCallPath
  <1>3. /\ Len(tree.activeNode) \in Nat /\ Len(tree.activeNode) >= 1
        /\ Top(tree) \in Node /\ Len(Top(tree)) = Len(tree.activeNode) - 1
    BY <1>2, TopOfCallPath DEF IsCallPath
  <1>4. Len(tree.activeNode) = 1
    <2>1. SUFFICES ASSUME Len(tree.activeNode) # 1 PROVE FALSE
      OBVIOUS
    <2>2. \A k \in Nat : k >= 1 /\ k # 1 => k \in 2..k
      OBVIOUS
    <2>3. Len(tree.activeNode) \in 2..Len(tree.activeNode)
      BY <1>3, <2>1, <2>2
    <2>4. PICK r \in Records :
            rec[r] = [thread |-> t, tree |-> mapThreads[t],
                      node |-> tree.activeNode[Len(tree.activeNode)]]
      BY <1>1, <2>3 DEF SInv, StackMirrorsCalls
    <2>5. IsOpen(r) /\ rec[r].thread = t
      BY <2>4, NullAssumption DEF IsOpen, Closed
    <2>6. QED BY <2>5 DEF Calling
  <1>5. QED BY <1>1, <1>3, <1>4 DEF Node, Root

\* Every step of scoped use is a call, a return, or nothing to CallProfile.
LEMMA ScopedNextImplements ==
  ASSUME SInv, [ScopedNext]_vars
  PROVE  [Profile!Next]_(<<CallsShown, FramesHeld>>)
  <1>1. ASSUME NEW r \in Records, NEW t \in Threads, NEW name \in Names,
               OpenRecord(r, t, name)
        PROVE  Profile!Next
    BY <1>1, OpenRecordEnters DEF Profile!Next
  <1>2. ASSUME NEW r \in Records, Innermost(r), DestroyRecord(r)
        PROVE  Profile!Next
    <2>1. ~CloseDanglingRecord(r)
      BY DEF CloseDanglingRecord, SInv, MemorySafe
    <2>2. QED BY <1>2, <2>1, CloseInnermostLeaves DEF DestroyRecord, Profile!Next
  <1>3. ASSUME NEW t \in Threads, processFound, ReportThread(t)
        PROVE  UNCHANGED <<CallsShown, FramesHeld>>
    <2>1. mapThreads' = MapWithout({}) /\ rec' = rec
      BY <1>3 DEF ReportThread, MapWithout, SInv, IInv, TypeOK
    <2>2. \A a \in Trees : trees'[a].activeNode = trees[a].activeNode
      BY <1>3, LiveTree, ReportDataKeepsStack DEF ReportThread, SInv, IInv, TypeOK
    <2>3. QED BY <2>1, <2>2, DeleteTreesStutters
  <1>4. ASSUME NEW t \in Threads, ~Calling(t), CloseThread(t)
        PROVE  UNCHANGED <<CallsShown, FramesHeld>>
    <2>1. mapThreads' = MapWithout({t}) /\ trees' = TreesWithout({t}) /\ rec' = rec
      BY <1>4 DEF CloseThread
    <2>2. \A a \in Trees : Live(a)' => trees'[a].activeNode = trees[a].activeNode
      BY <2>1, TreesWithoutType DEF SInv
    <2>3. QED BY <1>4, <2>1, <2>2, NotCallingShowsRoot, DeleteTreesStutters
  <1>5. CASE ReportProcess
    <2>1. PICK S \in SUBSET Threads : S = InactiveThreads
      BY DEF InactiveThreads
    <2>2. mapThreads' = MapWithout(S) /\ rec' = rec
      BY <1>5, <2>1 DEF ReportProcess
    <2>3. \A a \in Trees : Live(a)' => trees'[a].activeNode = trees[a].activeNode
      BY <1>5, ReportProcessEffect DEF SInv
    <2>4. \A t \in S : Top(trees[mapThreads[t]]) = Root
      BY <2>1 DEF InactiveThreads, IsInactive
    <2>5. QED BY <2>2, <2>3, <2>4, DeleteTreesStutters
  <1>6. CASE (\A t \in Threads : ~Calling(t)) /\ CloseProcess
    <2>1. mapThreads' = MapWithout(Threads) /\ trees' = TreesWithout(Threads) /\ rec' = rec
      BY <1>6 DEF CloseProcess
    <2>2. \A a \in Trees : Live(a)' => trees'[a].activeNode = trees[a].activeNode
      BY <2>1, TreesWithoutType DEF SInv
    <2>3. QED BY <1>6, <2>1, <2>2, NotCallingShowsRoot, DeleteTreesStutters
  <1>7. CASE UNCHANGED vars
    BY <1>7 DEF vars, CallsShown, FramesHeld, HasTree
  <1>8. QED BY <1>1, <1>2, <1>3, <1>4, <1>5, <1>6, <1>7 DEF ScopedNext

\* Under scoped use the library implements CallProfile: it shows for each
\* thread the path of its open calls, charges each measurement to the path on
\* which its call was made, and only a call or its return moves either.
THEOREM ProfileKept == ScopedSpec => ProfileSpec
  <1>1. Init => Profile!Init
    BY DEF Init, Profile!Init, CallsShown, FramesHeld, HasTree, Closed, NoFrame
  <1>2. SInv /\ [ScopedNext]_vars => [Profile!Next]_(<<CallsShown, FramesHeld>>)
    BY ScopedNextImplements
  <1>3. QED
    BY SInvIsInvariant, <1>1, <1>2, PTL
    DEF ScopedSpec, ProfileSpec, Profile!Spec, Profile!profile
==============================================================================
