---------------------------- MODULE InProcProofs ----------------------------
(***************************************************************************)
(* The inductive invariant of InProc, preserved by every use of the        *)
(* interface, and what follows from it.                                    *)
(***************************************************************************)
EXTENDS InProc, PerfTreeProofs

IInv == TypeOK /\ TableConsistent /\ StackIsCallPath /\ OpenRecordsOnStack

-----------------------------------------------------------------------------
(* The thread map *)

\* A live tree is the tree of a thread, and its stack is a call path.
LEMMA LiveTree ==
  ASSUME IInv, NEW a \in Trees
  PROVE  /\ Live(a) => IsCallPath(trees[a].activeNode)
         /\ ~Live(a) => trees[a] = EmptyTree
         /\ trees[a] \in Tree
         /\ a # Null
  BY NullAssumption
  DEF IInv, TypeOK, TableConsistent, StackIsCallPath, Live, HasTree

\* The tree that an operation of thread t gets is its own or a new one.
LEMMA GetOrNewTreeType ==
  ASSUME IInv, NEW t \in Threads, NEW a \in GetOrNewTree(t)
  PROVE  /\ a \in Trees
         /\ mapThreads[t] \in {a, Null}
         /\ mapThreads[t] = Null => /\ ~Live(a)
                                    /\ \A r \in Records : rec[r].tree # a
         /\ mapThreads[t] = a => Live(a)
         /\ trees[a].activeNode = <<>> \/ IsCallPath(trees[a].activeNode)
  <1>1. a \in Trees /\ mapThreads[t] \in {a, Null}
    BY DEF GetOrNewTree, FreshTrees, IInv, TypeOK
  <1>2. mapThreads[t] = Null => ~Live(a) /\ \A r \in Records : rec[r].tree # a
    BY DEF GetOrNewTree, FreshTrees
  <1>3. mapThreads[t] = a => Live(a)
    BY DEF Live
  <1>4. trees[a].activeNode = <<>> \/ IsCallPath(trees[a].activeNode)
    BY <1>1, LiveTree DEF EmptyTree
  <1>5. QED BY <1>1, <1>2, <1>3, <1>4

-----------------------------------------------------------------------------
(* PerfRecord::PerfRecord *)

\* What the constructor does: `old' is the stack it finds, the root alone in
\* a new tree, and the new node goes on top of it, which makes it `grown'.
Opened(r, t, name, a, grown, old) ==
  /\ ~IsOpen(r)
  /\ old = IF trees[a].activeNode = <<>> THEN <<Root>> ELSE trees[a].activeNode
  /\ Live(a) => old = trees[a].activeNode
  /\ Len(old) >= 1
  /\ IsCallPath(grown.activeNode)
  /\ Len(grown.activeNode) = Len(old) + 1
  /\ \A i \in 1..Len(old) : grown.activeNode[i] = old[i]
  /\ Top(grown) = AddChild(old[Len(old)], name)
  /\ mapThreads' = [mapThreads EXCEPT ![t] = a]
  /\ trees' = [trees EXCEPT ![a] = grown]
  /\ rec' = [rec EXCEPT ![r] = [thread |-> t, tree |-> a, node |-> Top(grown)]]
  /\ processFound' = TRUE
  /\ fault' = fault

\* What the constructor of a record changes: one tree, one thread, one record.
LEMMA OpenRecordEffect ==
  ASSUME IInv, NEW r \in Records, NEW t \in Threads, NEW name \in Names,
         OpenRecord(r, t, name)
  PROVE  \E a \in GetOrNewTree(t), grown \in Tree, old \in Seq(Node) :
           Opened(r, t, name, a, grown, old)
  <1>1. PICK a \in GetOrNewTree(t) :
          /\ mapThreads' = [mapThreads EXCEPT ![t] = a]
          /\ trees' = [trees EXCEPT ![a] = AddNode(trees[a], name)]
          /\ rec' = [rec EXCEPT ![r] = [thread |-> t, tree |-> a,
                                        node |-> Top(AddNode(trees[a], name))]]
    BY DEF OpenRecord
  <1>2. PICK grown : grown = AddNode(trees[a], name)
    OBVIOUS
  <1>3. PICK old : old = IF trees[a].activeNode = <<>> THEN <<Root>> ELSE trees[a].activeNode
    OBVIOUS
  <1>4. /\ a \in Trees /\ trees[a] \in Tree
        /\ trees[a].activeNode = <<>> \/ IsCallPath(trees[a].activeNode)
    BY GetOrNewTreeType, LiveTree
  <1>5. old \in Seq(Node)
    <2>1. <<Root>> \in Seq(Node) BY DEF Root, Node
    <2>2. QED BY <1>3, <1>4, <2>1 DEF Tree
  <1>6. /\ grown \in Tree
        /\ IsCallPath(grown.activeNode)
        /\ grown.activeNode = Append(old, AddChild(old[Len(old)], name))
        /\ Len(grown.activeNode) = Len(old) + 1
        /\ \A i \in 1..Len(old) : grown.activeNode[i] = old[i]
    BY <1>2, <1>3, <1>4, AddNodeGrows
  <1>7. Top(grown) = AddChild(old[Len(old)], name)
    BY <1>5, <1>6 DEF Top
  <1>8. Live(a) => old = trees[a].activeNode
    <2>1. Live(a) => Len(trees[a].activeNode) >= 1
      BY <1>4, LiveTree DEF IsCallPath
    <2>2. QED BY <1>3, <2>1
  <1>9. processFound' = TRUE /\ fault' = fault /\ ~IsOpen(r)
    BY DEF OpenRecord
  <1>10. Len(old) >= 1
    BY <1>3, <1>4 DEF IsCallPath
  <1>11. QED BY <1>1, <1>2, <1>3, <1>5, <1>6, <1>7, <1>8, <1>9, <1>10 DEF Opened

\* PerfRecord::PerfRecord keeps the invariant.
LEMMA OpenRecordKeepsIInv ==
  ASSUME IInv, NEW r \in Records, NEW t \in Threads, NEW name \in Names,
         OpenRecord(r, t, name)
  PROVE  IInv'
  <1>1. PICK a \in GetOrNewTree(t), grown \in Tree, old \in Seq(Node) :
          Opened(r, t, name, a, grown, old)
    BY OpenRecordEffect
  <1> USE DEF Opened
  <1>2. /\ a \in Trees /\ mapThreads[t] \in {a, Null} /\ a # Null
        /\ mapThreads[t] = Null => ~Live(a) /\ \A q \in Records : rec[q].tree # a
        /\ mapThreads[t] = a => Live(a)
    BY GetOrNewTreeType, LiveTree
  <1>3. /\ Len(old) \in Nat
        /\ Top(grown) \in Node /\ Len(Top(grown)) = Len(old)
        /\ grown.activeNode[Len(old) + 1] = Top(grown)
    BY <1>1, TopOfCallPath DEF Top
  <1>4. TypeOK'
    <2>1. mapThreads' \in [Threads -> Trees \cup {Null}] /\ trees' \in [Trees -> Tree]
      BY <1>1, <1>2 DEF IInv, TypeOK
    <2>2. [thread |-> t, tree |-> a, node |-> Top(grown)]
            \in [thread : Threads, tree : Trees, node : Node \ {Root}]
      <3>1. Len(Top(grown)) >= 1 BY <1>1, <1>3
      <3>2. Top(grown) # Root BY <3>1 DEF Root
      <3>3. QED BY <1>2, <1>3, <3>2
    <2>3. rec' \in [Records -> [thread : Threads, tree : Trees, node : Node \ {Root}] \cup {Closed}]
      BY <1>1, <2>2 DEF IInv, TypeOK
    <2>4. QED BY <1>1, <2>1, <2>3 DEF IInv, TypeOK
  <1>5. \A b \in Trees : Live(b)' <=> Live(b) \/ b = a
    <2>1. mapThreads'[t] = a /\ \A u \in Threads : u # t => mapThreads'[u] = mapThreads[u]
      BY <1>1 DEF IInv, TypeOK
    <2>2. QED BY <1>2, <2>1, NullAssumption DEF Live
  <1>6. TableConsistent'
    <2>1. ASSUME NEW s \in Threads, NEW u \in Threads,
                 HasTree(s)', mapThreads'[s] = mapThreads'[u]
          PROVE  s = u
      BY <1>1, <1>2, <2>1 DEF IInv, TypeOK, TableConsistent, HasTree, Live
    <2>2. ASSUME NEW b \in Trees PROVE Live(b)' \/ trees'[b] = EmptyTree
      BY <1>1, <1>5, LiveTree DEF IInv, TypeOK
    <2>3. QED BY <1>1, <2>1, <2>2 DEF TableConsistent
  <1>7. StackIsCallPath'
    BY <1>1, <1>2 DEF IInv, TypeOK, StackIsCallPath, HasTree
  <1>8. ASSUME NEW q \in Records, q # r, Attached(q)'
        PROVE  /\ Attached(q) /\ rec'[q] = rec[q]
               /\ mapThreads'[rec[q].thread] = rec[q].tree
               /\ IsOnStack(rec[q].node, trees'[rec[q].tree])
               /\ rec[q].tree = a => Len(rec[q].node) < Len(old)
    <2>1. rec'[q] = rec[q] /\ rec[q].tree # Null
      BY <1>1, <1>8, NullAssumption DEF IInv, TypeOK, Attached, Live, IsOpen, Closed
    <2>2. Attached(q) /\ rec[q].tree \in Trees /\ rec[q].thread \in Threads
          /\ rec[q].node \in Node
      BY <1>2, <1>5, <1>8, <2>1 DEF IInv, TypeOK, Attached, IsOpen
    <2>3. /\ mapThreads[rec[q].thread] = rec[q].tree
          /\ IsOnStack(rec[q].node, trees[rec[q].tree])
      BY <2>2 DEF IInv, OpenRecordsOnStack
    <2>4. mapThreads'[rec[q].thread] = rec[q].tree
      BY <1>1, <1>2, <2>1, <2>2, <2>3 DEF IInv, TypeOK
    <2>5. CASE rec[q].tree = a
      <3>1. Live(a) /\ old = trees[a].activeNode /\ trees'[a] = grown
        BY <1>1, <1>2, <2>2, <2>5 DEF Attached, IInv, TypeOK
      <3>2. Len(rec[q].node) \in 1..Len(old) - 1 /\ old[Len(rec[q].node) + 1] = rec[q].node
        BY <2>3, <2>5, <3>1 DEF IsOnStack
      <3>3. Len(rec[q].node) + 1 \in 1..Len(old)
        BY <1>3, <3>2
      <3>4. /\ Len(rec[q].node) \in 1..Len(grown.activeNode) - 1
            /\ grown.activeNode[Len(rec[q].node) + 1] = rec[q].node
        BY <1>1, <1>3, <3>2, <3>3
      <3>5. QED BY <1>3, <2>1, <2>2, <2>4, <2>5, <3>1, <3>2, <3>4 DEF IsOnStack
    <2>6. CASE rec[q].tree # a
      BY <1>1, <2>1, <2>2, <2>3, <2>4, <2>6 DEF IInv, TypeOK
    <2>7. QED BY <2>5, <2>6
  <1>9. /\ rec'[r] = [thread |-> t, tree |-> a, node |-> Top(grown)]
        /\ mapThreads'[t] = a /\ trees'[a] = grown
        /\ IsOnStack(Top(grown), grown)
    <2>1. Len(Top(grown)) \in 1..Len(grown.activeNode) - 1
      BY <1>1, <1>3
    <2>2. QED BY <1>1, <1>2, <1>3, <2>1 DEF IInv, TypeOK, IsOnStack
  <1>10. OpenRecordsOnStack'
    <2>1. ASSUME NEW q \in Records, Attached(q)'
          PROVE  /\ mapThreads'[rec'[q].thread] = rec'[q].tree
                 /\ IsOnStack(rec'[q].node, trees'[rec'[q].tree])
      BY <1>8, <1>9, <2>1
    <2>2. ASSUME NEW p \in Records, NEW q \in Records,
                 Attached(p)', Attached(q)', rec'[p] = rec'[q]
          PROVE  p = q
      <3>1. CASE p # r /\ q # r
        BY <1>8, <2>2, <3>1 DEF IInv, OpenRecordsOnStack
      <3>2. CASE p = r /\ q # r
        BY <1>3, <1>8, <1>9, <2>2, <3>2
      <3>3. CASE p # r /\ q = r
        BY <1>3, <1>8, <1>9, <2>2, <3>3
      <3>4. QED BY <3>1, <3>2, <3>3
    <2>3. QED BY <2>1, <2>2 DEF OpenRecordsOnStack, Attached, Live, IsOpen, IsOnStack
  <1>11. QED BY <1>4, <1>6, <1>7, <1>10 DEF IInv

-----------------------------------------------------------------------------
(* PerfRecord::~PerfRecord *)

\* PerfRecord::~PerfRecord keeps the invariant.
LEMMA CloseRecordKeepsIInv ==
  ASSUME IInv, NEW r \in Records, CloseRecord(r)
  PROVE  IInv'
  <1>1. PICK a, n : a = rec[r].tree /\ n = rec[r].node
    OBVIOUS
  <1>2. Attached(r) /\ IsOpen(r) /\ Live(a)
    BY <1>1 DEF CloseRecord, Attached
  <1>3. /\ rec[r].thread \in Threads /\ a \in Trees /\ n \in Node
        /\ mapThreads[rec[r].thread] = a
        /\ IsOnStack(n, trees[a])
    BY <1>1, <1>2 DEF IInv, TypeOK, IsOpen, OpenRecordsOnStack
  <1>4. PICK tree, stack : tree = trees[a] /\ stack = tree.activeNode
    OBVIOUS
  <1>5. /\ tree \in Tree /\ stack \in Seq(Node) /\ IsCallPath(stack) /\ Len(stack) \in Nat
        /\ Len(n) \in 1..Len(stack) - 1 /\ stack[Len(n) + 1] = n /\ n # Root
    BY <1>2, <1>3, <1>4, LiveTree, LastOfSeq DEF IsOnStack, Root, IsCallPath, Tree
  <1>6. PICK closed : closed = CloseNode(IncrementData(tree, n), n)
    OBVIOUS
  <1>7. /\ closed \in Tree
        /\ IsCallPath(closed.activeNode)
        /\ Len(closed.activeNode) = IF Top(tree) = n THEN Len(stack) - 1 ELSE Len(stack)
        /\ \A i \in 1..Len(closed.activeNode) : closed.activeNode[i] = stack[i]
    <2>1. tree \in Tree /\ n \in Node /\ IsCallPath(tree.activeNode) /\ n # Root
      BY <1>3, <1>4, <1>5
    <2>2. QED BY <2>1, <1>4, <1>6, CloseNodeShrinks
  <1>8. /\ trees' = [trees EXCEPT ![a] = closed]
        /\ rec' = [rec EXCEPT ![r] = Closed]
        /\ UNCHANGED <<processFound, mapThreads, fault>>
    BY <1>1, <1>4, <1>6 DEF CloseRecord
  <1>9. \A b \in Trees : Live(b)' <=> Live(b)
    BY <1>8 DEF Live
  <1>10. TypeOK'
    <2>1. trees' \in [Trees -> Tree]
      BY <1>3, <1>7, <1>8 DEF IInv, TypeOK
    <2>2. rec' \in [Records -> [thread : Threads, tree : Trees, node : Node \ {Root}] \cup {Closed}]
      BY <1>8 DEF IInv, TypeOK
    <2>3. QED BY <1>8, <2>1, <2>2 DEF IInv, TypeOK
  <1>11. TableConsistent'
    BY <1>2, <1>8, <1>9, LiveTree DEF IInv, TypeOK, TableConsistent, HasTree
  <1>12. StackIsCallPath'
    BY <1>7, <1>8 DEF IInv, TypeOK, StackIsCallPath, HasTree
  <1>13. ASSUME NEW q \in Records, Attached(q)'
         PROVE  /\ q # r /\ Attached(q) /\ rec'[q] = rec[q]
                /\ mapThreads[rec[q].thread] = rec[q].tree
                /\ IsOnStack(rec[q].node, trees'[rec[q].tree])
    <2>1. q # r /\ rec'[q] = rec[q] /\ Attached(q)
      BY <1>8, <1>13 DEF IInv, TypeOK, Attached, IsOpen, Live
    <2>2. /\ rec[q] \in [thread : Threads, tree : Trees, node : Node \ {Root}]
          /\ rec[r] \in [thread : Threads, tree : Trees, node : Node \ {Root}]
          /\ mapThreads[rec[q].thread] = rec[q].tree
          /\ IsOnStack(rec[q].node, trees[rec[q].tree])
      BY <1>2, <2>1 DEF IInv, TypeOK, OpenRecordsOnStack, Attached, IsOpen
    <2>3. CASE rec[q].tree # a
      BY <1>8, <2>1, <2>2, <2>3 DEF IInv, TypeOK
    <2>4. CASE rec[q].tree = a
      <3>1. /\ Len(rec[q].node) \in 1..Len(stack) - 1
            /\ stack[Len(rec[q].node) + 1] = rec[q].node
        BY <1>4, <2>2, <2>4 DEF IsOnStack
      <3>2. Top(tree) = n => Len(rec[q].node) + 1 # Len(stack)
        <4>1. SUFFICES ASSUME Top(tree) = n, Len(rec[q].node) + 1 = Len(stack)
                       PROVE  FALSE
          OBVIOUS
        <4>2. rec[q].node = n
          BY <1>4, <3>1, <4>1 DEF Top
        <4>3. rec[q].thread = rec[r].thread
          <5>1. HasTree(rec[q].thread)
            BY <1>2, <1>3, <2>2, <2>4, LiveTree DEF HasTree
          <5>2. QED BY <1>3, <2>2, <2>4, <5>1 DEF IInv, TableConsistent
        <4>4. rec[q] = rec[r]
          BY <1>1, <2>2, <2>4, <4>2, <4>3
        <4>5. QED BY <1>2, <2>1, <4>4 DEF IInv, OpenRecordsOnStack
      <3>3. /\ Len(rec[q].node) \in 1..Len(closed.activeNode) - 1
            /\ Len(rec[q].node) + 1 \in 1..Len(closed.activeNode)
        BY <1>5, <1>7, <3>1, <3>2
      <3>4. trees'[a] = closed /\ closed.activeNode[Len(rec[q].node) + 1] = rec[q].node
        BY <1>3, <1>7, <1>8, <3>1, <3>3 DEF IInv, TypeOK
      <3>5. QED BY <2>1, <2>2, <2>4, <3>3, <3>4 DEF IsOnStack
    <2>5. QED BY <2>3, <2>4
  <1>14. OpenRecordsOnStack'
    <2>1. ASSUME NEW q \in Records, Attached(q)'
          PROVE  /\ mapThreads'[rec'[q].thread] = rec'[q].tree
                 /\ IsOnStack(rec'[q].node, trees'[rec'[q].tree])
      BY <1>8, <1>13, <2>1
    <2>2. ASSUME NEW p \in Records, NEW q \in Records,
                 Attached(p)', Attached(q)', rec'[p] = rec'[q]
          PROVE  p = q
      BY <1>13, <2>2 DEF IInv, OpenRecordsOnStack
    <2>3. QED BY <2>1, <2>2 DEF OpenRecordsOnStack, Attached, Live, IsOpen, IsOnStack
  <1>15. QED BY <1>10, <1>11, <1>12, <1>14 DEF IInv

-----------------------------------------------------------------------------
(* Reports and closes *)

\* Deleting the trees of some threads, and reporting others, moves no node
\* of a tree that stays.
LEMMA DeleteTreesKeepsIInv ==
  ASSUME IInv, NEW S \in SUBSET Threads,
         mapThreads' = MapWithout(S),
         trees' \in [Trees -> Tree],
         \A a \in Trees : IF Live(a)' THEN trees'[a].activeNode = trees[a].activeNode
                                      ELSE trees'[a] = EmptyTree,
         processFound' \in BOOLEAN,
         ~processFound' => ~processFound \/ S = Threads,
         rec' = rec, fault' \in {NoFault, NullProcess, FreedNode}
  PROVE  IInv'
  <1>1. \A t \in Threads : mapThreads'[t] = IF t \in S THEN Null ELSE mapThreads[t]
    BY DEF MapWithout
  <1>2. mapThreads' \in [Threads -> Trees \cup {Null}]
    BY DEF MapWithout, IInv, TypeOK
  <1>3. TypeOK'
    BY <1>2 DEF IInv, TypeOK
  <1>4. \A a \in Trees : Live(a)' => Live(a)
    BY <1>1, NullAssumption DEF Live
  <1>5. TableConsistent'
    <2>1. ASSUME NEW s \in Threads, NEW t \in Threads,
                 HasTree(s)', mapThreads'[s] = mapThreads'[t]
          PROVE  s = t
      BY <1>1, <2>1 DEF IInv, TableConsistent, HasTree
    <2>2. ASSUME ~processFound', NEW t \in Threads PROVE ~HasTree(t)'
      BY <1>1, <2>2 DEF IInv, TableConsistent, HasTree
    <2>3. QED BY <2>1, <2>2 DEF TableConsistent, Live
  <1>6. StackIsCallPath'
    <2>1. ASSUME NEW t \in Threads, HasTree(t)'
          PROVE  IsCallPath(trees'[mapThreads'[t]].activeNode)
      <3>1. HasTree(t) /\ mapThreads'[t] = mapThreads[t] /\ mapThreads[t] \in Trees
        BY <1>1, <2>1 DEF HasTree, IInv, TypeOK
      <3>2. Live(mapThreads[t])'
        BY <3>1 DEF Live
      <3>3. trees'[mapThreads[t]].activeNode = trees[mapThreads[t]].activeNode
        BY <3>1, <3>2
      <3>4. QED BY <3>1, <3>3 DEF IInv, StackIsCallPath
    <2>2. QED BY <2>1 DEF StackIsCallPath, HasTree
  <1>7. OpenRecordsOnStack'
    <2>1. ASSUME NEW q \in Records, Attached(q)'
          PROVE  /\ Attached(q)
                 /\ mapThreads'[rec[q].thread] = rec[q].tree
                 /\ IsOnStack(rec[q].node, trees'[rec[q].tree])
      <3>1. /\ IsOpen(q) /\ Live(rec[q].tree)'
            /\ rec[q] \in [thread : Threads, tree : Trees, node : Node \ {Root}]
        BY <2>1 DEF Attached, IsOpen, Live, IInv, TypeOK
      <3>2. Attached(q)
        BY <1>4, <3>1 DEF Attached
      <3>3. /\ mapThreads[rec[q].thread] = rec[q].tree
            /\ IsOnStack(rec[q].node, trees[rec[q].tree])
        BY <3>2 DEF IInv, OpenRecordsOnStack
      <3>4. PICK t \in Threads : mapThreads'[t] = rec[q].tree
        BY <3>1 DEF Live
      <3>5. t = rec[q].thread
        BY <1>1, <3>1, <3>3, <3>4, NullAssumption DEF IInv, TableConsistent, HasTree
      <3>6. trees'[rec[q].tree].activeNode = trees[rec[q].tree].activeNode
        BY <3>1
      <3>7. QED BY <3>2, <3>3, <3>4, <3>5, <3>6 DEF IsOnStack
    <2>2. QED BY <2>1 DEF OpenRecordsOnStack, IInv, Attached, Live, IsOpen, IsOnStack
  <1>8. QED BY <1>3, <1>5, <1>6, <1>7 DEF IInv

\* A report of the process takes the inactive threads out of the table and
\* moves no node of the trees that stay.
LEMMA ReportProcessEffect ==
  ASSUME IInv, ReportProcess, NEW a \in Trees
  PROVE  /\ trees'[a] \in Tree
         /\ IF Live(a)' THEN trees'[a].activeNode = trees[a].activeNode
                        ELSE trees'[a] = EmptyTree
  <1>1. PICK S \in SUBSET Threads : S = InactiveThreads
    BY DEF InactiveThreads
  <1>2. /\ mapThreads' = MapWithout(S)
        /\ trees' = [b \in Trees |-> IF Live(b) THEN ReportData(TreesWithout(S)[b])
                                                ELSE TreesWithout(S)[b]]
        /\ UNCHANGED <<processFound, rec, fault>>
    BY <1>1 DEF ReportProcess, ReportTrees
  <1>3. ReportData(EmptyTree) = EmptyTree
    BY ReportEmptyTree
  <1>4. Live(a)' <=> \E t \in Threads : t \notin S /\ mapThreads[t] = a
    BY <1>2, LiveTree DEF Live, MapWithout
  <1>5. Live(a)' => Live(a) /\ \A t \in S : mapThreads[t] # a
    BY <1>4, LiveTree DEF Live, IInv, TableConsistent, HasTree
  <1>6. CASE Live(a)'
    <2>1. trees'[a] = ReportData(trees[a])
      BY <1>2, <1>5, <1>6 DEF TreesWithout
    <2>2. QED BY <1>6, <2>1, LiveTree, ReportDataKeepsStack
  <1>7. CASE ~Live(a)'
    <2>1. ~Live(a) \/ \E t \in S : mapThreads[t] = a
      BY <1>4, <1>7 DEF Live
    <2>2. TreesWithout(S)[a] = EmptyTree
      BY <2>1, LiveTree DEF TreesWithout, Live
    <2>3. trees'[a] = EmptyTree
      BY <1>2, <1>3, <2>2
    <2>4. QED BY <1>7, <2>3, EmptyTreeType
  <1>8. QED BY <1>6, <1>7

\* RDKPerf_ReportProcess keeps the invariant.
LEMMA ReportProcessKeepsIInv ==
  ASSUME IInv, ReportProcess
  PROVE  IInv'
  <1>1. PICK S \in SUBSET Threads : S = InactiveThreads
    BY DEF InactiveThreads
  <1>2. /\ mapThreads' = MapWithout(S)
        /\ trees' = [a \in Trees |-> IF Live(a) THEN ReportData(TreesWithout(S)[a])
                                                ELSE TreesWithout(S)[a]]
        /\ UNCHANGED <<processFound, rec, fault>>
    BY <1>1 DEF ReportProcess, ReportTrees
  <1>3. trees' \in [Trees -> Tree]
    BY <1>2, ReportProcessEffect
  <1>4. processFound' \in BOOLEAN /\ fault' \in {NoFault, NullProcess, FreedNode}
    BY <1>2 DEF IInv, TypeOK
  <1>5. QED BY <1>2, <1>3, <1>4, ReportProcessEffect, DeleteTreesKeepsIInv

\* RDKPerf_ReportThread keeps the invariant.
LEMMA ReportThreadKeepsIInv ==
  ASSUME IInv, NEW t \in Threads, ReportThread(t)
  PROVE  IInv'
  <1>1. mapThreads' = MapWithout({})
    BY DEF ReportThread, MapWithout, IInv, TypeOK
  <1>2. \A a \in Trees : Live(a)' <=> Live(a)
    BY DEF ReportThread, Live
  <1>3. ASSUME NEW a \in Trees
        PROVE  trees'[a] \in Tree /\ trees'[a].activeNode = trees[a].activeNode
    BY LiveTree, ReportDataKeepsStack DEF ReportThread, IInv, TypeOK
  <1>4. ASSUME NEW a \in Trees, ~Live(a)' PROVE trees'[a] = EmptyTree
    BY <1>2, <1>4, LiveTree DEF ReportThread, Live, IInv, TypeOK
  <1>5. trees' \in [Trees -> Tree]
    <2>1. trees' = trees \/ trees' = [trees EXCEPT ![mapThreads[t]] = ReportData(@)]
      BY DEF ReportThread
    <2>2. \E f : trees' = [a \in Trees |-> f[a]]
      BY <2>1 DEF IInv, TypeOK
    <2>3. QED BY <1>3, <2>2
  <1>6. /\ processFound' = processFound /\ rec' = rec
        /\ processFound' \in BOOLEAN /\ fault' \in {NoFault, NullProcess, FreedNode}
    BY DEF ReportThread, IInv, TypeOK
  <1>7. QED BY <1>1, <1>3, <1>4, <1>5, <1>6, DeleteTreesKeepsIInv

\* The trees of the threads in S are deleted and the others left alone.
LEMMA TreesWithoutType ==
  ASSUME IInv, NEW S \in SUBSET Threads,
         mapThreads' = MapWithout(S), trees' = TreesWithout(S)
  PROVE  /\ trees' \in [Trees -> Tree]
         /\ \A a \in Trees : IF Live(a)' THEN trees'[a].activeNode = trees[a].activeNode
                                         ELSE trees'[a] = EmptyTree
  <1>1. ASSUME NEW a \in Trees
        PROVE  IF Live(a)' THEN trees'[a] = trees[a] ELSE trees'[a] = EmptyTree
    <2>1. Live(a)' <=> \E t \in Threads : t \notin S /\ mapThreads[t] = a
      BY LiveTree DEF Live, MapWithout
    <2>2. CASE Live(a)'
      BY <2>1, <2>2, LiveTree DEF IInv, TableConsistent, HasTree, TreesWithout
    <2>3. CASE ~Live(a)'
      BY <2>1, <2>3, LiveTree DEF TreesWithout, Live
    <2>4. QED BY <2>2, <2>3
  <1>2. QED BY <1>1, EmptyTreeType DEF TreesWithout, IInv, TypeOK

\* RDKPerf_CloseThread keeps the invariant.
LEMMA CloseThreadKeepsIInv ==
  ASSUME IInv, NEW t \in Threads, CloseThread(t)
  PROVE  IInv'
  <1>1. {t} \in SUBSET Threads
    OBVIOUS
  <1>2. mapThreads' = MapWithout({t}) /\ trees' = TreesWithout({t})
        /\ UNCHANGED <<processFound, rec, fault>>
    BY DEF CloseThread
  <1>3. processFound' \in BOOLEAN /\ fault' \in {NoFault, NullProcess, FreedNode}
    BY <1>2 DEF IInv, TypeOK
  <1>4. QED BY <1>1, <1>2, <1>3, TreesWithoutType, DeleteTreesKeepsIInv

\* RDKPerf_CloseProcess keeps the invariant.
LEMMA CloseProcessKeepsIInv ==
  ASSUME IInv, CloseProcess
  PROVE  IInv'
  <1>1. mapThreads' = MapWithout(Threads) /\ trees' = TreesWithout(Threads)
        /\ processFound' = FALSE /\ UNCHANGED <<rec, fault>>
    BY DEF CloseProcess
  <1>2. fault' \in {NoFault, NullProcess, FreedNode}
    BY <1>1 DEF IInv, TypeOK
  <1>3. QED BY <1>1, <1>2, TreesWithoutType, DeleteTreesKeepsIInv

\* Undefined behaviour and stuttering move nothing.
LEMMA UnmovedKeepsIInv ==
  ASSUME IInv, UNCHANGED <<processFound, mapThreads, trees, rec>>,
         fault' \in {NoFault, NullProcess, FreedNode}
  PROVE  IInv'
  <1>1. TypeOK'
    BY DEF IInv, TypeOK
  <1>2. TableConsistent' /\ StackIsCallPath' /\ OpenRecordsOnStack'
    BY DEF IInv, TableConsistent, StackIsCallPath, OpenRecordsOnStack, HasTree, Live,
           Attached, IsOpen, IsOnStack
  <1>3. QED BY <1>1, <1>2 DEF IInv

-----------------------------------------------------------------------------
(* Theorems *)

\* The empty process map satisfies the invariant.
LEMMA InitIInv == Init => IInv
  <1>1. SUFFICES ASSUME Init PROVE IInv
    OBVIOUS
  <1>2. TypeOK
    BY <1>1, EmptyTreeType DEF Init, TypeOK, NoFault
  <1>3. \A t \in Threads : ~HasTree(t)
    BY <1>1 DEF Init, HasTree
  <1>4. TableConsistent /\ StackIsCallPath /\ OpenRecordsOnStack
    BY <1>1, <1>3 DEF Init, TableConsistent, StackIsCallPath, OpenRecordsOnStack, Attached, IsOpen
  <1>5. QED BY <1>2, <1>4 DEF IInv

\* The invariant is inductive for every use of the interface.
LEMMA NextIInv ==
  ASSUME IInv, [Next]_vars
  PROVE  IInv'
  <1>1. ASSUME NEW r \in Records, NEW t \in Threads, NEW name \in Names,
               OpenRecord(r, t, name)
        PROVE  IInv'
    BY <1>1, OpenRecordKeepsIInv
  <1>2. ASSUME NEW r \in Records, DestroyRecord(r) PROVE IInv'
    <2>1. CASE CloseRecord(r)
      BY <2>1, CloseRecordKeepsIInv
    <2>2. CASE CloseDanglingRecord(r)
      BY <2>2, UnmovedKeepsIInv DEF CloseDanglingRecord
    <2>3. QED BY <1>2, <2>1, <2>2 DEF DestroyRecord
  <1>3. ASSUME NEW t \in Threads, ReportThread(t) \/ CloseThread(t) PROVE IInv'
    BY <1>3, ReportThreadKeepsIInv, CloseThreadKeepsIInv
  <1>4. CASE ReportProcess
    BY <1>4, ReportProcessKeepsIInv
  <1>5. CASE CloseProcess
    BY <1>5, CloseProcessKeepsIInv
  <1>6. CASE UNCHANGED vars
    BY <1>6, UnmovedKeepsIInv DEF vars, IInv, TypeOK
  <1>7. QED BY <1>1, <1>2, <1>3, <1>4, <1>5, <1>6 DEF Next

\* The inductive invariant holds throughout, whatever the callers do.
THEOREM IInvIsInvariant == Spec => []IInv
  <1>1. IInv /\ [Next]_vars => IInv'
    BY NextIInv
  <1>2. QED BY InitIInv, <1>1, PTL DEF Spec

\* Type correctness of the library's state, for any number of threads,
\* records, trees and names and any order of calls.
THEOREM TypeCorrect == Spec => []TypeOK
  <1>1. IInv => TypeOK BY DEF IInv
  <1>2. QED BY <1>1, IInvIsInvariant, PTL

\* The thread map of PerfProcess stays consistent with the trees and the
\* process map (NewTree, RemoveTree, CloseInactiveThreads, ~PerfProcess).
THEOREM TableStaysConsistent == Spec => []TableConsistent
  <1>1. IInv => TableConsistent BY DEF IInv
  <1>2. QED BY <1>1, IInvIsInvariant, PTL

\* The stack of every tree in the map is a non-empty call path, in whatever
\* order its records are closed (PerfTree::AddNode, CloseActiveNode).
THEOREM StackStaysCallPath == Spec => []StackIsCallPath
  <1>1. IInv => StackIsCallPath BY DEF IInv
  <1>2. QED BY <1>1, IInvIsInvariant, PTL

\* Each open record of an existing tree has a stack entry of its own, so that
\* ~PerfRecord closes the node that its constructor opened.
THEOREM OpenRecordsStayOnStack == Spec => []OpenRecordsOnStack
  <1>1. IInv => OpenRecordsOnStack BY DEF IInv
  <1>2. QED BY <1>1, IInvIsInvariant, PTL

\* A tree with an attached record is not inactive: the record's node is above
\* the root on its stack.
LEMMA AttachedIsActive ==
  ASSUME IInv, NEW r \in Records, Attached(r)
  PROVE  ~IsInactive(trees[rec[r].tree])
  <1>1. PICK tree : tree = trees[rec[r].tree]
    OBVIOUS
  <1>2. tree \in Tree /\ IsCallPath(tree.activeNode)
    BY <1>1, LiveTree DEF IInv, TypeOK, Attached, IsOpen
  <1>3. Len(rec[r].node) \in 1..Len(tree.activeNode) - 1
    BY <1>1 DEF IInv, OpenRecordsOnStack, IsOnStack
  <1>4. Len(Top(tree)) = Len(tree.activeNode) - 1 /\ Len(tree.activeNode) \in Nat
    BY <1>2, TopOfCallPath
  <1>5. Len(Top(tree)) >= 1
    BY <1>3, <1>4
  <1>6. Top(tree) # Root
    BY <1>5 DEF Root
  <1>7. QED BY <1>1, <1>6 DEF IsInactive

\* No report deletes a node that an open record points to: only CloseThread
\* and CloseProcess do (PerfTree::IsInactive, CloseInactiveThreads).
THEOREM ReportsKeepOpenNodes == Spec => OnlyCloseFrees
  <1>1. ASSUME IInv, [Next]_vars, NEW r \in Records,
               Attached(r), rec'[r] = rec[r], ~Attached(r)'
        PROVE  CloseProcess \/ \E t \in Threads : CloseThread(t)
    <2>1. /\ Live(rec[r].tree) /\ ~Live(rec[r].tree)'
          /\ rec[r].tree \in Trees
      BY <1>1 DEF Attached, IsOpen, IInv, TypeOK, Live
    <2>2. mapThreads' # mapThreads
      BY <1>1, <2>1 DEF Live
    <2>3. ASSUME NEW q \in Records, NEW t \in Threads, NEW name \in Names,
                 OpenRecord(q, t, name)
          PROVE  FALSE
      <3>1. PICK a \in GetOrNewTree(t), grown \in Tree, old \in Seq(Node) :
              Opened(q, t, name, a, grown, old)
        BY <1>1, <2>3, OpenRecordEffect
      <3>2. mapThreads[t] \in {a, Null} /\ mapThreads' = [mapThreads EXCEPT ![t] = a]
        BY <1>1, <3>1, GetOrNewTreeType DEF Opened
      <3>3. QED BY <1>1, <2>1, <3>2, NullAssumption DEF Live, IInv, TypeOK
    <2>4. ASSUME ReportProcess PROVE FALSE
      <3>1. PICK t \in Threads : mapThreads[t] = rec[r].tree
        BY <2>1 DEF Live
      <3>2. t \in InactiveThreads
        BY <2>1, <2>4, <3>1 DEF ReportProcess, ReportTrees, MapWithout, Live
      <3>3. QED BY <1>1, <3>1, <3>2, AttachedIsActive DEF InactiveThreads
    <2>5. QED
      BY <1>1, <2>2, <2>3, <2>4
      DEF Next, DestroyRecord, CloseRecord, CloseDanglingRecord, ReportThread, vars
  <1>2. IInv /\ [Next]_vars
          => [\A r \in Records :
                Attached(r) /\ rec'[r] = rec[r] /\ ~Attached(r)'
                  => CloseProcess \/ \E t \in Threads : CloseThread(t)]_vars
    BY <1>1
  <1>3. QED BY IInvIsInvariant, <1>2, PTL DEF Spec, OnlyCloseFrees
=============================================================================
