--------------------------- MODULE PerfServiceProofs ---------------------------
(***************************************************************************)
(* The inductive invariants of PerfService, under any use of the           *)
(* interface: the state of clients and service is well formed, and the     *)
(* trees follow the calls of each process that has not gone astray.        *)
(***************************************************************************)
EXTENDS PerfService, PerfTreeProofs

\* The values of `service' that the handlers leave behind.
Service == [processes : SUBSET Procs, tree : [Threads -> Tree]]

Consistent(svc) ==
  /\ svc \in Service
  /\ \A t \in Threads : svc.tree[t] # EmptyTree =>
       Pid(t) \in svc.processes /\ IsCallPath(svc.tree[t].activeNode)

\* The messages of a call name it.
OfCall(m) == m.type \in {"eEntry", "eExit", "eThreshold"}
Message == {m \in PerfMessage : OfCall(m) => m.path # Root}

\* The path that the tree of thread t has on top.
Shown(svc, t) == IF svc.tree[t] = EmptyTree THEN Root ELSE Top(svc.tree[t])

-----------------------------------------------------------------------------
(* The handlers *)

\* A thread belongs to a process.
LEMMA PidType ==
  ASSUME NEW t \in Threads
  PROVE  Pid(t) \in Procs
  BY DEF Threads, Pid

\* A call path is not empty.
LEMMA CallPathIsTree ==
  ASSUME NEW tree \in Tree, IsCallPath(tree.activeNode)
  PROVE  tree # EmptyTree /\ tree.activeNode # <<>>
  BY DEF IsCallPath, EmptyTree

\* The name in a message of a call.
LEMMA NameOfCall ==
  ASSUME NEW m \in Message, OfCall(m)
  PROVE  /\ m.path \in Node /\ m.path # Root /\ szName(m) \in Names
         /\ Parent(m.path) \in Node
         /\ m.path = Append(Parent(m.path), szName(m))
         /\ GetName(m.path) = szName(m)
  BY DEF Message, PerfMessage, szName, Node, Root, Parent, GetName

\* What is known of a tree of a consistent service.
LEMMA ServiceTree ==
  ASSUME NEW svc, Consistent(svc), NEW t \in Threads
  PROVE  /\ svc.tree[t] \in Tree
         /\ svc.tree[t] = EmptyTree <=> ~HasTree(svc, t)
         /\ HasTree(svc, t) => IsCallPath(svc.tree[t].activeNode)
         /\ svc.tree[t].activeNode = <<>> \/ IsCallPath(svc.tree[t].activeNode)
         /\ Shown(svc, t) \in Node
  <1>1. /\ svc.tree[t] \in Tree
        /\ svc.tree[t] = EmptyTree <=> ~HasTree(svc, t)
        /\ HasTree(svc, t) => IsCallPath(svc.tree[t].activeNode)
    BY DEF Consistent, Service, HasTree
  <1>2. svc.tree[t].activeNode = <<>> \/ IsCallPath(svc.tree[t].activeNode)
    BY <1>1 DEF EmptyTree
  <1>3. Root \in Node
    BY DEF Root, Node
  <1>4. QED BY <1>1, <1>2, <1>3, TopOfCallPath DEF Shown

\* A handler that replaces the tree of one thread by an empty one or by a call
\* path leaves a consistent service.
LEMMA ReplaceTree ==
  ASSUME NEW svc, Consistent(svc), NEW u \in Threads, NEW tree \in Tree,
         tree = EmptyTree \/ IsCallPath(tree.activeNode),
         NEW procs \in SUBSET Procs, svc.processes \subseteq procs,
         tree # EmptyTree => Pid(u) \in procs
  PROVE  LET new == [processes |-> procs, tree |-> [svc.tree EXCEPT ![u] = tree]]
         IN  /\ Consistent(new)
             /\ new.tree[u] = tree
             /\ \A t \in Threads \ {u} : new.tree[t] = svc.tree[t]
  BY DEF Consistent, Service

\* An entry message puts its call on top.
LEMMA EntryEffect ==
  ASSUME NEW svc, Consistent(svc), NEW m \in Message, m.type = "eEntry"
  PROVE  /\ Consistent(HandleEntry(svc, m))
         /\ Shown(HandleEntry(svc, m), m.from) = Append(Shown(svc, m.from), szName(m))
         /\ \A t \in Threads \ {m.from} : Shown(HandleEntry(svc, m), t) = Shown(svc, t)
  <1>1. PICK u \in Threads : u = m.from
    BY DEF Message, PerfMessage
  <1>2. PICK tree, grown : tree = svc.tree[u] /\ grown = AddNode(tree, szName(m))
    OBVIOUS
  <1>3. PICK under : under = IF tree.activeNode = <<>> THEN <<Root>> ELSE tree.activeNode
    OBVIOUS
  <1>4. tree \in Tree /\ (tree.activeNode = <<>> \/ IsCallPath(tree.activeNode))
        /\ szName(m) \in Names
    BY <1>2, ServiceTree, NameOfCall DEF OfCall
  <1>5. /\ grown \in Tree /\ IsCallPath(grown.activeNode)
        /\ grown.activeNode = Append(under, AddChild(under[Len(under)], szName(m)))
        /\ Len(grown.activeNode) = Len(under) + 1
    BY <1>2, <1>3, <1>4, AddNodeGrows
  <1>6. PICK procs \in SUBSET Procs : procs = svc.processes \cup {Pid(u)}
    BY PidType DEF Consistent, Service
  <1>7. HandleEntry(svc, m) = [processes |-> procs, tree |-> [svc.tree EXCEPT ![u] = grown]]
    BY <1>1, <1>2, <1>6 DEF HandleEntry
  <1>8. /\ Consistent(HandleEntry(svc, m))
        /\ HandleEntry(svc, m).tree[u] = grown
        /\ \A t \in Threads \ {u} : HandleEntry(svc, m).tree[t] = svc.tree[t]
    <2>1. svc.processes \subseteq procs /\ Pid(u) \in procs
      BY <1>6
    <2>2. /\ Consistent([processes |-> procs, tree |-> [svc.tree EXCEPT ![u] = grown]])
          /\ [svc.tree EXCEPT ![u] = grown][u] = grown
          /\ \A t \in Threads \ {u} : [svc.tree EXCEPT ![u] = grown][t] = svc.tree[t]
      BY <1>5, <2>1 DEF Consistent, Service
    <2>3. QED BY <1>7, <2>2
  <1>9. Top(grown) = Append(under[Len(under)], szName(m))
    <2>1. under \in Seq(Node)
      BY <1>3, <1>4 DEF Tree, Root, Node
    <2>2. QED BY <1>5, <2>1 DEF Top, AddChild
  <1>10. under[Len(under)] = Shown(svc, u)
    <2>1. CASE tree.activeNode = <<>>
      BY <1>2, <1>3, <2>1, ServiceTree, CallPathIsTree DEF Shown
    <2>2. CASE tree.activeNode # <<>>
      BY <1>2, <1>3, <2>2 DEF Shown, Top, EmptyTree
    <2>3. QED BY <2>1, <2>2
  <1>11. Shown(HandleEntry(svc, m), u) = Append(Shown(svc, u), szName(m))
    BY <1>5, <1>8, <1>9, <1>10, CallPathIsTree DEF Shown
  <1>12. QED BY <1>1, <1>8, <1>11 DEF Shown

\* An exit message takes a node off the stack of its thread, if any; that of
\* the call when it is on top.
LEMMA ExitEffect ==
  ASSUME NEW svc, Consistent(svc), NEW m \in Message, m.type = "eExit"
  PROVE  /\ Consistent(HandleExit(svc, m))
         /\ Shown(svc, m.from) = m.path => Shown(HandleExit(svc, m), m.from) = Parent(m.path)
         /\ \A t \in Threads \ {m.from} : Shown(HandleExit(svc, m), t) = Shown(svc, t)
  <1>1. PICK u \in Threads : u = m.from
    BY DEF Message, PerfMessage
  <1>2. PICK tree, top, closed : /\ tree = svc.tree[u] /\ top = Top(tree)
                                 /\ closed = CloseNode(IncrementData(tree, top), top)
    OBVIOUS
  <1>3. tree \in Tree /\ (HasTree(svc, u) => IsCallPath(tree.activeNode))
    BY <1>2, ServiceTree
  <1>4. CASE HasTree(svc, u) /\ GetName(top) = szName(m)
    <2>1. IsCallPath(tree.activeNode) /\ top \in Node
      BY <1>2, <1>3, <1>4, TopOfCallPath
    <2>2. CASE top = Root
      <3>1. closed = IncrementData(tree, top)
        BY <1>2, <2>2 DEF CloseNode
      <3>2. closed \in Tree /\ closed.activeNode = tree.activeNode
        BY <1>3, <2>1, <3>1 DEF IncrementData, Tree
      <3>3. Top(closed) = Root
        BY <1>2, <2>2, <3>2 DEF Top
      <3>4. QED
        <4>1. /\ Consistent(HandleExit(svc, m))
              /\ HandleExit(svc, m).tree[u] = closed
              /\ \A t \in Threads \ {u} : HandleExit(svc, m).tree[t] = svc.tree[t]
          <5>1. HandleExit(svc, m)
                  = [processes |-> svc.processes, tree |-> [svc.tree EXCEPT ![u] = closed]]
            BY <1>1, <1>2, <1>4 DEF HandleExit, Consistent, Service
          <5>2. IsCallPath(closed.activeNode) /\ Pid(u) \in svc.processes
                /\ svc.processes \in SUBSET Procs
            BY <1>4, <2>1, <3>2 DEF HasTree, Consistent, Service
          <5>3. QED BY <3>2, <5>1, <5>2, ReplaceTree
        <4>2. Shown(svc, u) = Root /\ m.path # Root
          BY <1>2, <2>1, <2>2, NameOfCall DEF Shown, OfCall
        <4>3. QED BY <1>1, <4>1, <4>2 DEF Shown
    <2>3. CASE top # Root
      <3>1. /\ closed \in Tree /\ IsCallPath(closed.activeNode)
            /\ Len(closed.activeNode) = Len(tree.activeNode) - 1
            /\ \A i \in 1..Len(closed.activeNode) : closed.activeNode[i] = tree.activeNode[i]
        BY <1>2, <1>3, <2>1, <2>3, CloseNodeShrinks
      <3>2. /\ Consistent(HandleExit(svc, m))
            /\ HandleExit(svc, m).tree[u] = closed
            /\ \A t \in Threads \ {u} : HandleExit(svc, m).tree[t] = svc.tree[t]
        <4>1. HandleExit(svc, m)
                = [processes |-> svc.processes, tree |-> [svc.tree EXCEPT ![u] = closed]]
          BY <1>1, <1>2, <1>4 DEF HandleExit, Consistent, Service
        <4>2. Pid(u) \in svc.processes /\ svc.processes \in SUBSET Procs
          BY <1>4 DEF HasTree, Consistent, Service
        <4>3. QED BY <3>1, <4>1, <4>2, ReplaceTree
      <3>3. Top(closed) = Parent(top)
        BY <1>2, <1>3, <2>1, <3>1, TopUnderTop
      <3>4. Shown(svc, u) = top /\ Shown(HandleExit(svc, m), u) = Parent(top)
        BY <1>2, <1>3, <2>1, <3>1, <3>2, <3>3, CallPathIsTree DEF Shown
      <3>5. QED BY <1>1, <3>2, <3>4 DEF Shown
    <2>4. QED BY <2>2, <2>3
  <1>5. CASE ~(HasTree(svc, u) /\ GetName(top) = szName(m))
    <2>1. HandleExit(svc, m) = svc
      BY <1>1, <1>2, <1>5 DEF HandleExit
    <2>2. Shown(svc, u) # m.path
      <3>1. m.path # Root /\ GetName(m.path) = szName(m)
        BY NameOfCall DEF OfCall
      <3>2. QED BY <1>2, <1>5, <3>1, ServiceTree DEF Shown
    <2>3. QED BY <1>1, <2>1, <2>2
  <1>6. QED BY <1>4, <1>5

\* A report moves no node of a tree that stays, and a tree that it deletes has
\* its root on top.
LEMMA ReportedTree ==
  ASSUME NEW svc, Consistent(svc), NEW t \in Threads, HasTree(svc, t)
  PROVE  /\ ReportData(svc.tree[t]) \in Tree
         /\ IsCallPath(ReportData(svc.tree[t]).activeNode)
         /\ ReportData(svc.tree[t]) # EmptyTree
         /\ Top(ReportData(svc.tree[t])) = Shown(svc, t)
         /\ IsInactive(svc.tree[t]) => Shown(svc, t) = Root
  <1>1. PICK tree : tree = svc.tree[t]
    OBVIOUS
  <1>2. tree \in Tree /\ IsCallPath(tree.activeNode)
    BY <1>1, ServiceTree
  <1>3. ReportData(tree) \in Tree /\ ReportData(tree).activeNode = tree.activeNode
    BY <1>2, ReportDataKeepsStack
  <1>4. Shown(svc, t) = Top(tree)
    BY <1>1, <1>2, CallPathIsTree DEF Shown
  <1>5. QED BY <1>1, <1>2, <1>3, <1>4, CallPathIsTree DEF Top, IsInactive

\* The report of a thread shows the path that was shown.
LEMMA ReportThreadEffect ==
  ASSUME NEW svc, Consistent(svc), NEW m \in Message
  PROVE  /\ Consistent(HandleReportThread(svc, m))
         /\ \A t \in Threads : Shown(HandleReportThread(svc, m), t) = Shown(svc, t)
  <1>1. PICK u \in Threads : u = m.from
    BY DEF Message, PerfMessage
  <1>2. CASE HasTree(svc, u)
    <2>1. PICK tree : tree = ReportData(svc.tree[u])
      OBVIOUS
    <2>2. HandleReportThread(svc, m) = [svc EXCEPT !.tree = [svc.tree EXCEPT ![u] = tree]]
      BY <1>1, <1>2, <2>1 DEF HandleReportThread, Consistent, Service
    <2>3. /\ tree \in Tree /\ tree # EmptyTree /\ IsCallPath(tree.activeNode)
          /\ Top(tree) = Shown(svc, u)
      BY <1>2, <2>1, ReportedTree
    <2>4. QED BY <1>2, <2>2, <2>3 DEF Consistent, Service, HasTree, Shown
  <1>3. CASE ~HasTree(svc, u)
    BY <1>1, <1>3 DEF HandleReportThread
  <1>4. QED BY <1>2, <1>3

\* The report of a process shows the path that was shown of each thread, also
\* of one that it closes.
LEMMA ReportProcessEffect ==
  ASSUME NEW svc, Consistent(svc), NEW m \in Message
  PROVE  /\ Consistent(HandleReportProcess(svc, m))
         /\ \A t \in Threads : Shown(HandleReportProcess(svc, m), t) = Shown(svc, t)
  <1>1. PICK new : new = HandleReportProcess(svc, m)
    OBVIOUS
  <1>2. /\ new = [svc EXCEPT !.tree = new.tree]
        /\ DOMAIN new.tree = Threads
        /\ new.tree = [t \in Threads |-> new.tree[t]]
    BY <1>1 DEF HandleReportProcess, Consistent, Service
  <1>3. ASSUME NEW t \in Threads
        PROVE  \/ new.tree[t] = svc.tree[t]
               \/ /\ HasTree(svc, t)
                  /\ new.tree[t] = IF IsInactive(svc.tree[t]) THEN EmptyTree
                                   ELSE ReportData(svc.tree[t])
    BY <1>1 DEF HandleReportProcess, Consistent, Service
  <1>4. ASSUME NEW t \in Threads
        PROVE  /\ new.tree[t] \in Tree
               /\ new.tree[t] # EmptyTree
                    => Pid(t) \in svc.processes /\ IsCallPath(new.tree[t].activeNode)
               /\ Shown(new, t) = Shown(svc, t)
    <2>1. CASE new.tree[t] = svc.tree[t]
      BY <2>1 DEF Consistent, Service, Shown
    <2>2. CASE HasTree(svc, t) /\ IsInactive(svc.tree[t]) /\ new.tree[t] = EmptyTree
      BY <2>2, ReportedTree, EmptyTreeType DEF Shown
    <2>3. CASE HasTree(svc, t) /\ new.tree[t] = ReportData(svc.tree[t])
      BY <2>3, ReportedTree DEF Shown, HasTree
    <2>4. QED BY <1>3, <2>1, <2>2, <2>3
  <1>5. Consistent(new)
    <2>1. new.tree \in [Threads -> Tree]
      BY <1>2, <1>4
    <2>2. new \in Service /\ new.processes = svc.processes
      BY <1>2, <2>1 DEF Consistent, Service
    <2>3. QED BY <1>4, <2>2 DEF Consistent
  <1>6. QED BY <1>1, <1>4, <1>5

\* The close of a thread takes its tree away, and no other.
LEMMA CloseThreadEffect ==
  ASSUME NEW svc, Consistent(svc), NEW m \in Message
  PROVE  /\ Consistent(HandleCloseThread(svc, m))
         /\ Shown(HandleCloseThread(svc, m), m.from) = Root
         /\ \A t \in Threads \ {m.from} : Shown(HandleCloseThread(svc, m), t) = Shown(svc, t)
  <1>1. PICK u \in Threads : u = m.from
    BY DEF Message, PerfMessage
  <1>2. CASE HasTree(svc, u)
    <2>1. HandleCloseThread(svc, m) = [svc EXCEPT !.tree = [svc.tree EXCEPT ![u] = EmptyTree]]
      BY <1>1, <1>2 DEF HandleCloseThread, Consistent, Service
    <2>2. QED BY <1>1, <2>1, EmptyTreeType DEF Consistent, Service, Shown
  <1>3. CASE ~HasTree(svc, u)
    BY <1>1, <1>3, ServiceTree DEF HandleCloseThread, Shown
  <1>4. QED BY <1>2, <1>3

\* The close of a process takes the trees of its threads away.
LEMMA CloseProcessEffect ==
  ASSUME NEW svc, Consistent(svc), NEW m \in Message
  PROVE  /\ Consistent(HandleCloseProcess(svc, m))
         /\ \A t \in Threads : Shown(HandleCloseProcess(svc, m), t)
                                 = IF Pid(t) = Pid(m.from) THEN Root ELSE Shown(svc, t)
  <1>1. PICK new : new = HandleCloseProcess(svc, m)
    OBVIOUS
  <1>2. /\ new = [processes |-> svc.processes \ {Pid(m.from)}, tree |-> new.tree]
        /\ DOMAIN new.tree = Threads
        /\ new.tree = [t \in Threads |-> new.tree[t]]
        /\ \A t \in Threads : new.tree[t] = IF Pid(t) = Pid(m.from) THEN EmptyTree
                                             ELSE svc.tree[t]
    BY <1>1 DEF HandleCloseProcess
  <1>3. new.tree \in [Threads -> Tree]
    BY <1>2, EmptyTreeType DEF Consistent, Service
  <1>4. new \in Service /\ new.processes = svc.processes \ {Pid(m.from)}
    BY <1>2, <1>3 DEF Consistent, Service
  <1>5. Consistent(new)
    BY <1>2, <1>4 DEF Consistent
  <1>6. QED BY <1>1, <1>2, <1>5 DEF Shown

-----------------------------------------------------------------------------
(* All the handlers together *)

\* The path on top of the tree of thread t after message m, when the path
\* before was the one given and m fits it.
After(m, t, path) ==
  CASE m.type = "eEntry" /\ m.from = t -> m.path
    [] m.type = "eExit" /\ m.from = t -> Parent(m.path)
    [] m.type = "eCloseThread" /\ m.from = t -> Root
    [] m.type = "eCloseProcess" /\ Pid(m.from) = Pid(t) -> Root
    [] OTHER -> path

\* An entry is that of a call from the path, an exit that of the call on top,
\* and no call is open at a close.
Fits(m, t, path) ==
  m.from = t => /\ m.type = "eEntry" => Parent(m.path) = path
                /\ m.type = "eExit" => m.path = path
                /\ m.type \in {"eCloseThread", "eCloseProcess"} => path = Root

\* Every message leaves a consistent service, and moves the tree of a thread
\* as the calls of that thread move.
LEMMA HandleMessageEffect ==
  ASSUME NEW svc, Consistent(svc), NEW m \in Message
  PROVE  /\ Consistent(HandleMessage(svc, m))
         /\ \A t \in Threads :
              Fits(m, t, Shown(svc, t))
                => Shown(HandleMessage(svc, m), t) = After(m, t, Shown(svc, t))
  <1>1. m.type \in MessageType
    BY DEF Message, PerfMessage
  <1>2. CASE m.type = "eEntry"
    <2>1. m.path = Append(Parent(m.path), szName(m))
      BY <1>2, NameOfCall DEF OfCall
    <2>2. HandleMessage(svc, m) = HandleEntry(svc, m)
      BY <1>2 DEF HandleMessage
    <2>3. ASSUME NEW t \in Threads, Fits(m, t, Shown(svc, t))
          PROVE  Shown(HandleEntry(svc, m), t) = After(m, t, Shown(svc, t))
      <3>1. CASE t = m.from
        <4>1. Parent(m.path) = Shown(svc, t)
          BY <1>2, <2>3, <3>1 DEF Fits
        <4>2. Shown(HandleEntry(svc, m), t) = m.path
          BY <1>2, <2>1, <3>1, <4>1, EntryEffect
        <4>3. QED BY <1>2, <3>1, <4>2 DEF After
      <3>2. CASE t # m.from
        BY <1>2, <3>2, EntryEffect DEF After
      <3>3. QED BY <3>1, <3>2
    <2>4. QED BY <1>2, <2>2, <2>3, EntryEffect
  <1>3. CASE m.type = "eExit"
    BY <1>3, ExitEffect DEF HandleMessage, Fits, After
  <1>4. CASE m.type = "eThreshold"
    BY <1>4 DEF HandleMessage, HandleThreshold, After
  <1>5. CASE m.type = "eReportThread"
    BY <1>5, ReportThreadEffect DEF HandleMessage, After
  <1>6. CASE m.type = "eReportProcess"
    BY <1>6, ReportProcessEffect DEF HandleMessage, After
  <1>7. CASE m.type = "eCloseThread"
    BY <1>7, CloseThreadEffect DEF HandleMessage, After
  <1>8. CASE m.type = "eCloseProcess"
    BY <1>8, CloseProcessEffect DEF HandleMessage, After
  <1>9. QED BY <1>1, <1>2, <1>3, <1>4, <1>5, <1>6, <1>7, <1>8 DEF MessageType

-----------------------------------------------------------------------------
(* Any use of the interface *)

\* The inductive invariant: what TypeOK and ServiceTablesConsistent say, and
\* that the calls of objects and messages have a name.
Inv ==
  /\ s_pQueue \in [Procs -> BOOLEAN]
  /\ obj \in [Records -> [thread : Threads, path : Node] \cup {NoObject}]
  /\ \A r \in Records : obj[r] # NoObject =>
       obj[r].path # Root /\ Len(obj[r].path) < MaxDepth
  /\ sending \in [Threads -> Message \cup {Null}]
  /\ queue \in Seq(Message) /\ Len(queue) <= mq_maxmsg
  /\ Consistent(service)
  /\ astray \in [Procs -> {"no", "yes", "closing"}]

\* The path of a thread is that of its innermost object.
LEMMA OpenPathType ==
  ASSUME Inv, NEW t \in Threads
  PROVE  /\ OpenPath(t) \in Node
         /\ Objects(t) = {} => OpenPath(t) = Root
         /\ Objects(t) # {} => \E r \in Objects(t) : Innermost(r) /\ OpenPath(t) = obj[r].path
  <1>1. CASE Objects(t) = {}
    BY <1>1 DEF OpenPath, Root, Node
  <1>2. CASE Objects(t) # {}
    <2>1. PICK S : S = {MaxDepth - Len(obj[r].path) : r \in Objects(t)}
      OBVIOUS
    <2>2. ASSUME NEW r \in Objects(t)
          PROVE  /\ r \in Records /\ obj[r].thread = t /\ obj[r].path \in Node
                 /\ Len(obj[r].path) \in Nat /\ MaxDepth - Len(obj[r].path) \in Nat
      <3>1. r \in Records /\ obj[r].thread = t
        BY DEF Objects
      <3>2. CASE obj[r] = NoObject
        BY <3>1, <3>2, QueueAssumption DEF NoObject, Node, Root
      <3>3. CASE obj[r] # NoObject
        <4>1. obj[r].path \in Node /\ Len(obj[r].path) < MaxDepth
          BY <3>1, <3>3 DEF Inv
        <4>2. Len(obj[r].path) \in Nat
          BY <4>1 DEF Node
        <4>3. QED BY <3>1, <4>1, <4>2, QueueAssumption
      <3>4. QED BY <3>2, <3>3
    <2>3. S \in SUBSET Nat /\ S # {}
      BY <1>2, <2>1, <2>2
    <2>4. PICK x \in S : \A y \in S : x <= y
      BY <2>3, LeastNumber
    <2>5. PICK r \in Objects(t) : x = MaxDepth - Len(obj[r].path)
      BY <2>1
    <2>6. ASSUME NEW q \in Objects(t) PROVE Len(obj[q].path) <= Len(obj[r].path)
      <3>1. x <= MaxDepth - Len(obj[q].path)
        BY <2>1, <2>4
      <3>2. QED BY <2>2, <2>5, <3>1, QueueAssumption
    <2>7. Innermost(r)
      BY <2>2, <2>6 DEF Innermost
    <2>8. PICK best : best = (CHOOSE q \in Objects(t) : Innermost(q))
      OBVIOUS
    <2>9. best \in Objects(t) /\ Innermost(best)
      BY <2>7, <2>8
    <2>10. OpenPath(t) = obj[best].path
      BY <1>2, <2>8 DEF OpenPath
    <2>11. QED BY <1>2, <2>2, <2>9, <2>10
  <1>3. QED BY <1>1, <1>2

\* What becomes of the history when a process may go astray.
LEMMA AstrayType ==
  ASSUME Inv, NEW p \in Procs, NEW doubtful, GoAstrayIf(p, doubtful)
  PROVE  /\ astray' \in [Procs -> {"no", "yes", "closing"}]
         /\ \A q \in Procs : astray'[q] # "yes" => astray'[q] = astray[q]
         /\ astray'[p] # "yes" => ~doubtful
  <1>1. CASE doubtful
    <2>1. astray' = [astray EXCEPT ![p] = "yes"]
      BY <1>1 DEF GoAstrayIf
    <2>2. QED BY <2>1 DEF Inv
  <1>2. CASE ~doubtful
    BY <1>2 DEF GoAstrayIf, Inv
  <1>3. QED BY <1>1, <1>2

\* A client that sends a message of its own changes nothing else of the
\* invariant's but its objects.
LEMMA SendKeepsInv ==
  ASSUME Inv, NEW t \in Threads, NEW type \in MessageType, NEW path \in Node,
         type \in {"eEntry", "eExit", "eThreshold"} => path # Root,
         SendMessage(t, type, path), UNCHANGED <<queue, service>>,
         astray' \in [Procs -> {"no", "yes", "closing"}],
         s_pQueue' \in [Procs -> BOOLEAN],
         obj' \in [Records -> [thread : Threads, path : Node] \cup {NoObject}],
         \A r \in Records : obj'[r] # NoObject =>
           obj'[r].path # Root /\ Len(obj'[r].path) < MaxDepth
  PROVE  Inv'
  <1>1. PICK m : m = [type |-> type, from |-> t, path |-> path]
    OBVIOUS
  <1>2. m \in Message
    BY <1>1 DEF Message, PerfMessage, OfCall
  <1>3. sending' = [sending EXCEPT ![t] = m]
    BY <1>1 DEF SendMessage
  <1>4. sending' \in [Threads -> Message \cup {Null}]
    BY <1>2, <1>3 DEF Inv
  <1>5. QED BY <1>4 DEF Inv

\* A constructor keeps the invariant: the path of its object is one node longer
\* than that of its thread.
LEMMA ConstructKeepsInv ==
  ASSUME Inv, NEW t \in Threads, NEW r \in Records, NEW name \in Names,
         Construct(r, t, name)
  PROVE  Inv'
  <1>1. PICK path : path = Append(OpenPath(t), name)
    OBVIOUS
  <1>2. path \in Node /\ path # Root /\ Len(path) < MaxDepth
    <2>1. OpenPath(t) \in Node /\ Len(OpenPath(t)) + 1 < MaxDepth
      BY OpenPathType DEF Construct
    <2>2. QED BY <1>1, <2>1 DEF Node, Root
  <1>3. /\ SendMessage(t, "eEntry", path)
        /\ obj' = [obj EXCEPT ![r] = [thread |-> t, path |-> path]]
        /\ s_pQueue' = [s_pQueue EXCEPT ![Pid(t)] = TRUE]
        /\ UNCHANGED <<queue, service, astray>>
    BY <1>1 DEF Construct
  <1>4. obj' \in [Records -> [thread : Threads, path : Node] \cup {NoObject}]
    BY <1>2, <1>3 DEF Inv
  <1>5. \A q \in Records : obj'[q] # NoObject =>
          obj'[q].path # Root /\ Len(obj'[q].path) < MaxDepth
    BY <1>2, <1>3 DEF Inv
  <1>6. s_pQueue' \in [Procs -> BOOLEAN]
    BY <1>3, PidType DEF Inv
  <1>7. QED BY <1>2, <1>3, <1>4, <1>5, <1>6, SendKeepsInv DEF MessageType, Inv

\* A destructor keeps the invariant.
LEMMA DestroyKeepsInv ==
  ASSUME Inv, NEW t \in Threads, NEW r \in Records, Destroy(r, t)
  PROVE  Inv'
  <1>1. /\ SendMessage(t, "eExit", obj[r].path)
        /\ obj' = [obj EXCEPT ![r] = NoObject]
        /\ UNCHANGED <<s_pQueue, queue, service>>
        /\ obj[r] # NoObject
    BY DEF Destroy
  <1>2. obj[r].path \in Node /\ obj[r].path # Root
    BY <1>1 DEF Inv
  <1>3. obj' \in [Records -> [thread : Threads, path : Node] \cup {NoObject}]
    BY <1>1 DEF Inv
  <1>4. \A q \in Records : obj'[q] # NoObject =>
          obj'[q].path # Root /\ Len(obj'[q].path) < MaxDepth
    BY <1>1 DEF Inv
  <1>5. s_pQueue' \in [Procs -> BOOLEAN]
    BY <1>1 DEF Inv
  <1>6. astray' \in [Procs -> {"no", "yes", "closing"}]
    BY AstrayType, PidType DEF Destroy
  <1>7. QED BY <1>1, <1>2, <1>3, <1>4, <1>5, <1>6, SendKeepsInv DEF MessageType

\* A threshold message keeps the invariant.
LEMMA SetThresholdKeepsInv ==
  ASSUME Inv, NEW t \in Threads, NEW r \in Records, SetThreshold(r, t)
  PROVE  Inv'
  <1>1. /\ SendMessage(t, "eThreshold", obj[r].path)
        /\ UNCHANGED <<s_pQueue, obj, queue, service, astray>>
        /\ obj[r] # NoObject
    BY DEF SetThreshold
  <1>2. obj[r].path \in Node /\ obj[r].path # Root
    BY <1>1 DEF Inv
  <1>3. QED BY <1>1, <1>2, SendKeepsInv DEF MessageType, Inv

\* The reports and closes keep the invariant: they name no call.
LEMMA RequestKeepsInv ==
  ASSUME Inv, NEW t \in Threads,
         NEW type \in {"eReportThread", "eReportProcess", "eCloseThread", "eCloseProcess"},
         Request(t, type)
  PROVE  Inv'
  <1>1. /\ SendMessage(t, type, Root)
        /\ UNCHANGED <<s_pQueue, obj, queue, service>>
    BY DEF Request
  <1>2. Root \in Node
    BY DEF Root, Node
  <1>3. astray' \in [Procs -> {"no", "yes", "closing"}]
    BY AstrayType, PidType DEF Request
  <1>4. QED BY <1>1, <1>2, <1>3, SendKeepsInv DEF MessageType, Inv

\* A message that enters the queue finds room there.
LEMMA EnqueueKeepsInv ==
  ASSUME Inv, NEW t \in Threads, Enqueue(t)
  PROVE  Inv'
  <1>1. PICK m \in Message : m = sending[t]
    BY DEF Enqueue, Inv
  <1>2. queue' \in Seq(Message) /\ Len(queue') <= mq_maxmsg
    <2>1. queue' = Append(queue, m) /\ Len(queue) < mq_maxmsg /\ Len(queue) \in Nat
      BY <1>1 DEF Enqueue, Inv
    <2>2. QED BY <2>1, AppendSeq, QueueAssumption DEF Inv
  <1>3. sending' \in [Threads -> Message \cup {Null}]
    BY DEF Enqueue, Inv
  <1>4. astray' \in [Procs -> {"no", "yes", "closing"}]
    BY PidType DEF Enqueue, Straighten, Inv
  <1>5. QED BY <1>2, <1>3, <1>4 DEF Enqueue, Inv

\* A message that is lost leaves everything else as it was.
LEMMA LoseKeepsInv ==
  ASSUME Inv, NEW t \in Threads, LoseMessage(t)
  PROVE  Inv'
  <1>1. sending' \in [Threads -> Message \cup {Null}]
    BY DEF LoseMessage, Inv
  <1>2. astray' \in [Procs -> {"no", "yes", "closing"}]
    BY AstrayType, PidType DEF LoseMessage
  <1>3. QED BY <1>1, <1>2 DEF LoseMessage, Inv

\* The service keeps the invariant, whatever message comes first.
LEMMA RunLoopKeepsInv ==
  ASSUME Inv, RunLoop
  PROVE  Inv'
  <1>1. /\ Head(queue) \in Message
        /\ Tail(queue) \in Seq(Message) /\ Len(Tail(queue)) <= mq_maxmsg
    BY QueueAssumption DEF RunLoop, Inv
  <1>2. Consistent(service')
    BY <1>1, HandleMessageEffect DEF RunLoop, Inv
  <1>3. astray' \in [Procs -> {"no", "yes", "closing"}]
    BY DEF RunLoop, Inv
  <1>4. UNCHANGED <<s_pQueue, obj, sending>> /\ queue' = Tail(queue)
    BY DEF RunLoop
  <1>5. QED BY <1>1, <1>2, <1>3, <1>4 DEF Inv, Consistent

\* The end of a process keeps the invariant.
LEMMA TerminateKeepsInv ==
  ASSUME Inv, NEW p \in Procs, PerfModuleTerminate(p)
  PROVE  Inv'
  <1>1. s_pQueue' \in [Procs -> BOOLEAN]
    BY DEF PerfModuleTerminate, Inv
  <1>2. \A r \in Records : obj'[r] \in {obj[r], NoObject}
    BY DEF PerfModuleTerminate
  <1>3. obj' \in [Records -> [thread : Threads, path : Node] \cup {NoObject}]
    BY <1>2 DEF PerfModuleTerminate, Inv
  <1>4. \A r \in Records : obj'[r] # NoObject =>
          obj'[r].path # Root /\ Len(obj'[r].path) < MaxDepth
    BY <1>2 DEF Inv
  <1>5. sending' \in [Threads -> Message \cup {Null}]
    BY DEF PerfModuleTerminate, Inv
  <1>6. astray' \in [Procs -> {"no", "yes", "closing"}]
    BY AstrayType DEF PerfModuleTerminate
  <1>7. QED BY <1>1, <1>3, <1>4, <1>5, <1>6 DEF PerfModuleTerminate, Inv

\* The invariant holds at the start.
LEMMA InitInv == Init => Inv
  <1>1. SUFFICES ASSUME Init PROVE Inv
    OBVIOUS
  <1>2. Consistent(service)
    BY <1>1, EmptyTreeType DEF Init, Consistent, Service
  <1>3. queue \in Seq(Message) /\ Len(queue) <= mq_maxmsg
    BY <1>1, QueueAssumption DEF Init
  <1>4. QED BY <1>1, <1>2, <1>3 DEF Init, Inv

\* The invariant is inductive for every use of the interface.
LEMMA NextInv ==
  ASSUME Inv, [Next]_vars
  PROVE  Inv'
  <1>1. CASE RunLoop
    BY <1>1, RunLoopKeepsInv
  <1>2. ASSUME NEW t \in Threads, Enqueue(t) \/ LoseMessage(t) PROVE Inv'
    BY <1>2, EnqueueKeepsInv, LoseKeepsInv
  <1>3. ASSUME NEW t \in Threads, NEW r \in Records, Destroy(r, t) \/ SetThreshold(r, t)
        PROVE  Inv'
    BY <1>3, DestroyKeepsInv, SetThresholdKeepsInv
  <1>4. ASSUME NEW t \in Threads, NEW r \in Records, NEW name \in Names, Construct(r, t, name)
        PROVE  Inv'
    BY <1>4, ConstructKeepsInv
  <1>5. ASSUME NEW t \in Threads, ReportProcess(t) \/ CloseProcess(t) PROVE Inv'
    BY <1>5, RequestKeepsInv DEF ReportProcess, CloseProcess
  <1>6. ASSUME NEW t \in Threads, NEW s \in Siblings(t), ReportThread(t, s) \/ CloseThread(t, s)
        PROVE  Inv'
    BY <1>6, RequestKeepsInv DEF ReportThread, CloseThread
  <1>7. ASSUME NEW p \in Procs, PerfModuleTerminate(p) PROVE Inv'
    BY <1>7, TerminateKeepsInv
  <1>8. CASE UNCHANGED vars
    BY <1>8 DEF vars, Inv
  <1>9. QED BY <1>1, <1>2, <1>3, <1>4, <1>5, <1>6, <1>7, <1>8 DEF Next

\* The inductive invariant holds throughout, whatever the clients send.
THEOREM InvIsInvariant == Spec => []Inv
  <1>1. Inv /\ [Next]_vars => Inv'
    BY NextInv
  <1>2. QED BY InitInv, <1>1, PTL DEF Spec

\* Messages, objects and trees stay well formed and the queue within its
\* capacity, for any number of processes, threads, objects and names.
THEOREM ServiceTypeCorrect == Spec => []TypeOK
  <1>1. Inv => TypeOK
    <2>1. SUFFICES ASSUME Inv PROVE TypeOK
      OBVIOUS
    <2>2. Message \subseteq PerfMessage
      BY DEF Message
    <2>3. queue \in Seq(PerfMessage) /\ Len(queue) <= mq_maxmsg
      BY <2>1, <2>2 DEF Inv
    <2>4. \A t \in Threads : sending[t] # Null => sending[t] \in PerfMessage
      BY <2>1, <2>2 DEF Inv
    <2>5. service.processes \subseteq Procs /\ service.tree \in [Threads -> Tree]
      BY <2>1 DEF Inv, Consistent, Service
    <2>6. QED BY <2>1, <2>3, <2>4, <2>5 DEF Inv, TypeOK
  <1>2. QED BY <1>1, InvIsInvariant, PTL

\* Whatever the clients send, and if they die in the middle of it, a tree of
\* the service belongs to a process of its map and its stack is a call path:
\* the unchecked top() of the handlers is defined.
THEOREM ServiceTablesStayConsistent == Spec => []ServiceTablesConsistent
  <1>1. Inv => ServiceTablesConsistent
    BY DEF Inv, Consistent, ServiceTablesConsistent
  <1>2. QED BY <1>1, InvIsInvariant, PTL

-----------------------------------------------------------------------------
(* The messages on their way *)

\* f is what Replay computes, as far as message n.
IsReplay(f, svc, q, n) ==
  f = [k \in 0..n |-> IF k = 0 THEN svc ELSE HandleMessage(f[k - 1], q[k])]

\* The messages can be replayed, one after the other.
LEMMA ReplayExists ==
  ASSUME NEW svc, NEW q, NEW n \in Nat
  PROVE  \E f : IsReplay(f, svc, q, n)
  <1>1. PICK S : S = {k \in Nat : \E f : IsReplay(f, svc, q, k)}
    OBVIOUS
  <1>2. 0 \in S
    <2>1. PICK f : f = [k \in 0..0 |-> svc]
      OBVIOUS
    <2>2. IsReplay(f, svc, q, 0)
      BY <2>1 DEF IsReplay
    <2>3. QED BY <1>1, <2>2
  <1>3. ASSUME NEW k \in Nat, k \in S PROVE k + 1 \in S
    <2>1. PICK f : IsReplay(f, svc, q, k)
      BY <1>1, <1>3
    <2>2. PICK g : g = [j \in 0..(k + 1) |-> IF j = k + 1 THEN HandleMessage(f[k], q[k + 1])
                                             ELSE f[j]]
      OBVIOUS
    <2>3. ASSUME NEW j \in 0..(k + 1)
          PROVE  g[j] = IF j = 0 THEN svc ELSE HandleMessage(g[j - 1], q[j])
      <3>1. \A i \in 0..k : f[i] = IF i = 0 THEN svc ELSE HandleMessage(f[i - 1], q[i])
        BY <2>1 DEF IsReplay
      <3>2. \A i \in 0..k : g[i] = f[i]
        BY <2>2
      <3>3. CASE j = k + 1
        BY <2>2, <3>2, <3>3
      <3>4. CASE j \in 1..k
        <4>1. j - 1 \in 0..k /\ j \in 0..k /\ j # 0
          BY <3>4
        <4>2. QED BY <3>1, <3>2, <4>1
      <3>5. CASE j = 0
        BY <3>1, <3>2, <3>5
      <3>6. QED BY <3>3, <3>4, <3>5
    <2>4. IsReplay(g, svc, q, k + 1)
      BY <2>2, <2>3 DEF IsReplay
    <2>5. QED BY <1>1, <2>4
  <1>4. n \in S
    BY <1>2, <1>3, InductiveSet
  <1>5. QED BY <1>1, <1>4

\* Replay starts with the service and handles one message after the other.
LEMMA ReplaySteps ==
  ASSUME NEW svc, NEW q, Len(q) \in Nat
  PROVE  /\ Replay(svc, q)[0] = svc
         /\ \A n \in 1..Len(q) : Replay(svc, q)[n] = HandleMessage(Replay(svc, q)[n - 1], q[n])
  <1>1. PICK f : f = Replay(svc, q)
    OBVIOUS
  <1>2. IsReplay(f, svc, q, Len(q))
    <2>1. \E g : IsReplay(g, svc, q, Len(q))
      BY ReplayExists
    <2>2. f = CHOOSE g : IsReplay(g, svc, q, Len(q))
      BY <1>1 DEF Replay, IsReplay
    <2>3. QED BY <2>1, <2>2
  <1>3. \A n \in 0..Len(q) : f[n] = IF n = 0 THEN svc ELSE HandleMessage(f[n - 1], q[n])
    BY <1>2 DEF IsReplay
  <1>4. QED BY <1>1, <1>3

\* The service is consistent after each message.
LEMMA ReplayConsistent ==
  ASSUME NEW svc, Consistent(svc), NEW q \in Seq(Message), NEW n \in 0..Len(q)
  PROVE  Consistent(Replay(svc, q)[n])
  <1>1. PICK S : S = {k \in Nat : k <= Len(q) => Consistent(Replay(svc, q)[k])}
    OBVIOUS
  <1>2. Len(q) \in Nat /\ \A k \in 1..Len(q) : q[k] \in Message
    OBVIOUS
  <1>3. 0 \in S
    BY <1>1, <1>2, ReplaySteps
  <1>4. ASSUME NEW k \in Nat, k \in S PROVE k + 1 \in S
    <2>1. SUFFICES ASSUME k + 1 <= Len(q) PROVE Consistent(Replay(svc, q)[k + 1])
      BY <1>1
    <2>2. Consistent(Replay(svc, q)[k])
      BY <1>1, <1>2, <1>4, <2>1
    <2>3. k + 1 \in 1..Len(q) /\ (k + 1) - 1 = k
      BY <1>2, <2>1
    <2>4. Replay(svc, q)[k + 1] = HandleMessage(Replay(svc, q)[k], q[k + 1])
      BY <1>2, <2>3, ReplaySteps
    <2>5. QED BY <1>2, <2>2, <2>3, <2>4, HandleMessageEffect
  <1>5. n \in Nat /\ n <= Len(q)
    BY <1>2
  <1>6. n \in S
    BY <1>3, <1>4, <1>5, InductiveSet
  <1>7. QED BY <1>1, <1>5, <1>6

\* Once the first message is handled the rest is replayed as before.
LEMMA ReplayTail ==
  ASSUME NEW svc, NEW q \in Seq(Message), q # <<>>, NEW n \in 0..(Len(q) - 1)
  PROVE  Replay(HandleMessage(svc, Head(q)), Tail(q))[n] = Replay(svc, q)[n + 1]
  <1>1. PICK new, rest : new = HandleMessage(svc, Head(q)) /\ rest = Tail(q)
    OBVIOUS
  <1>2. /\ Len(q) \in Nat /\ Len(q) >= 1 /\ Len(rest) = Len(q) - 1 /\ Len(rest) \in Nat
        /\ Head(q) = q[1] /\ \A k \in 1..Len(rest) : rest[k] = q[k + 1]
    BY <1>1
  <1>3. PICK S : S = {k \in Nat : k <= Len(rest) => Replay(new, rest)[k] = Replay(svc, q)[k + 1]}
    OBVIOUS
  <1>4. 0 \in S
    <2>1. Replay(new, rest)[0] = new
      BY <1>2, ReplaySteps
    <2>2. 1 \in 1..Len(q) /\ 1 - 1 = 0
      BY <1>2
    <2>3. Replay(svc, q)[1] = HandleMessage(svc, q[1])
      BY <1>2, <2>2, ReplaySteps
    <2>4. 0 + 1 = 1
      OBVIOUS
    <2>5. QED BY <1>1, <1>2, <1>3, <2>1, <2>3, <2>4
  <1>5. ASSUME NEW k \in Nat, k \in S PROVE k + 1 \in S
    <2>1. SUFFICES ASSUME k + 1 <= Len(rest)
                   PROVE  Replay(new, rest)[k + 1] = Replay(svc, q)[(k + 1) + 1]
      BY <1>3
    <2>2. Replay(new, rest)[k] = Replay(svc, q)[k + 1]
      BY <1>2, <1>3, <1>5, <2>1
    <2>3. /\ k + 1 \in 1..Len(rest) /\ (k + 1) - 1 = k
          /\ (k + 1) + 1 \in 1..Len(q) /\ ((k + 1) + 1) - 1 = k + 1
      BY <1>2, <2>1
    <2>4. Replay(new, rest)[k + 1] = HandleMessage(Replay(new, rest)[k], rest[k + 1])
      BY <1>2, <2>3, ReplaySteps
    <2>5. Replay(svc, q)[(k + 1) + 1] = HandleMessage(Replay(svc, q)[k + 1], q[(k + 1) + 1])
      BY <1>2, <2>3, ReplaySteps
    <2>6. QED BY <1>2, <2>2, <2>3, <2>4, <2>5
  <1>6. n \in Nat /\ n <= Len(rest)
    BY <1>2
  <1>7. n \in S
    BY <1>4, <1>5, <1>6, InductiveSet
  <1>8. QED BY <1>1, <1>3, <1>6, <1>7

\* A message added to the queue is handled after all others.
LEMMA ReplayAppend ==
  ASSUME NEW svc, NEW q \in Seq(Message), NEW m \in Message
  PROVE  /\ \A n \in 0..Len(q) : Replay(svc, Append(q, m))[n] = Replay(svc, q)[n]
         /\ Replay(svc, Append(q, m))[Len(q) + 1] = HandleMessage(Replay(svc, q)[Len(q)], m)
  <1>1. PICK long : long = Append(q, m)
    OBVIOUS
  <1>2. /\ Len(q) \in Nat /\ Len(long) = Len(q) + 1 /\ Len(long) \in Nat
        /\ long[Len(q) + 1] = m /\ \A k \in 1..Len(q) : long[k] = q[k]
    BY <1>1, AppendSeq
  <1>3. PICK S : S = {k \in Nat : k <= Len(q) => Replay(svc, long)[k] = Replay(svc, q)[k]}
    OBVIOUS
  <1>4. 0 \in S
    BY <1>2, <1>3, ReplaySteps
  <1>5. ASSUME NEW k \in Nat, k \in S PROVE k + 1 \in S
    <2>1. SUFFICES ASSUME k + 1 <= Len(q) PROVE Replay(svc, long)[k + 1] = Replay(svc, q)[k + 1]
      BY <1>3
    <2>2. Replay(svc, long)[k] = Replay(svc, q)[k]
      BY <1>2, <1>3, <1>5, <2>1
    <2>3. k + 1 \in 1..Len(q) /\ k + 1 \in 1..Len(long) /\ (k + 1) - 1 = k
      BY <1>2, <2>1
    <2>4. Replay(svc, long)[k + 1] = HandleMessage(Replay(svc, long)[k], long[k + 1])
      BY <1>2, <2>3, ReplaySteps
    <2>5. Replay(svc, q)[k + 1] = HandleMessage(Replay(svc, q)[k], q[k + 1])
      BY <1>2, <2>3, ReplaySteps
    <2>6. QED BY <1>2, <2>2, <2>3, <2>4, <2>5
  <1>6. ASSUME NEW n \in 0..Len(q) PROVE Replay(svc, long)[n] = Replay(svc, q)[n]
    <2>1. n \in Nat /\ n <= Len(q)
      BY <1>2
    <2>2. n \in S
      BY <1>4, <1>5, <2>1, InductiveSet
    <2>3. QED BY <1>3, <2>1, <2>2
  <1>7. Replay(svc, long)[Len(q) + 1] = HandleMessage(Replay(svc, q)[Len(q)], m)
    <2>1. Len(q) + 1 \in 1..Len(long) /\ (Len(q) + 1) - 1 = Len(q) /\ Len(q) \in 0..Len(q)
      BY <1>2
    <2>2. QED BY <1>2, <1>6, <2>1, ReplaySteps
  <1>8. QED BY <1>1, <1>6, <1>7
-----------------------------------------------------------------------------
(* What the service follows *)

ThreadsOf(p) == {t \in Threads : Pid(t) = p}

\* The objects of thread t measure nested calls: one for each length of path
\* up to the innermost.
Nested(t) ==
  \A r \in Objects(t) :
    /\ \A q \in Objects(t) : Len(obj[q].path) = Len(obj[r].path) => q = r
    /\ Parent(obj[r].path) # Root => \E q \in Objects(t) : obj[q].path = Parent(obj[r].path)

CallsNested == \A t \in Threads : astray[Pid(t)] # "yes" => Nested(t)

\* A thread sends its own messages, and is in a call when it sends an entry.
SentByThread ==
  \A t \in Threads : sending[t] # Null =>
    /\ sending[t].from = t
    /\ sending[t].type = "eEntry" => Objects(t) # {}

\* From position c of the queue on each message fits what the service will
\* show of thread t when it gets there.
QueueFits(t, c) ==
  \A k \in c..(Len(queue) - 1) : Fits(queue[k + 1], t, Shown(Replay(service, queue)[k], t))

\* What is on its way leads from what the service shows of thread t to the
\* calls that the thread is in.
CatchesUp(t) ==
  IF sending[t] = Null THEN Shown(Settled, t) = OpenPath(t)
  ELSE /\ Fits(sending[t], t, Shown(Settled, t))
       /\ After(sending[t], t, Shown(Settled, t)) = OpenPath(t)

\* The close of process p is at position c of the queue, and the messages
\* after it fit.
FitsOnceClosed(p, c) ==
  /\ queue[c].type = "eCloseProcess" /\ Pid(queue[c].from) = p
  /\ \A t \in ThreadsOf(p) : QueueFits(t, c)

\* The service follows the calls of the threads of a process: all the way when
\* the process has not gone astray, from the close on when it has and the close
\* is on its way.
Follows ==
  \A p \in Procs :
    /\ astray[p] # "yes" => \A t \in ThreadsOf(p) : CatchesUp(t)
    /\ astray[p] = "no" => \A t \in ThreadsOf(p) : QueueFits(t, 0)
    /\ astray[p] = "closing" => \E c \in 1..Len(queue) : FitsOnceClosed(p, c)

\* The inductive invariant of what the service follows.
FollowInv == Inv /\ CallsNested /\ SentByThread /\ Follows

\* The length of the path of an object is a number.
LEMMA ObjectPath ==
  ASSUME Inv, NEW t \in Threads, NEW r \in Objects(t)
  PROVE  /\ r \in Records /\ obj[r].thread = t /\ obj[r] # NoObject
         /\ obj[r].path \in Node /\ obj[r].path # Root
         /\ Len(obj[r].path) \in Nat
         /\ Parent(obj[r].path) \in Node
         /\ Len(Parent(obj[r].path)) = Len(obj[r].path) - 1
  <1>1. r \in Records /\ obj[r].thread = t /\ obj[r] # NoObject
    BY NullAssumption DEF Objects, NoObject
  <1>2. obj[r].path \in Node /\ obj[r].path # Root
    BY <1>1 DEF Inv
  <1>3. QED BY <1>1, <1>2 DEF Node, Root, Parent

\* A thread is in the call of its innermost object, of which there is one.
LEMMA OpenPathIsInnermost ==
  ASSUME Inv, NEW t \in Threads, Nested(t), NEW r \in Objects(t), Innermost(r)
  PROVE  OpenPath(t) = obj[r].path
  <1>1. PICK q \in Objects(t) : Innermost(q) /\ OpenPath(t) = obj[q].path
    BY OpenPathType
  <1>2. Len(obj[q].path) <= Len(obj[r].path) /\ Len(obj[r].path) <= Len(obj[q].path)
    BY <1>1, ObjectPath DEF Innermost
  <1>3. Len(obj[q].path) = Len(obj[r].path)
    BY <1>2, ObjectPath
  <1>4. QED BY <1>1, <1>3 DEF Nested

\* A thread whose calls are nested is in that of its innermost object, or in
\* none.
PathsInnermost ==
  \A t \in Threads : Nested(t) =>
    /\ Objects(t) = {} => OpenPath(t) = Root
    /\ \A r \in Objects(t) : Innermost(r) => OpenPath(t) = obj[r].path

\* The definition above follows from the invariant.
LEMMA OpenPaths == Inv => PathsInnermost
  BY OpenPathType, OpenPathIsInnermost DEF PathsInnermost

\* The same after a step.
LEMMA OpenPathsAfter == Inv' => PathsInnermost'
  BY OpenPaths, PTL

\* The calls of a thread stay while its objects do.
LEMMA UntouchedPath ==
  ASSUME Inv, Inv', NEW u \in Threads, Nested(u), Objects(u)' = Objects(u),
         \A q \in Objects(u) : obj'[q] = obj[q]
  PROVE  Nested(u)' /\ OpenPath(u)' = OpenPath(u)
  <1>1. PathsInnermost'
    BY OpenPathsAfter
  <1>2. Nested(u)'
    BY DEF Nested
  <1>3. CASE Objects(u) = {}
    BY <1>1, <1>2, <1>3, OpenPathType DEF PathsInnermost
  <1>4. CASE Objects(u) # {}
    <2>1. PICK x \in Objects(u) : Innermost(x) /\ OpenPath(u) = obj[x].path
      BY <1>4, OpenPathType
    <2>2. Innermost(x)'
      BY <2>1 DEF Innermost, Objects
    <2>3. QED BY <1>1, <1>2, <2>1, <2>2 DEF PathsInnermost
  <1>5. QED BY <1>2, <1>3, <1>4

\* The trees of the service once it has caught up.
LEMMA SettledConsistent ==
  ASSUME Inv
  PROVE  /\ Len(queue) \in Nat /\ Consistent(Settled)
         /\ \A k \in 0..Len(queue) : Consistent(Replay(service, queue)[k])
         /\ \A t \in Threads : Shown(Settled, t) \in Node
  <1>1. Len(queue) \in Nat /\ queue \in Seq(Message) /\ Consistent(service)
    BY DEF Inv
  <1>2. \A k \in 0..Len(queue) : Consistent(Replay(service, queue)[k])
    BY <1>1, ReplayConsistent
  <1>3. Consistent(Settled)
    BY <1>1, <1>2 DEF Settled
  <1>4. QED BY <1>1, <1>2, <1>3, ServiceTree

\* A step takes no objects from a thread, or its process goes astray.
ObjectsKept(u) ==
  Objects(u)' = Objects(u) \/ (astray'[Pid(u)] = "yes" /\ sending[u] = Null)

\* A thread that sends a message on its own behalf still catches up, unless its
\* process goes astray.
LEMMA SendKeepsFollowInv ==
  ASSUME FollowInv, Inv', NEW t \in Threads, NEW type \in MessageType, NEW path \in Node,
         NEW m, m = [type |-> type, from |-> t, path |-> path],
         SendMessage(t, type, path), UNCHANGED <<queue, service>>,
         \A q \in Procs : astray'[q] # "yes" => astray'[q] = astray[q],
         \A u \in Threads \ {t} : ObjectsKept(u),
         \A u \in Threads \ {t} : \A q \in Objects(u) \cap Objects(u)' : obj'[q] = obj[q],
         type = "eEntry" => Objects(t)' # {},
         astray'[Pid(t)] # "yes" => /\ Nested(t)' /\ Fits(m, t, OpenPath(t))
                                    /\ After(m, t, OpenPath(t)) = OpenPath(t)'
  PROVE  FollowInv'
  <1>1. /\ sending' = [sending EXCEPT ![t] = m] /\ sending[t] = Null
        /\ \A u \in Threads : sending'[u] = IF u = t THEN m ELSE sending[u]
    BY DEF SendMessage, FollowInv, Inv
  <1>2. m # Null /\ m.from = t /\ m.type = type
    BY NullAssumption DEF PerfMessage
  <1>3. SentByThread'
    <2>1. SUFFICES ASSUME NEW u \in Threads, sending'[u] # Null
                   PROVE  /\ sending'[u].from = u
                          /\ sending'[u].type = "eEntry" => Objects(u)' # {}
      BY DEF SentByThread
    <2>2. CASE u = t
      BY <1>1, <1>2, <2>2
    <2>3. CASE u # t
      <3>1. sending'[u] = sending[u] /\ sending[u] # Null
        BY <1>1, <2>1, <2>3
      <3>2. Objects(u)' = Objects(u)
        BY <2>3, <3>1 DEF ObjectsKept
      <3>3. QED BY <3>1, <3>2 DEF FollowInv, SentByThread
    <2>4. QED BY <2>2, <2>3
  <1>4. ASSUME NEW u \in Threads, u # t, astray'[Pid(u)] # "yes"
        PROVE  Nested(u)' /\ OpenPath(u)' = OpenPath(u)
    <2>1. Nested(u)
      BY <1>4, PidType DEF FollowInv, CallsNested
    <2>2. Objects(u)' = Objects(u) /\ \A q \in Objects(u) : obj'[q] = obj[q]
      BY <1>4 DEF ObjectsKept
    <2>3. QED BY <2>1, <2>2, UntouchedPath DEF FollowInv
  <1>5. CallsNested'
    BY <1>4 DEF CallsNested
  <1>6. Settled' = Settled
    BY DEF Settled
  <1>7. \A u \in Threads, c \in Nat : QueueFits(u, c)' = QueueFits(u, c)
    BY DEF QueueFits
  <1>8. ASSUME NEW u \in Threads, CatchesUp(u), astray'[Pid(u)] # "yes" PROVE CatchesUp(u)'
    <2>1. CASE u = t
      <3>1. Shown(Settled, t) = OpenPath(t)
        BY <1>1, <1>8, <2>1 DEF CatchesUp
      <3>2. sending'[t] = m /\ Fits(m, t, OpenPath(t)) /\ After(m, t, OpenPath(t)) = OpenPath(t)'
        BY <1>1, <1>8, <2>1
      <3>3. QED BY <1>2, <1>6, <2>1, <3>1, <3>2 DEF CatchesUp
    <2>2. CASE u # t
      <3>1. sending'[u] = sending[u] /\ OpenPath(u)' = OpenPath(u)
        BY <1>1, <1>4, <1>8, <2>2
      <3>2. QED BY <1>6, <1>8, <3>1 DEF CatchesUp
    <2>3. QED BY <2>1, <2>2
  <1>9. ASSUME NEW p \in Procs
        PROVE  /\ astray'[p] # "yes" => \A u \in ThreadsOf(p) : CatchesUp(u)'
               /\ astray'[p] = "no" => \A u \in ThreadsOf(p) : QueueFits(u, 0)'
               /\ astray'[p] = "closing" => \E c \in 1..Len(queue) : FitsOnceClosed(p, c)'
    <2>1. \A u \in ThreadsOf(p) : u \in Threads /\ Pid(u) = p
      BY DEF ThreadsOf
    <2>2. \A c \in 1..Len(queue) : FitsOnceClosed(p, c) => FitsOnceClosed(p, c)'
      BY <1>7, <2>1 DEF FitsOnceClosed
    <2>3. QED BY <1>7, <1>8, <2>1, <2>2 DEF FollowInv, Follows
  <1>10. Follows'
    BY <1>9 DEF Follows
  <1>11. QED BY <1>3, <1>5, <1>10 DEF FollowInv

\* A constructor opens a call under the path of its thread.
LEMMA ConstructPaths ==
  ASSUME FollowInv, NEW t \in Threads, NEW r \in Records, NEW name \in Names,
         Construct(r, t, name), Inv'
  PROVE  /\ Nested(t) => Nested(t)' /\ OpenPath(t)' = Append(OpenPath(t), name)
         /\ r \in Objects(t)'
         /\ \A u \in Threads \ {t} : Objects(u)' = Objects(u)
         /\ \A u \in Threads : \A q \in Objects(u) : obj'[q] = obj[q]
  <1>1. PICK path : path = Append(OpenPath(t), name)
    OBVIOUS
  <1>2. /\ OpenPath(t) \in Node /\ path \in Node /\ Parent(path) = OpenPath(t)
        /\ Len(OpenPath(t)) \in Nat /\ Len(path) = Len(OpenPath(t)) + 1
    <2>1. OpenPath(t) \in Node
      BY OpenPathType DEF FollowInv
    <2>2. QED BY <1>1, <2>1 DEF Node, Parent
  <1>3. /\ obj[r] = NoObject
        /\ \A q \in Records : obj'[q] = IF q = r THEN [thread |-> t, path |-> path] ELSE obj[q]
    BY <1>1 DEF Construct, FollowInv, Inv
  <1>4. ASSUME NEW u \in Threads
        PROVE  r \notin Objects(u) /\ Objects(u)' = IF u = t THEN Objects(u) \cup {r} ELSE Objects(u)
    <2>1. r \notin Objects(u)
      BY <1>3, NullAssumption DEF Objects, NoObject
    <2>2. QED BY <1>3, <2>1 DEF Objects
  <1>5. ASSUME NEW u \in Threads, NEW q \in Objects(u) PROVE obj'[q] = obj[q] /\ q # r
    BY <1>3, <1>4 DEF Objects
  <1>6. obj'[r] = [thread |-> t, path |-> path] /\ r \in Objects(t)'
    BY <1>3, <1>4
  <1>7. ASSUME NEW q \in Objects(t)
        PROVE  Len(obj[q].path) \in Nat /\ Len(obj[q].path) < Len(path)
    <2>1. PICK x \in Objects(t) : Innermost(x) /\ OpenPath(t) = obj[x].path
      BY OpenPathType DEF FollowInv
    <2>2. Len(obj[q].path) <= Len(obj[x].path) /\ Len(obj[q].path) \in Nat
      BY <2>1, ObjectPath DEF Innermost, FollowInv
    <2>3. QED BY <1>2, <2>1, <2>2
  <1>8. ASSUME Nested(t), NEW q \in Objects(t)'
        PROVE  /\ \A x \in Objects(t)' : Len(obj'[x].path) = Len(obj'[q].path) => x = q
               /\ Parent(obj'[q].path) # Root =>
                    \E x \in Objects(t)' : obj'[x].path = Parent(obj'[q].path)
    <2>1. CASE q # r
      <3>1. q \in Objects(t)
        BY <1>4, <1>8, <2>1
      <3>2. /\ \A x \in Objects(t) : Len(obj[x].path) = Len(obj[q].path) => x = q
            /\ Parent(obj[q].path) # Root =>
                 \E x \in Objects(t) : obj[x].path = Parent(obj[q].path)
        BY <1>8, <3>1 DEF Nested
      <3>3. Len(obj[q].path) # Len(path)
        BY <1>7, <3>1
      <3>4. QED BY <1>4, <1>5, <1>6, <3>1, <3>2, <3>3
    <2>2. CASE q = r
      <3>1. \A x \in Objects(t) : Len(obj[x].path) # Len(path)
        BY <1>2, <1>7
      <3>2. OpenPath(t) # Root => \E x \in Objects(t) : obj[x].path = OpenPath(t)
        BY OpenPathType DEF FollowInv
      <3>3. QED BY <1>2, <1>4, <1>5, <1>6, <2>2, <3>1, <3>2
    <2>3. QED BY <2>1, <2>2
  <1>9. Nested(t) => Nested(t)'
    BY <1>8 DEF Nested
  <1>10. Innermost(r)'
    BY <1>2, <1>4, <1>5, <1>6, <1>7 DEF Innermost
  <1>11. ASSUME Nested(t) PROVE OpenPath(t)' = path
    <2>1. PathsInnermost'
      BY OpenPathsAfter
    <2>2. OpenPath(t)' = obj'[r].path
      BY <1>6, <1>9, <1>10, <1>11, <2>1 DEF PathsInnermost
    <2>3. QED BY <1>6, <2>2
  <1>12. QED BY <1>1, <1>4, <1>5, <1>6, <1>9, <1>11

\* The destructor of the innermost object closes its call.
LEMMA DestroyPaths ==
  ASSUME FollowInv, NEW t \in Threads, Nested(t), NEW r \in Objects(t), Innermost(r),
         Destroy(r, t), Inv'
  PROVE  Nested(t)' /\ OpenPath(t) = obj[r].path /\ OpenPath(t)' = Parent(obj[r].path)
  <1>1. \A q \in Records : obj'[q] = IF q = r THEN NoObject ELSE obj[q]
    BY DEF Destroy, FollowInv, Inv
  <1>2. Objects(t)' = Objects(t) \ {r}
    BY <1>1, NullAssumption DEF Objects, NoObject
  <1>3. \A q \in Objects(t) \ {r} : obj'[q] = obj[q]
    BY <1>1 DEF Objects
  <1>4. ASSUME NEW q \in Objects(t)'
        PROVE  /\ \A x \in Objects(t)' : Len(obj'[x].path) = Len(obj'[q].path) => x = q
               /\ Parent(obj'[q].path) # Root =>
                    \E x \in Objects(t)' : obj'[x].path = Parent(obj'[q].path)
    <2>1. q \in Objects(t) \ {r}
      BY <1>2
    <2>2. \A x \in Objects(t)' : Len(obj'[x].path) = Len(obj'[q].path) => x = q
      BY <1>2, <1>3, <2>1 DEF Nested
    <2>3. ASSUME Parent(obj[q].path) # Root
          PROVE  \E x \in Objects(t) \ {r} : obj[x].path = Parent(obj[q].path)
      <3>1. PICK x \in Objects(t) : obj[x].path = Parent(obj[q].path)
        BY <2>1, <2>3 DEF Nested
      <3>2. Len(obj[x].path) = Len(obj[q].path) - 1 /\ Len(obj[q].path) \in Nat
        BY <2>1, <3>1, ObjectPath DEF FollowInv
      <3>3. Len(obj[q].path) <= Len(obj[r].path)
        BY <2>1, ObjectPath DEF Innermost, FollowInv
      <3>4. x # r
        BY <2>1, <3>2, <3>3
      <3>5. QED BY <3>1, <3>4
    <2>4. QED BY <1>2, <1>3, <2>1, <2>2, <2>3
  <1>5. Nested(t)'
    BY <1>4 DEF Nested
  <1>6. ASSUME NEW q \in Objects(t)'
        PROVE  /\ q \in Objects(t) /\ Len(obj'[q].path) \in Nat
               /\ obj'[q].path # Root /\ Len(obj'[q].path) >= 1
               /\ Len(obj'[q].path) <= Len(obj[r].path) - 1
    <2>1. q \in Objects(t) \ {r} /\ obj'[q] = obj[q]
      BY <1>2, <1>3
    <2>2. /\ obj[q].path # Root /\ obj[q].path \in Node /\ Len(obj[q].path) \in Nat
          /\ Len(obj[r].path) \in Nat
      BY <2>1, ObjectPath DEF FollowInv
    <2>3. Len(obj[q].path) >= 1
      BY <2>2 DEF Root, Node
    <2>4. Len(obj[q].path) <= Len(obj[r].path)
      BY <2>1, ObjectPath DEF Innermost, FollowInv
    <2>5. Len(obj[q].path) # Len(obj[r].path)
      BY <2>1 DEF Nested
    <2>6. QED BY <2>1, <2>2, <2>3, <2>4, <2>5
  <1>7. /\ Parent(obj[r].path) \in Node /\ Len(obj[r].path) \in Nat
        /\ Len(Parent(obj[r].path)) = Len(obj[r].path) - 1
    BY ObjectPath DEF FollowInv
  <1>8. OpenPath(t)' = Parent(obj[r].path)
    <2>1. PathsInnermost'
      BY OpenPathsAfter
    <2>2. CASE Parent(obj[r].path) = Root
      <3>1. Len(Parent(obj[r].path)) = 0
        BY <2>2 DEF Root
      <3>2. Objects(t)' = {}
        BY <1>6, <1>7, <3>1
      <3>3. QED BY <1>5, <2>1, <2>2, <3>2 DEF PathsInnermost
    <2>3. CASE Parent(obj[r].path) # Root
      <3>1. PICK x \in Objects(t) : obj[x].path = Parent(obj[r].path)
        BY <2>3 DEF Nested
      <3>2. x # r /\ x \in Objects(t)' /\ obj'[x].path = Parent(obj[r].path)
        BY <1>2, <1>3, <1>7, <3>1
      <3>3. obj'[x].thread = t
        BY <3>2 DEF Objects
      <3>4. Innermost(x)'
        BY <1>6, <1>7, <3>2, <3>3 DEF Innermost
      <3>5. QED BY <1>5, <2>1, <3>2, <3>4 DEF PathsInnermost
    <2>4. QED BY <2>2, <2>3
  <1>9. OpenPath(t) = obj[r].path
    BY OpenPathIsInnermost DEF FollowInv
  <1>10. QED BY <1>5, <1>8, <1>9

\* A constructor keeps what the service follows.
LEMMA ConstructKeepsFollowInv ==
  ASSUME FollowInv, NEW t \in Threads, NEW r \in Records, NEW name \in Names,
         Construct(r, t, name)
  PROVE  FollowInv'
  <1>1. PICK path, m : /\ path = Append(OpenPath(t), name)
                       /\ m = [type |-> "eEntry", from |-> t, path |-> path]
    OBVIOUS
  <1>2. Inv'
    BY ConstructKeepsInv DEF FollowInv
  <1>3. /\ Nested(t) => Nested(t)' /\ OpenPath(t)' = path
        /\ r \in Objects(t)'
        /\ \A u \in Threads \ {t} : Objects(u)' = Objects(u)
        /\ \A u \in Threads : \A q \in Objects(u) : obj'[q] = obj[q]
    BY <1>1, <1>2, ConstructPaths
  <1>4. SendMessage(t, "eEntry", path) /\ UNCHANGED <<queue, service, astray>>
    BY <1>1 DEF Construct
  <1>5. path \in Node /\ Parent(path) = OpenPath(t)
    <2>1. OpenPath(t) \in Node
      BY OpenPathType DEF FollowInv
    <2>2. QED BY <1>1, <2>1 DEF Node, Parent
  <1>6. ASSUME astray'[Pid(t)] # "yes"
        PROVE  /\ Nested(t)' /\ Fits(m, t, OpenPath(t))
               /\ After(m, t, OpenPath(t)) = OpenPath(t)'
    <2>1. Nested(t)
      BY <1>4, <1>6 DEF FollowInv, CallsNested
    <2>2. QED BY <1>1, <1>3, <1>5, <2>1 DEF Fits, After
  <1>7. "eEntry" \in MessageType
    BY DEF MessageType
  <1>8. /\ \A q \in Procs : astray'[q] # "yes" => astray'[q] = astray[q]
        /\ \A u \in Threads \ {t} : ObjectsKept(u)
        /\ \A u \in Threads \ {t} : \A q \in Objects(u) \cap Objects(u)' : obj'[q] = obj[q]
        /\ Objects(t)' # {}
    BY <1>3, <1>4 DEF ObjectsKept
  <1>9. QED BY <1>1, <1>2, <1>4, <1>5, <1>6, <1>7, <1>8, SendKeepsFollowInv

\* So does a destructor: its process goes astray, or it closes the innermost
\* call of its thread.
LEMMA DestroyKeepsFollowInv ==
  ASSUME FollowInv, NEW t \in Threads, NEW r \in Records, Destroy(r, t)
  PROVE  FollowInv'
  <1>1. PICK m : m = [type |-> "eExit", from |-> t, path |-> obj[r].path]
    OBVIOUS
  <1>2. Inv'
    BY DestroyKeepsInv DEF FollowInv
  <1>3. /\ SendMessage(t, "eExit", obj[r].path) /\ UNCHANGED <<queue, service>>
        /\ obj[r] # NoObject /\ Pid(obj[r].thread) = Pid(t) /\ sending[obj[r].thread] = Null
        /\ GoAstrayIf(Pid(t), obj[r].thread # t \/ ~Innermost(r))
    BY DEF Destroy
  <1>4. obj[r].path \in Node /\ "eExit" \in MessageType
    BY <1>3 DEF FollowInv, Inv, MessageType
  <1>5. /\ \A q \in Procs : astray'[q] # "yes" => astray'[q] = astray[q]
        /\ astray'[Pid(t)] # "yes" => obj[r].thread = t /\ Innermost(r)
    BY <1>3, AstrayType, PidType DEF FollowInv
  <1>6. \A q \in Records : obj'[q] = IF q = r THEN NoObject ELSE obj[q]
    BY DEF Destroy, FollowInv, Inv
  <1>7. ASSUME NEW u \in Threads, u # t
        PROVE  ObjectsKept(u)
    <2>1. CASE obj[r].thread = u
      BY <1>3, <1>5, <1>7, <2>1 DEF ObjectsKept
    <2>2. CASE obj[r].thread # u
      <3>1. obj'[r].thread # u
        BY <1>6, NullAssumption DEF NoObject
      <3>2. \A q \in Records : obj'[q].thread = u <=> obj[q].thread = u
        BY <1>6, <2>2, <3>1
      <3>3. QED BY <3>2 DEF Objects, ObjectsKept
    <2>3. QED BY <2>1, <2>2
  <1>8. \A u \in Threads \ {t} : \A q \in Objects(u) \cap Objects(u)' : obj'[q] = obj[q]
    BY <1>6, NullAssumption DEF Objects, NoObject
  <1>9. ASSUME astray'[Pid(t)] # "yes"
        PROVE  /\ Nested(t)' /\ Fits(m, t, OpenPath(t))
               /\ After(m, t, OpenPath(t)) = OpenPath(t)'
    <2>1. r \in Objects(t) /\ Innermost(r)
      BY <1>5, <1>9 DEF Objects
    <2>2. Nested(t)
      BY <1>5, <1>9, PidType DEF FollowInv, CallsNested
    <2>3. Nested(t)' /\ OpenPath(t) = obj[r].path /\ OpenPath(t)' = Parent(obj[r].path)
      BY <1>2, <2>1, <2>2, DestroyPaths
    <2>4. QED BY <1>1, <2>3 DEF Fits, After
  <1>10. QED BY <1>1, <1>2, <1>3, <1>4, <1>5, <1>7, <1>8, <1>9, SendKeepsFollowInv

\* A message that opens and closes no call.
LEMMA OtherSendKeepsFollowInv ==
  ASSUME FollowInv, NEW t \in Threads, NEW type \in MessageType \ {"eEntry", "eExit"},
         NEW path \in Node, SendMessage(t, type, path), Inv',
         UNCHANGED <<obj, queue, service>>,
         \A q \in Procs : astray'[q] # "yes" => astray'[q] = astray[q],
         type \in {"eCloseThread", "eCloseProcess"} =>
           astray'[Pid(t)] = "yes" \/ Objects(t) = {}
  PROVE  FollowInv'
  <1>1. PICK m : m = [type |-> type, from |-> t, path |-> path]
    OBVIOUS
  <1>2. \A u \in Threads : Objects(u)' = Objects(u) /\ OpenPath(u)' = OpenPath(u)
    BY DEF Objects, OpenPath, Innermost
  <1>3. ASSUME astray'[Pid(t)] # "yes"
        PROVE  /\ Nested(t)' /\ Fits(m, t, OpenPath(t))
               /\ After(m, t, OpenPath(t)) = OpenPath(t)'
    <2>1. Nested(t)
      BY <1>3, PidType DEF FollowInv, CallsNested
    <2>2. Nested(t)'
      BY <1>2, <2>1 DEF Nested
    <2>3. type \in {"eCloseThread", "eCloseProcess"} => OpenPath(t) = Root
      BY <1>3, OpenPathType DEF FollowInv
    <2>4. After(m, t, OpenPath(t)) = OpenPath(t)
      BY <1>1, <2>3 DEF After, MessageType
    <2>5. Fits(m, t, OpenPath(t))
      BY <1>1, <2>3 DEF Fits
    <2>6. QED BY <1>2, <2>2, <2>4, <2>5
  <1>4. type # "eEntry" /\ type \in MessageType
    OBVIOUS
  <1>5. /\ \A u \in Threads \ {t} : ObjectsKept(u)
        /\ \A u \in Threads \ {t} : \A q \in Objects(u) \cap Objects(u)' : obj'[q] = obj[q]
    BY <1>2 DEF ObjectsKept
  <1>6. UNCHANGED <<queue, service>>
    OBVIOUS
  <1>7. QED BY <1>1, <1>3, <1>4, <1>5, <1>6, SendKeepsFollowInv

\* A threshold message, and the reports and closes.
LEMMA RequestKeepsFollowInv ==
  ASSUME FollowInv, NEW t \in Threads,
         NEW type \in {"eReportThread", "eReportProcess", "eCloseThread", "eCloseProcess"},
         Request(t, type)
  PROVE  FollowInv'
  <1>1. Inv'
    BY RequestKeepsInv DEF FollowInv
  <1>2. /\ SendMessage(t, type, Root) /\ UNCHANGED <<obj, queue, service>>
        /\ GoAstrayIf(Pid(t), type \in {"eCloseThread", "eCloseProcess"} /\ InCall(t))
    BY DEF Request
  <1>3. Root \in Node /\ type \in MessageType \ {"eEntry", "eExit"}
    BY DEF Root, Node, MessageType
  <1>4. /\ \A q \in Procs : astray'[q] # "yes" => astray'[q] = astray[q]
        /\ astray'[Pid(t)] # "yes" => ~(type \in {"eCloseThread", "eCloseProcess"} /\ InCall(t))
    BY <1>2, AstrayType, PidType DEF FollowInv
  <1>5. type \in {"eCloseThread", "eCloseProcess"} => astray'[Pid(t)] = "yes" \/ Objects(t) = {}
    BY <1>4 DEF InCall
  <1>6. QED BY <1>1, <1>2, <1>3, <1>4, <1>5, OtherSendKeepsFollowInv

\* A message that is lost was one of a call, and the process goes astray, or it
\* would have changed nothing.
LEMMA LoseKeepsFollowInv ==
  ASSUME FollowInv, NEW t \in Threads, LoseMessage(t)
  PROVE  FollowInv'
  <1>1. Inv'
    BY LoseKeepsInv DEF FollowInv
  <1>2. PICK m \in Message : m = sending[t] /\ m # Null
    BY DEF LoseMessage, FollowInv, Inv
  <1>3. /\ UNCHANGED <<obj, queue, service>>
        /\ \A u \in Threads : sending'[u] = IF u = t THEN Null ELSE sending[u]
    BY DEF LoseMessage, FollowInv, Inv
  <1>4. /\ \A q \in Procs : astray'[q] # "yes" => astray'[q] = astray[q]
        /\ astray'[Pid(t)] # "yes" => m.type \notin {"eEntry", "eExit"}
    BY <1>2, AstrayType, PidType DEF FollowInv, LoseMessage
  <1>5. \A u \in Threads : Objects(u)' = Objects(u) /\ OpenPath(u)' = OpenPath(u)
    BY <1>3 DEF Objects, OpenPath, Innermost
  <1>6. SentByThread'
    BY <1>3, <1>5 DEF FollowInv, SentByThread
  <1>7. CallsNested'
    BY <1>3, <1>4, <1>5, PidType DEF FollowInv, CallsNested, Nested
  <1>8. Settled' = Settled /\ \A u \in Threads, c \in Nat : QueueFits(u, c)' = QueueFits(u, c)
    BY <1>3 DEF Settled, QueueFits
  <1>9. ASSUME NEW u \in Threads, CatchesUp(u), astray'[Pid(u)] # "yes" PROVE CatchesUp(u)'
    <2>1. CASE u = t
      <3>1. /\ m.type \in MessageType \ {"eEntry", "eExit"} /\ m.from = t
            /\ Fits(m, t, Shown(Settled, t)) /\ After(m, t, Shown(Settled, t)) = OpenPath(t)
        BY <1>2, <1>4, <1>9, <2>1 DEF CatchesUp, FollowInv, SentByThread, Message, PerfMessage
      <3>2. Shown(Settled, t) = OpenPath(t)
        BY <3>1 DEF Fits, After, MessageType
      <3>3. QED BY <1>3, <1>5, <1>8, <2>1, <3>2 DEF CatchesUp
    <2>2. CASE u # t
      BY <1>3, <1>5, <1>8, <1>9, <2>2 DEF CatchesUp
    <2>3. QED BY <2>1, <2>2
  <1>10. ASSUME NEW p \in Procs
         PROVE  /\ astray'[p] # "yes" => \A u \in ThreadsOf(p) : CatchesUp(u)'
                /\ astray'[p] = "no" => \A u \in ThreadsOf(p) : QueueFits(u, 0)'
                /\ astray'[p] = "closing" => \E c \in 1..Len(queue) : FitsOnceClosed(p, c)'
    <2>1. \A u \in ThreadsOf(p) : u \in Threads /\ Pid(u) = p
      BY DEF ThreadsOf
    <2>2. \A c \in 1..Len(queue) : FitsOnceClosed(p, c) => FitsOnceClosed(p, c)'
      BY <1>3, <1>8, <2>1 DEF FitsOnceClosed
    <2>3. QED BY <1>4, <1>8, <1>9, <2>1, <2>2 DEF FollowInv, Follows
  <1>11. Follows'
    BY <1>3, <1>10 DEF Follows
  <1>12. QED BY <1>1, <1>6, <1>7, <1>11 DEF FollowInv

\* A thread whose call of mq_send returns still catches up.
LEMMA EnqueueKeepsFollows ==
  ASSUME FollowInv, NEW t \in Threads, Enqueue(t)
  PROVE  Follows'
  <1>1. PICK m \in Message : m = sending[t] /\ m # Null
    BY DEF Enqueue, FollowInv, Inv
  <1>2. PICK n \in Nat : n = Len(queue)
    BY DEF FollowInv, Inv
  <1>3. /\ queue \in Seq(Message) /\ queue' = Append(queue, m) /\ service' = service /\ obj' = obj
        /\ \A u \in Threads : sending'[u] = IF u = t THEN Null ELSE sending[u]
    BY <1>1 DEF Enqueue, FollowInv, Inv
  <1>4. /\ Len(queue') = n + 1 /\ queue'[n + 1] = m
        /\ \A k \in 1..n : queue'[k] = queue[k]
    BY <1>2, <1>3, AppendSeq
  <1>5. /\ \A k \in 0..n : Replay(service, queue)[k] = Replay(service', queue')[k]
        /\ Replay(service', queue')[n] = Settled
        /\ Settled' = HandleMessage(Settled, m)
    BY <1>2, <1>3, <1>4, ReplayAppend DEF Settled
  <1>6. \A u \in Threads : OpenPath(u)' = OpenPath(u)
    BY <1>3 DEF OpenPath, Objects, Innermost
  <1>7. m.from = t /\ Consistent(Settled)
    BY <1>1, SettledConsistent DEF FollowInv, SentByThread, Enqueue
  <1>8. ASSUME NEW u \in Threads, CatchesUp(u)
        PROVE  Fits(m, u, Shown(Settled, u))
    BY <1>1, <1>7, <1>8 DEF CatchesUp, Fits
  <1>9. ASSUME NEW u \in Threads, NEW c \in 0..n, QueueFits(u, c), CatchesUp(u)
        PROVE  QueueFits(u, c)'
    <2>1. \A k \in c..(n - 1) : Fits(queue[k + 1], u, Shown(Replay(service, queue)[k], u))
      BY <1>2, <1>9 DEF QueueFits
    <2>2. ASSUME NEW k \in c..n
          PROVE  Fits(queue'[k + 1], u, Shown(Replay(service', queue')[k], u))
      <3>1. CASE k = n
        BY <1>4, <1>5, <1>8, <1>9, <3>1
      <3>2. CASE k # n
        <4>1. k \in c..(n - 1) /\ k + 1 \in 1..n /\ k \in 0..n
          BY <3>2
        <4>2. QED BY <1>4, <1>5, <2>1, <4>1
      <3>3. QED BY <3>1, <3>2
    <2>3. QED BY <1>4, <2>2 DEF QueueFits
  <1>10. ASSUME NEW u \in Threads, m.type = "eCloseProcess", Pid(u) = Pid(t), ~InCall(u)
         PROVE  CatchesUp(u)'
    <2>1. Shown(Settled', u) = Root
      BY <1>5, <1>7, <1>10, CloseProcessEffect DEF HandleMessage
    <2>2. OpenPath(u)' = Root
      BY <1>6, <1>10, OpenPathType DEF FollowInv, InCall
    <2>3. CASE sending'[u] = Null
      BY <2>1, <2>2, <2>3 DEF CatchesUp
    <2>4. CASE sending'[u] # Null
      <3>1. sending'[u] = sending[u] /\ sending[u] # Null
        BY <1>3, <2>4
      <3>2. sending[u].type \in MessageType \ {"eEntry", "eExit"}
        BY <1>10, <3>1 DEF FollowInv, SentByThread, Inv, InCall, Message, PerfMessage
      <3>3. Fits(sending[u], u, Root) /\ After(sending[u], u, Root) = Root
        BY <3>2 DEF Fits, After, MessageType
      <3>4. QED BY <2>1, <2>2, <2>4, <3>1, <3>3 DEF CatchesUp
    <2>5. QED BY <2>3, <2>4
  <1>11. ASSUME NEW u \in Threads, CatchesUp(u),
                m.type = "eCloseProcess" /\ Pid(u) = Pid(t) => ~InCall(u)
         PROVE  CatchesUp(u)'
    <2>1. Shown(Settled', u) = After(m, u, Shown(Settled, u))
      BY <1>5, <1>7, <1>8, <1>11, HandleMessageEffect
    <2>2. CASE u = t
      BY <1>1, <1>3, <1>6, <1>11, <2>1, <2>2 DEF CatchesUp
    <2>3. CASE u # t /\ m.type = "eCloseProcess" /\ Pid(u) = Pid(t)
      BY <1>10, <1>11, <2>3
    <2>4. CASE u # t /\ ~(m.type = "eCloseProcess" /\ Pid(u) = Pid(t))
      <3>1. Shown(Settled', u) = Shown(Settled, u)
        BY <1>7, <2>1, <2>4 DEF After
      <3>2. sending'[u] = sending[u]
        BY <1>3, <2>4
      <3>3. QED BY <1>6, <1>11, <3>1, <3>2 DEF CatchesUp
    <2>5. QED BY <2>2, <2>3, <2>4
  <1>12. ASSUME NEW p \in Procs, astray'[p] # "yes"
         PROVE  /\ \/ astray'[p] = astray[p]
                   \/ astray'[p] = "closing" /\ p = Pid(t) /\ m.type = "eCloseProcess"
                /\ m.type = "eCloseProcess" /\ p = Pid(t) => \A u \in ThreadsOf(p) : ~InCall(u)
    <2>1. astray' = IF m.type # "eCloseProcess" THEN astray
                    ELSE IF \E u \in Siblings(t) : InCall(u) THEN [astray EXCEPT ![Pid(t)] = "yes"]
                    ELSE [astray EXCEPT ![Pid(t)] = IF @ = "yes" THEN "closing" ELSE @]
      BY <1>1 DEF Enqueue, Straighten
    <2>2. Siblings(t) = ThreadsOf(Pid(t))
      BY DEF Siblings, ThreadsOf
    <2>3. Pid(t) \in Procs /\ astray \in [Procs -> {"no", "yes", "closing"}]
      BY PidType DEF FollowInv, Inv
    <2>4. CASE m.type # "eCloseProcess"
      BY <2>1, <2>4
    <2>5. CASE m.type = "eCloseProcess" /\ \E u \in Siblings(t) : InCall(u)
      BY <1>12, <2>1, <2>3, <2>5
    <2>6. CASE m.type = "eCloseProcess" /\ ~\E u \in Siblings(t) : InCall(u)
      BY <2>1, <2>2, <2>3, <2>6
    <2>7. QED BY <2>4, <2>5, <2>6
  <1>13. ASSUME NEW p \in Procs
         PROVE  /\ astray'[p] # "yes" => \A u \in ThreadsOf(p) : CatchesUp(u)'
                /\ astray'[p] = "no" => \A u \in ThreadsOf(p) : QueueFits(u, 0)'
                /\ astray'[p] = "closing" => \E c \in 1..Len(queue') : FitsOnceClosed(p, c)'
    <2>1. \A u \in ThreadsOf(p) : u \in Threads /\ Pid(u) = p
      BY DEF ThreadsOf
    <2>2. CASE astray'[p] = astray[p]
      <3>1. astray[p] # "yes" => \A u \in ThreadsOf(p) : CatchesUp(u) /\ CatchesUp(u)'
        BY <1>11, <1>12, <2>1, <2>2 DEF FollowInv, Follows
      <3>2. astray[p] = "no" => \A u \in ThreadsOf(p) : QueueFits(u, 0)'
        BY <1>9, <2>1, <3>1 DEF FollowInv, Follows
      <3>3. ASSUME astray[p] = "closing"
            PROVE  \E c \in 1..Len(queue') : FitsOnceClosed(p, c)'
        <4>1. PICK c \in 1..n : FitsOnceClosed(p, c)
          BY <1>2, <3>3 DEF FollowInv, Follows
        <4>2. \A u \in ThreadsOf(p) : QueueFits(u, c)'
          BY <1>9, <2>1, <3>1, <3>3, <4>1 DEF FitsOnceClosed
        <4>3. c \in 1..Len(queue') /\ queue'[c] = queue[c]
          BY <1>4
        <4>4. QED BY <4>1, <4>2, <4>3 DEF FitsOnceClosed
      <3>4. QED BY <2>2, <3>1, <3>2, <3>3
    <2>3. CASE astray'[p] = "closing" /\ p = Pid(t) /\ m.type = "eCloseProcess"
      <3>1. \A u \in ThreadsOf(p) : CatchesUp(u)'
        BY <1>10, <1>12, <2>1, <2>3
      <3>2. \A u \in ThreadsOf(p) : QueueFits(u, n + 1)'
        BY <1>4 DEF QueueFits
      <3>3. n + 1 \in 1..Len(queue') /\ FitsOnceClosed(p, n + 1)'
        BY <1>4, <1>7, <2>3, <3>2 DEF FitsOnceClosed
      <3>4. QED BY <2>3, <3>1, <3>3
    <2>4. CASE astray'[p] = "yes"
      BY <2>4
    <2>5. QED BY <1>12, <2>2, <2>3, <2>4
  <1>14. QED BY <1>13 DEF Follows

\* A message that enters the queue keeps what the service follows.
LEMMA EnqueueKeepsFollowInv ==
  ASSUME FollowInv, NEW t \in Threads, Enqueue(t)
  PROVE  FollowInv'
  <1>1. /\ obj' = obj
        /\ \A u \in Threads : sending'[u] = IF u = t THEN Null ELSE sending[u]
    BY DEF Enqueue, FollowInv, Inv
  <1>2. \A u \in Threads : Objects(u)' = Objects(u) /\ Nested(u)' = Nested(u)
    BY <1>1 DEF Objects, Nested
  <1>3. ASSUME NEW u \in Threads, astray'[Pid(u)] # "yes" PROVE Nested(u)'
    <2>1. CASE astray[Pid(u)] # "yes"
      BY <1>2, <2>1 DEF FollowInv, CallsNested
    <2>2. CASE astray[Pid(u)] = "yes"
      <3>1. Pid(u) = Pid(t) /\ ~\E v \in Siblings(t) : InCall(v)
        BY <1>3, <2>2, PidType DEF Enqueue, Straighten, FollowInv, Inv
      <3>2. Objects(u) = {}
        BY <3>1 DEF Siblings, InCall
      <3>3. QED BY <1>2, <3>2 DEF Nested
    <2>3. QED BY <2>1, <2>2
  <1>4. CallsNested'
    BY <1>3 DEF CallsNested
  <1>5. SentByThread'
    BY <1>1, <1>2 DEF FollowInv, SentByThread
  <1>6. QED BY <1>4, <1>5, EnqueueKeepsInv, EnqueueKeepsFollows DEF FollowInv

\* The service handles the first message, and the rest still fits.
LEMMA RunLoopKeepsFollows ==
  ASSUME FollowInv, RunLoop
  PROVE  Follows'
  <1>1. PICK n \in Nat : n = Len(queue) /\ n >= 1
    BY DEF FollowInv, Inv, RunLoop
  <1>2. /\ queue \in Seq(Message) /\ queue # <<>>
        /\ queue' = Tail(queue) /\ service' = HandleMessage(service, Head(queue))
        /\ obj' = obj /\ sending' = sending
    BY DEF RunLoop, FollowInv, Inv
  <1>3. Len(queue') = n - 1 /\ \A k \in 1..(n - 1) : queue'[k] = queue[k + 1]
    BY <1>1, <1>2
  <1>4. \A k \in 0..(n - 1) : Replay(service', queue')[k] = Replay(service, queue)[k + 1]
    BY <1>1, <1>2, ReplayTail
  <1>5. Settled' = Settled
    <2>1. n - 1 \in 0..(n - 1) /\ (n - 1) + 1 = n
      BY <1>1
    <2>2. QED BY <1>1, <1>3, <1>4, <2>1 DEF Settled
  <1>6. \A u \in Threads : CatchesUp(u) => CatchesUp(u)'
    BY <1>2, <1>5 DEF CatchesUp, OpenPath, Objects, Innermost
  <1>7. ASSUME NEW u \in Threads, NEW c \in Nat, QueueFits(u, c + 1)
        PROVE  \A d \in Nat : d >= c => QueueFits(u, d)'
    <2>1. \A k \in (c + 1)..(n - 1) : Fits(queue[k + 1], u, Shown(Replay(service, queue)[k], u))
      BY <1>1, <1>7 DEF QueueFits
    <2>2. ASSUME NEW k \in c..(n - 2)
          PROVE  Fits(queue'[k + 1], u, Shown(Replay(service', queue')[k], u))
      <3>1. /\ k + 1 \in (c + 1)..(n - 1) /\ k + 1 \in 1..(n - 1) /\ k \in 0..(n - 1)
        OBVIOUS
      <3>2. QED BY <1>3, <1>4, <2>1, <3>1
    <2>3. ASSUME NEW d \in Nat, d >= c PROVE QueueFits(u, d)'
      <3>1. (n - 1) - 1 = n - 2 /\ \A k \in d..(n - 2) : k \in c..(n - 2)
        BY <2>3
      <3>2. QED BY <1>3, <2>2, <3>1 DEF QueueFits
    <2>4. QED BY <2>3
  <1>8. ASSUME NEW u \in Threads, QueueFits(u, 0) PROVE QueueFits(u, 0)'
    <2>1. QueueFits(u, 0 + 1)
      BY <1>1, <1>8 DEF QueueFits
    <2>2. QED BY <1>7, <2>1
  <1>9. ASSUME NEW p \in Procs
        PROVE  astray'[p] = IF astray[p] = "closing" /\ ~ClosesProcess(p, queue')
                             THEN "no" ELSE astray[p]
    BY DEF RunLoop
  <1>10. ASSUME NEW p \in Procs, astray[p] = "closing"
         PROVE  /\ ~ClosesProcess(p, queue') => \A u \in ThreadsOf(p) : QueueFits(u, 0)'
                /\ ClosesProcess(p, queue') =>
                     \E c \in 1..Len(queue') : FitsOnceClosed(p, c)'
    <2>1. PICK c \in 1..n : FitsOnceClosed(p, c)
      BY <1>1, <1>10 DEF FollowInv, Follows
    <2>2. \A u \in ThreadsOf(p) : u \in Threads /\ QueueFits(u, (c - 1) + 1)
      BY <2>1 DEF FitsOnceClosed, ThreadsOf
    <2>3. \A u \in ThreadsOf(p) : \A d \in Nat : d >= c - 1 => QueueFits(u, d)'
      <3>1. c - 1 \in Nat
        OBVIOUS
      <3>2. QED BY <1>7, <2>2, <3>1
    <2>4. CASE c = 1
      <3>1. \A u \in ThreadsOf(p) : \A d \in Nat : QueueFits(u, d)'
        BY <2>3, <2>4
      <3>2. ASSUME ClosesProcess(p, queue') PROVE \E i \in 1..Len(queue') : FitsOnceClosed(p, i)'
        <4>1. PICK i \in DOMAIN queue' : queue'[i].type = "eCloseProcess" /\ Pid(queue'[i].from) = p
          BY <3>2 DEF ClosesProcess
        <4>2. i \in 1..Len(queue') /\ i \in Nat
          BY <1>2, <4>1
        <4>3. QED BY <3>1, <4>1, <4>2 DEF FitsOnceClosed
      <3>3. QED BY <3>1, <3>2
    <2>5. CASE c # 1
      <3>1. c - 1 \in 1..Len(queue') /\ c - 1 \in DOMAIN queue' /\ queue'[c - 1] = queue[c]
        <4>1. c - 1 \in 1..(n - 1) /\ (c - 1) + 1 = c
          BY <2>5
        <4>2. DOMAIN queue' = 1..Len(queue')
          BY <1>2
        <4>3. QED BY <1>3, <4>1, <4>2
      <3>2. ClosesProcess(p, queue')
        BY <2>1, <3>1 DEF ClosesProcess, FitsOnceClosed
      <3>3. FitsOnceClosed(p, c - 1)'
        BY <2>1, <2>3, <3>1 DEF FitsOnceClosed
      <3>4. QED BY <3>1, <3>2, <3>3
    <2>6. QED BY <2>4, <2>5
  <1>11. ASSUME NEW p \in Procs
         PROVE  /\ astray'[p] # "yes" => \A u \in ThreadsOf(p) : CatchesUp(u)'
                /\ astray'[p] = "no" => \A u \in ThreadsOf(p) : QueueFits(u, 0)'
                /\ astray'[p] = "closing" => \E c \in 1..Len(queue') : FitsOnceClosed(p, c)'
    <2>1. \A u \in ThreadsOf(p) : u \in Threads
      BY DEF ThreadsOf
    <2>2. astray'[p] # "yes" => \A u \in ThreadsOf(p) : CatchesUp(u)'
      BY <1>6, <1>9, <2>1 DEF FollowInv, Follows
    <2>3. astray'[p] = "no" => \A u \in ThreadsOf(p) : QueueFits(u, 0)'
      BY <1>8, <1>9, <1>10, <2>1 DEF FollowInv, Follows
    <2>4. astray'[p] = "closing" => \E c \in 1..Len(queue') : FitsOnceClosed(p, c)'
      BY <1>9, <1>10
    <2>5. QED BY <2>2, <2>3, <2>4
  <1>12. QED BY <1>11 DEF Follows

\* The service keeps what it follows.
LEMMA RunLoopKeepsFollowInv ==
  ASSUME FollowInv, RunLoop
  PROVE  FollowInv'
  <1>1. obj' = obj /\ sending' = sending
    BY DEF RunLoop
  <1>2. \A t \in Threads : Objects(t)' = Objects(t) /\ Nested(t)' = Nested(t)
    BY <1>1 DEF Objects, Nested
  <1>3. \A p \in Procs : astray'[p] # "yes" => astray[p] # "yes"
    BY DEF RunLoop
  <1>4. CallsNested'
    BY <1>2, <1>3, PidType DEF FollowInv, CallsNested
  <1>5. SentByThread'
    BY <1>1, <1>2 DEF FollowInv, SentByThread
  <1>6. QED BY <1>4, <1>5, RunLoopKeepsInv, RunLoopKeepsFollows DEF FollowInv

\* A process that dies in no call leaves nothing that the service waits for.
LEMMA TerminateKeepsFollowInv ==
  ASSUME FollowInv, NEW p \in Procs, PerfModuleTerminate(p)
  PROVE  FollowInv'
  <1>1. Inv'
    BY TerminateKeepsInv DEF FollowInv
  <1>2. /\ \A r \in Records : obj'[r] = IF \E i \in Tids : obj[r].thread = <<p, i>>
                                      THEN NoObject ELSE obj[r]
        /\ \A t \in Threads : sending'[t] = IF Pid(t) = p THEN Null ELSE sending[t]
        /\ queue' = queue /\ service' = service
    BY DEF PerfModuleTerminate
  <1>3. ASSUME NEW t \in Threads
        PROVE  /\ Pid(t) = p => Objects(t)' = {}
               /\ Pid(t) # p => Objects(t)' = Objects(t) /\ \A r \in Objects(t) : obj'[r] = obj[r]
    <2>1. Pid(t) = p <=> \E i \in Tids : t = <<p, i>>
      BY DEF Threads, Pid
    <2>2. \A r \in Records : obj'[r].thread = t => obj'[r] = obj[r] /\ Pid(t) # p
      BY <1>2, <2>1, NullAssumption DEF NoObject
    <2>3. \A r \in Records : obj[r].thread = t /\ Pid(t) # p => obj'[r] = obj[r]
      BY <1>2, <2>1
    <2>4. QED BY <2>2, <2>3 DEF Objects
  <1>4. ASSUME NEW q \in Procs, astray'[q] # "yes"
        PROVE  astray'[q] = astray[q] /\ (q = p => \A t \in ThreadsOf(p) : ~InCall(t))
    <2>1. \A t \in ThreadsOf(p) : \E i \in Tids : t = <<p, i>>
      BY DEF ThreadsOf, Threads, Pid
    <2>2. GoAstrayIf(p, \E i \in Tids : InCall(<<p, i>>))
      BY DEF PerfModuleTerminate
    <2>3. /\ astray'[q] = astray[q]
          /\ q = p => ~\E i \in Tids : InCall(<<p, i>>)
      BY <1>4, <2>2, AstrayType DEF FollowInv
    <2>4. QED BY <2>1, <2>3
  <1>5. ASSUME NEW t \in Threads, Nested(t) \/ Pid(t) = p
        PROVE  Nested(t)' /\ (Pid(t) # p => OpenPath(t)' = OpenPath(t))
    <2>1. CASE Pid(t) = p
      BY <1>3, <2>1 DEF Nested
    <2>2. CASE Pid(t) # p
      BY <1>1, <1>3, <1>5, <2>2, UntouchedPath DEF FollowInv
    <2>3. QED BY <2>1, <2>2
  <1>6. CallsNested'
    BY <1>4, <1>5, PidType DEF FollowInv, CallsNested
  <1>7. SentByThread'
    BY <1>2, <1>3 DEF FollowInv, SentByThread
  <1>8. Settled' = Settled /\ \A t \in Threads, c \in Nat : QueueFits(t, c)' = QueueFits(t, c)
    BY <1>2 DEF Settled, QueueFits
  <1>9. ASSUME NEW t \in Threads, CatchesUp(t), astray'[Pid(t)] # "yes"
        PROVE  CatchesUp(t)'
    <2>1. CASE Pid(t) = p
      <3>1. Objects(t) = {} /\ (sending[t] # Null => sending[t].type \notin {"eEntry", "eExit"})
        BY <1>4, <1>9, <2>1, PidType DEF InCall, ThreadsOf, FollowInv, SentByThread
      <3>2. OpenPath(t) = Root
        BY <3>1, OpenPathType DEF FollowInv
      <3>3. Shown(Settled, t) = Root
        <4>1. CASE sending[t] = Null
          BY <1>9, <3>2, <4>1 DEF CatchesUp
        <4>2. CASE sending[t] # Null
          <5>1. /\ sending[t] \in Message /\ sending[t].from = t
                /\ Fits(sending[t], t, Shown(Settled, t))
                /\ After(sending[t], t, Shown(Settled, t)) = Root
            BY <1>9, <3>2, <4>2 DEF CatchesUp, FollowInv, SentByThread, Inv
          <5>2. QED BY <3>1, <4>2, <5>1 DEF After, Fits, Message, PerfMessage, MessageType
        <4>3. QED BY <4>1, <4>2
      <3>4. OpenPath(t)' = Root
        BY <1>1, <1>3, <1>5, <2>1, OpenPathsAfter DEF PathsInnermost
      <3>5. QED BY <1>2, <1>8, <2>1, <3>3, <3>4 DEF CatchesUp
    <2>2. CASE Pid(t) # p
      <3>1. OpenPath(t)' = OpenPath(t)
        BY <1>4, <1>5, <1>9, <2>2, PidType DEF FollowInv, CallsNested
      <3>2. QED BY <1>2, <1>8, <1>9, <2>2, <3>1 DEF CatchesUp
    <2>3. QED BY <2>1, <2>2
  <1>10. ASSUME NEW q \in Procs
         PROVE  /\ astray'[q] # "yes" => \A u \in ThreadsOf(q) : CatchesUp(u)'
                /\ astray'[q] = "no" => \A u \in ThreadsOf(q) : QueueFits(u, 0)'
                /\ astray'[q] = "closing" => \E c \in 1..Len(queue') : FitsOnceClosed(q, c)'
    <2>1. \A u \in ThreadsOf(q) : u \in Threads /\ Pid(u) = q
      BY DEF ThreadsOf
    <2>2. astray'[q] # "yes" => \A u \in ThreadsOf(q) : CatchesUp(u)'
      BY <1>4, <1>9, <2>1 DEF FollowInv, Follows, ThreadsOf
    <2>3. astray'[q] = "no" => \A u \in ThreadsOf(q) : QueueFits(u, 0)'
      BY <1>4, <1>8, <2>1 DEF FollowInv, Follows
    <2>4. \A c \in 1..Len(queue) : FitsOnceClosed(q, c) => FitsOnceClosed(q, c)'
      BY <1>2, <1>8, <2>1 DEF FitsOnceClosed
    <2>5. astray'[q] = "closing" => \E c \in 1..Len(queue') : FitsOnceClosed(q, c)'
      BY <1>2, <1>4, <2>4 DEF FollowInv, Follows
    <2>6. QED BY <2>2, <2>3, <2>5
  <1>11. Follows'
    BY <1>2, <1>10 DEF Follows
  <1>12. QED BY <1>1, <1>6, <1>7, <1>11 DEF FollowInv

\* There is nothing to follow at the start.
LEMMA InitFollowInv == Init => FollowInv
  <1>1. SUFFICES ASSUME Init PROVE FollowInv
    OBVIOUS
  <1>2. Inv
    BY <1>1, InitInv
  <1>3. \A t \in Threads : Objects(t) = {} /\ sending[t] = Null
    BY <1>1, NullAssumption DEF Init, Objects, NoObject
  <1>4. CallsNested /\ SentByThread
    BY <1>3 DEF CallsNested, Nested, SentByThread
  <1>5. Len(queue) = 0 /\ Len(queue) \in Nat
    BY <1>1 DEF Init
  <1>6. Settled = service
    BY <1>5, ReplaySteps DEF Settled
  <1>7. \A t \in Threads : QueueFits(t, 0)
    BY <1>5 DEF QueueFits
  <1>8. \A t \in Threads : Shown(service, t) = Root /\ OpenPath(t) = Root
    BY <1>1, <1>2, <1>3, OpenPathType DEF Init, Shown
  <1>9. \A t \in Threads : CatchesUp(t)
    BY <1>3, <1>6, <1>8 DEF CatchesUp
  <1>10. \A p \in Procs : astray[p] = "no"
    BY <1>1 DEF Init
  <1>11. Follows
    BY <1>7, <1>9, <1>10 DEF Follows, ThreadsOf
  <1>12. QED BY <1>2, <1>4, <1>11 DEF FollowInv

\* What the service follows is inductive.
LEMMA NextFollowInv ==
  ASSUME FollowInv, [Next]_vars
  PROVE  FollowInv'
  <1>1. CASE RunLoop
    BY <1>1, RunLoopKeepsFollowInv
  <1>2. ASSUME NEW t \in Threads, Enqueue(t) \/ LoseMessage(t) PROVE FollowInv'
    BY <1>2, EnqueueKeepsFollowInv, LoseKeepsFollowInv
  <1>3. ASSUME NEW t \in Threads, NEW r \in Records, Destroy(r, t) PROVE FollowInv'
    BY <1>3, DestroyKeepsFollowInv
  <1>4. ASSUME NEW t \in Threads, NEW r \in Records, SetThreshold(r, t) PROVE FollowInv'
    <2>1. Inv'
      BY <1>4, SetThresholdKeepsInv DEF FollowInv
    <2>2. /\ SendMessage(t, "eThreshold", obj[r].path) /\ UNCHANGED <<obj, queue, service, astray>>
          /\ obj[r] # NoObject
      BY <1>4 DEF SetThreshold
    <2>3. obj[r].path \in Node /\ "eThreshold" \in MessageType
      BY <2>2 DEF FollowInv, Inv, MessageType
    <2>4. QED BY <2>1, <2>2, <2>3, OtherSendKeepsFollowInv
  <1>5. ASSUME NEW t \in Threads, NEW r \in Records, NEW name \in Names, Construct(r, t, name)
        PROVE  FollowInv'
    BY <1>5, ConstructKeepsFollowInv
  <1>6. ASSUME NEW t \in Threads,
               \/ ReportProcess(t) \/ CloseProcess(t)
               \/ \E s \in Siblings(t) : ReportThread(t, s) \/ CloseThread(t, s)
        PROVE  FollowInv'
    BY <1>6, RequestKeepsFollowInv DEF ReportProcess, ReportThread, CloseThread, CloseProcess
  <1>7. ASSUME NEW p \in Procs, PerfModuleTerminate(p) PROVE FollowInv'
    BY <1>7, TerminateKeepsFollowInv
  <1>8. CASE UNCHANGED vars
    <2>1. UNCHANGED <<s_pQueue, obj, sending, queue, service, astray>>
      BY <1>8 DEF vars
    <2>2. Inv'
      BY <1>8, NextInv DEF FollowInv
    <2>3. \A t \in Threads : Objects(t)' = Objects(t) /\ OpenPath(t)' = OpenPath(t)
      BY <2>1 DEF Objects, OpenPath, Innermost
    <2>4. CallsNested' /\ SentByThread'
      BY <2>1, <2>3 DEF FollowInv, CallsNested, Nested, SentByThread
    <2>5. Settled' = Settled /\ \A t \in Threads, c \in Nat : QueueFits(t, c)' = QueueFits(t, c)
      BY <2>1 DEF Settled, QueueFits
    <2>6. \A t \in Threads : CatchesUp(t)' = CatchesUp(t)
      BY <2>1, <2>3, <2>5 DEF CatchesUp
    <2>7. \A p \in Procs, c \in 1..Len(queue) : FitsOnceClosed(p, c)' = FitsOnceClosed(p, c)
      BY <2>1, <2>5 DEF FitsOnceClosed, ThreadsOf
    <2>8. Follows'
      BY <2>1, <2>5, <2>6, <2>7 DEF FollowInv, Follows, ThreadsOf
    <2>9. QED BY <2>2, <2>4, <2>8 DEF FollowInv
  <1>9. QED BY <1>1, <1>2, <1>3, <1>4, <1>5, <1>6, <1>7, <1>8 DEF Next

\* The service follows the calls of every thread of a process that has not gone
\* astray, for any number of processes, threads and objects, any capacity of
\* the queue, and whatever other processes do.
THEOREM FollowInvIsInvariant == Spec => []FollowInv
  <1>1. FollowInv /\ [Next]_vars => FollowInv'
    BY NextFollowInv
  <1>2. QED BY InitFollowInv, <1>1, PTL DEF Spec

\* The exit of a call finds that call on top of the stack of its thread, whatever
\* was reported and closed in between, for every process that has not gone
\* astray: none of its messages lost, none of its calls closed out of order.
THEOREM ExitsFindTheirCalls == Spec => []ExitFindsItsCall
  <1>1. FollowInv => ExitFindsItsCall
    <2>1. SUFFICES ASSUME FollowInv, queue # <<>>, Head(queue).type = "eExit",
                          astray[Pid(Head(queue).from)] = "no"
                   PROVE  LET t == Head(queue).from
                          IN  HasTree(service, t) /\ Top(service.tree[t]) = Head(queue).path
      BY DEF ExitFindsItsCall
    <2>2. PICK m \in Message : m = Head(queue) /\ m = queue[1] /\ Len(queue) \in Nat /\ Len(queue) >= 1
      BY <2>1 DEF FollowInv, Inv
    <2>3. PICK t \in Threads : t = m.from
      BY <2>2 DEF Message, PerfMessage
    <2>4. QueueFits(t, 0)
      BY <2>1, <2>2, <2>3, PidType DEF FollowInv, Follows, ThreadsOf
    <2>5. Fits(m, t, Shown(Replay(service, queue)[0], t))
      <3>1. 0 \in 0..(Len(queue) - 1) /\ 0 + 1 = 1
        BY <2>2
      <3>2. QED BY <2>2, <2>4, <3>1 DEF QueueFits
    <2>6. Shown(service, t) = m.path /\ m.path # Root
      <3>1. Replay(service, queue)[0] = service
        BY <2>2, ReplaySteps
      <3>2. QED BY <2>1, <2>2, <2>3, <2>5, <3>1, NameOfCall DEF Fits, OfCall
    <2>7. HasTree(service, t) /\ Top(service.tree[t]) = m.path
      <3>1. Consistent(service)
        BY <2>1 DEF FollowInv, Inv
      <3>2. QED BY <2>6, <3>1, ServiceTree DEF Shown
    <2>8. QED BY <2>2, <2>3, <2>7
  <1>2. QED BY <1>1, FollowInvIsInvariant, PTL

\* The trees catch up with the calls of such a process: once every message on
\* its way is handled, the stack of a thread is the path of the calls it is in;
\* of a process that went astray, as soon as a close of it that was sent while
\* none of its threads was in a call is in the queue.
THEOREM TreesFollowCalls == Spec => []TreesCatchUp
  <1>1. FollowInv => TreesCatchUp
    <2>1. SUFFICES ASSUME FollowInv, NEW t \in Threads, astray[Pid(t)] # "yes"
                   PROVE  OpenPath(t) = IF SettledTree(t) = EmptyTree THEN Root
                                        ELSE Top(SettledTree(t))
      BY DEF TreesCatchUp
    <2>2. CatchesUp(t)
      BY <2>1, PidType DEF FollowInv, Follows, ThreadsOf
    <2>3. CASE sending[t] = Null
      BY <2>2, <2>3 DEF CatchesUp, SettledTree, Shown
    <2>4. CASE sending[t] # Null
      <3>1. sending[t] \in Message /\ Consistent(Settled)
        BY <2>1, <2>4, SettledConsistent DEF FollowInv, Inv
      <3>2. Shown(HandleMessage(Settled, sending[t]), t) = OpenPath(t)
        BY <2>2, <2>4, <3>1, HandleMessageEffect DEF CatchesUp
      <3>3. QED BY <2>4, <3>2 DEF SettledTree, Shown
    <2>5. QED BY <2>3, <2>4
  <1>2. QED BY <1>1, FollowInvIsInvariant, PTL
=============================================================================
