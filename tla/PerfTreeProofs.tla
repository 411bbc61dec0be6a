--------------------------- MODULE PerfTreeProofs ---------------------------
(***************************************************************************)
(* What each operation of PerfTree does to the stack of open nodes.        *)
(***************************************************************************)
EXTENDS PerfTree, TLAPS, WellFoundedInduction

\* The children of a node are nodes, one level deeper.
LEMMA AddChildType ==
  ASSUME NEW node \in Node, NEW name \in Names
  PROVE  /\ AddChild(node, name) \in Node
         /\ Len(AddChild(node, name)) = Len(node) + 1
         /\ Parent(AddChild(node, name)) = node
  BY DEF AddChild, Node, Parent

\* An empty tree is a tree.
LEMMA EmptyTreeType == EmptyTree \in Tree
  BY DEF EmptyTree, Tree, Node

\* A non-empty sequence has a last element.
LEMMA LastOfSeq ==
  ASSUME NEW S, NEW s \in Seq(S), Len(s) >= 1
  PROVE  Len(s) \in Nat /\ Len(s) \in 1..Len(s) /\ s[Len(s)] \in S
  OBVIOUS

\* The top of a call path is as long as the path below it.
LEMMA TopOfCallPath ==
  ASSUME NEW tree \in Tree, IsCallPath(tree.activeNode)
  PROVE  /\ Len(tree.activeNode) \in Nat
         /\ Top(tree) \in Node
         /\ Len(Top(tree)) = Len(tree.activeNode) - 1
  BY DEF Tree, IsCallPath, Top

\* A sequence grows by one element at its end.
LEMMA AppendSeq ==
  ASSUME NEW S, NEW s \in Seq(S), NEW e \in S
  PROVE  /\ Append(s, e) \in Seq(S)
         /\ Len(s) \in Nat
         /\ Len(Append(s, e)) = Len(s) + 1
         /\ Append(s, e)[Len(s) + 1] = e
         /\ \A i \in 1..Len(s) : Append(s, e)[i] = s[i]
  OBVIOUS

\* A call path with a child of its last node on top is a call path.
LEMMA PushChild ==
  ASSUME NEW stack \in Seq(Node), IsCallPath(stack), NEW node \in Node,
         Len(node) = Len(stack), Parent(node) = stack[Len(stack)]
  PROVE  IsCallPath(Append(stack, node))
  <1>1. PICK pushed : pushed = Append(stack, node)
    OBVIOUS
  <1>2. /\ Len(stack) \in Nat /\ Len(stack) >= 1
        /\ Len(pushed) = Len(stack) + 1
        /\ pushed[Len(stack) + 1] = node
        /\ \A i \in 1..Len(stack) : pushed[i] = stack[i]
    BY <1>1, AppendSeq DEF IsCallPath
  <1>3. ASSUME NEW i \in 1..Len(pushed) PROVE Len(pushed[i]) = i - 1
    <2>1. CASE i = Len(stack) + 1 BY <2>1, <1>2
    <2>2. CASE i \in 1..Len(stack) BY <2>2, <1>2 DEF IsCallPath
    <2>3. QED BY <2>1, <2>2, <1>2
  <1>4. ASSUME NEW i \in 2..Len(pushed) PROVE Parent(pushed[i]) = pushed[i - 1]
    <2>1. CASE i = Len(stack) + 1 BY <2>1, <1>2
    <2>2. CASE i \in 2..Len(stack) BY <2>2, <1>2 DEF IsCallPath
    <2>3. QED BY <2>1, <2>2, <1>2
  <1>5. QED BY <1>1, <1>2, <1>3, <1>4 DEF IsCallPath

\* PerfTree::AddNode makes a call path of an empty stack or extends the one
\* there is by a child of its top, and moves no other node.
LEMMA AddNodeGrows ==
  ASSUME NEW tree \in Tree, NEW name \in Names,
         tree.activeNode = <<>> \/ IsCallPath(tree.activeNode)
  PROVE  LET grown == AddNode(tree, name)
             under == IF tree.activeNode = <<>> THEN <<Root>> ELSE tree.activeNode
         IN  /\ grown \in Tree
             /\ IsCallPath(grown.activeNode)
             /\ grown.activeNode = Append(under, AddChild(under[Len(under)], name))
             /\ Len(grown.activeNode) = Len(under) + 1
             /\ \A i \in 1..Len(under) : grown.activeNode[i] = under[i]
  <1>1. PICK under : under = IF tree.activeNode = <<>> THEN <<Root>> ELSE tree.activeNode
    OBVIOUS
  <1>2. under \in Seq(Node) /\ IsCallPath(under)
    <2>1. CASE tree.activeNode = <<>>
      BY <1>1, <2>1 DEF IsCallPath, Root, Node
    <2>2. CASE tree.activeNode # <<>>
      BY <1>1, <2>2 DEF Tree
    <2>3. QED BY <2>1, <2>2
  <1>3. PICK top : top = under[Len(under)]
    OBVIOUS
  <1>4. Len(under) \in Nat /\ Len(under) >= 1 /\ top \in Node /\ Len(top) = Len(under) - 1
    BY <1>2, <1>3, LastOfSeq DEF IsCallPath
  <1>5. PICK node : node = AddChild(top, name)
    OBVIOUS
  <1>6. /\ node \in Node
        /\ Len(node) = Len(under)
        /\ Parent(node) = top
    BY <1>4, <1>5, AddChildType
  <1>7. IsCallPath(Append(under, node))
    BY <1>2, <1>3, <1>6, PushChild
  <1>8. AddNode(tree, name)
          = [tree EXCEPT !.activeNode = Append(under, node), !.newCalls = TRUE]
    BY <1>1, <1>3, <1>5 DEF AddNode
  <1>9. /\ AddNode(tree, name) \in Tree
        /\ AddNode(tree, name).activeNode = Append(under, node)
    <2>1. Append(under, node) \in Seq(Node)
      BY <1>2, <1>6, AppendSeq
    <2>2. PICK pushed : pushed = Append(under, node)
      OBVIOUS
    <2>3. QED BY <1>8, <2>1, <2>2 DEF Tree
  <1>10. QED BY <1>1, <1>2, <1>3, <1>5, <1>6, <1>7, <1>9, AppendSeq

\* The destructor's IncrementData and CloseNode keep the stack a call path:
\* they drop its top when the top is the node that is closed, and nothing else.
LEMMA CloseNodeShrinks ==
  ASSUME NEW tree \in Tree, NEW node \in Node, IsCallPath(tree.activeNode), node # Root
  PROVE  LET closed == CloseNode(IncrementData(tree, node), node)
         IN  /\ closed \in Tree
             /\ IsCallPath(closed.activeNode)
             /\ Len(closed.activeNode)
                  = IF Top(tree) = node THEN Len(tree.activeNode) - 1 ELSE Len(tree.activeNode)
             /\ \A i \in 1..Len(closed.activeNode) :
                  closed.activeNode[i] = tree.activeNode[i]
  <1> DEFINE counted == IncrementData(tree, node)
             stack == tree.activeNode
             popped == SubSeq(stack, 1, Len(stack) - 1)
  <1>1. /\ counted \in Tree
        /\ counted.activeNode = stack
        /\ counted = [tree EXCEPT !.measured = @ \cup {node}]
    BY DEF IncrementData, Tree
  <1>2. CASE Top(tree) # node
    <2>1. CloseNode(counted, node) = counted
      BY <1>1, <1>2 DEF CloseNode, CloseActiveNode, Top
    <2>2. QED BY <1>1, <1>2, <2>1
  <1>3. CASE Top(tree) = node
    <2>1. Len(stack) >= 2 /\ stack \in Seq(Node)
      BY <1>3, TopOfCallPath DEF IsCallPath, Root, Top, Tree, Node
    <2>2. /\ popped \in Seq(Node)
          /\ Len(popped) = Len(stack) - 1
          /\ \A i \in 1..Len(popped) : popped[i] = stack[i]
      BY <2>1
    <2>3. CloseNode(counted, node) = [counted EXCEPT !.activeNode = popped]
      BY <1>1, <1>3 DEF CloseNode, CloseActiveNode, Top
    <2> HIDE DEF popped, counted
    <2>4. CloseNode(counted, node) \in Tree /\ CloseNode(counted, node).activeNode = popped
      BY <1>1, <2>2, <2>3 DEF Tree
    <2>5. IsCallPath(popped)
      <3>1. Len(stack) \in Nat /\ Len(popped) \in Nat /\ Len(popped) >= 1
        BY <2>1, <2>2, LastOfSeq
      <3>2. ASSUME NEW i \in 1..Len(popped) PROVE Len(popped[i]) = i - 1
        <4>1. popped[i] = stack[i] /\ i \in 1..Len(stack)
          BY <2>2, <3>1
        <4>2. QED BY <4>1 DEF IsCallPath
      <3>3. ASSUME NEW i \in 2..Len(popped) PROVE Parent(popped[i]) = popped[i - 1]
        <4>1. popped[i] = stack[i] /\ popped[i - 1] = stack[i - 1] /\ i \in 2..Len(stack)
          BY <2>2, <3>1
        <4>2. QED BY <4>1 DEF IsCallPath
      <3>4. QED BY <3>1, <3>2, <3>3 DEF IsCallPath
    <2>6. QED BY <1>3, <2>2, <2>4, <2>5 DEF counted
  <1>4. QED BY <1>2, <1>3

\* A stack without its last node has the parent of that node on top.
LEMMA TopUnderTop ==
  ASSUME NEW tree \in Tree, IsCallPath(tree.activeNode),
         NEW closed \in Tree, IsCallPath(closed.activeNode),
         Len(closed.activeNode) = Len(tree.activeNode) - 1,
         \A i \in 1..Len(closed.activeNode) : closed.activeNode[i] = tree.activeNode[i]
  PROVE  Top(closed) = Parent(Top(tree))
  <1>1. PICK len \in Nat : len = Len(tree.activeNode) /\ len - 1 = Len(closed.activeNode)
    BY TopOfCallPath
  <1>2. len - 1 >= 1
    BY <1>1 DEF IsCallPath
  <1>3. len \in 2..len /\ len - 1 \in 1..(len - 1)
    BY <1>2
  <1>4. Parent(tree.activeNode[len]) = tree.activeNode[len - 1]
    BY <1>1, <1>3 DEF IsCallPath
  <1>5. closed.activeNode[len - 1] = tree.activeNode[len - 1]
    BY <1>1, <1>3
  <1>6. QED BY <1>1, <1>4, <1>5 DEF Top

\* A report leaves the stack alone.
LEMMA ReportDataKeepsStack ==
  ASSUME NEW tree \in Tree
  PROVE  ReportData(tree) \in Tree /\ ReportData(tree).activeNode = tree.activeNode
  BY DEF ReportData, ReportNodes, Tree

\* Nothing is left to report in an empty tree.
LEMMA ReportEmptyTree == ReportData(EmptyTree) = EmptyTree
  <1>1. PICK e : e = EmptyTree
    OBVIOUS
  <1>2. ReportData(e) \in Tree /\ e \in Tree
    BY <1>1, EmptyTreeType, ReportDataKeepsStack
  <1>3. /\ ReportData(e).activeNode = e.activeNode
        /\ ReportData(e).newCalls = e.newCalls
        /\ ReportData(e).measured = e.measured
    BY <1>1 DEF ReportData, ReportNodes, EmptyTree
  <1>4. QED BY <1>1, <1>2, <1>3 DEF Tree

-----------------------------------------------------------------------------
(* Induction.  The theorems of the library take an operator; these a set.  *)

\* A set of numbers that is not empty has a least one.
LEMMA LeastNumber ==
  ASSUME NEW S \in SUBSET Nat, S # {}
  PROVE  \E x \in S : \A y \in S : x <= y
  <1>1. PICK x \in S : \A y \in S : ~(<<y, x>> \in OpToRel(<, Nat))
    BY NatLessThanWellFounded, WFMin, Zenon
  <1>2. ASSUME NEW y \in S PROVE x <= y
    <2>1. <<y, x>> \in Nat \X Nat /\ <<y, x>> \notin OpToRel(<, Nat)
      BY <1>1
    <2>2. ~(y < x)
      BY <2>1, Zenon DEF OpToRel
    <2>3. QED BY <2>2
  <1>3. QED BY <1>1, <1>2

\* Induction on the natural numbers, for a set.
LEMMA InductiveSet ==
  ASSUME NEW S, 0 \in S, \A n \in Nat : n \in S => n + 1 \in S
  PROVE  \A n \in Nat : n \in S
  <1>1. SUFFICES ASSUME NEW m \in Nat, m \notin S PROVE FALSE
    OBVIOUS
  <1>2. PICK T \in SUBSET Nat : T = {n \in Nat : n \notin S}
    OBVIOUS
  <1>3. PICK x \in T : \A y \in T : x <= y
    <2>1. T # {} BY <1>1, <1>2
    <2>2. QED BY <2>1, LeastNumber
  <1>4. x \in Nat /\ x # 0 /\ x \notin S
    BY <1>2, <1>3
  <1>5. x - 1 \in Nat /\ ~(x <= x - 1) /\ (x - 1) + 1 = x
    BY <1>4
  <1>6. x - 1 \in S
    BY <1>2, <1>3, <1>5
  <1>7. QED BY <1>4, <1>5, <1>6
=============================================================================
