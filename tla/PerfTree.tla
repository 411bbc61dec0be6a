------------------------------ MODULE PerfTree ------------------------------
(***************************************************************************)
(* The call tree of one thread: class PerfTree with the PerfNode objects   *)
(* it owns (src/src/rdk_perf_tree.cpp, src/src/rdk_perf_node.cpp).  Both    *)
(* builds use it: the in-process library for its own threads, perfservice  *)
(* for the threads of its clients.                                         *)
(*                                                                         *)
(* A node is the path of element names that leads to it from the root,     *)
(* because AddChild finds or makes one child per name: two calls reach the *)
(* same node exactly when they take the same path.  A tree is a record     *)
(*   activeNode  the stack of open nodes, the root at the bottom;          *)
(*   newCalls    m_ActivityCount # m_CountAtLastReport: the first counter   *)
(*               only grows and the second is only ever set to it, so      *)
(*               whether they differ is all that the code can observe;     *)
(*   measured    the nodes measured since the last report of the tree      *)
(*               (IncrementData has run since ResetInterval).              *)
(***************************************************************************)
EXTENDS Naturals, Sequences

CONSTANT Names       \* the element names callers pass to RDKPerf

Root == <<>>
Node == Seq(Names)
Tree == [activeNode : Seq(Node), newCalls : BOOLEAN, measured : SUBSET Node]

\* PerfTree::PerfTree: no root yet, no activity.
EmptyTree == [activeNode |-> <<>>, newCalls |-> FALSE, measured |-> {}]

Top(tree) == tree.activeNode[Len(tree.activeNode)]

\* Mutant: the child found or made is not the one returned.
AddChildReturnsParent(node, name) == node

\* PerfNode::AddChild
AddChild(node, name) == Append(node, name)

\* Mutant: a call that repeats the name of its caller is not entered again.
AddNodeOncePerName(tree, name) ==
  LET stack == IF tree.activeNode = <<>> THEN <<Root>> ELSE tree.activeNode
      top == stack[Len(stack)]
  IN  [tree EXCEPT !.activeNode = IF top # Root /\ top[Len(top)] = name THEN stack
                                  ELSE Append(stack, AddChild(top, name)),
                   !.newCalls = TRUE]

\* Mutant: every node becomes a child of the root.
AddNodeUnderRoot(tree, name) ==
  LET stack == IF tree.activeNode = <<>> THEN <<Root>> ELSE tree.activeNode
  IN  [tree EXCEPT !.activeNode = Append(stack, AddChild(stack[1], name)),
                   !.newCalls = TRUE]

\* PerfTree::AddNode: the first node of a tree also makes its root.
AddNode(tree, name) ==
  LET stack == IF tree.activeNode = <<>> THEN <<Root>> ELSE tree.activeNode
  IN  [tree EXCEPT !.activeNode = Append(stack, AddChild(stack[Len(stack)], name)),
                   !.newCalls = TRUE]

\* PerfNode::IncrementData
IncrementData(tree, node) == [tree EXCEPT !.measured = @ \cup {node}]

-----------------------------------------------------------------------------
\* Mutant: the node is taken out wherever it is on the stack.
CloseWhereFound(tree, node) ==
  LET Other(n) == n # node
  IN  [tree EXCEPT !.activeNode = SelectSeq(@, Other)]

\* Mutant: the active node is left on the stack.
CloseNoNode(tree, node) == tree

\* PerfTree::CloseActiveNode: a node that is not the active one stays open.
CloseActiveNode(tree, node) ==
  IF Top(tree) = node
  THEN [tree EXCEPT !.activeNode = SubSeq(@, 1, Len(@) - 1)]
  ELSE tree

\* PerfNode::CloseNode: the root has no m_Tree.
CloseNode(tree, node) ==
  IF node = Root THEN tree ELSE CloseActiveNode(tree, node)

\* Mutant: a tree with open nodes counts as inactive.
IsInactiveWithOpenNodes(tree) == ~tree.newCalls

\* PerfTree::IsInactive
IsInactive(tree) == ~tree.newCalls /\ Top(tree) = Root

\* Mutant: the report does not remember the activity count.
ReportDataForgetsCount(tree) == [tree EXCEPT !.measured = {}]

\* PerfNode::ReportData from the root down, with the ResetInterval of each node.
ReportNodes(tree) == [tree EXCEPT !.measured = {}]

\* PerfTree::ReportData: the nodes, then m_CountAtLastReport.
ReportData(tree) == [ReportNodes(tree) EXCEPT !.newCalls = FALSE]

-----------------------------------------------------------------------------
\* The node under which the last name of the path was added.
Parent(node) == SubSeq(node, 1, Len(node) - 1)

\* A stack of nodes is a call path: the root is at the bottom and each other
\* node is a child of the one under it.
IsCallPath(stack) ==
  /\ Len(stack) >= 1
  /\ \A i \in 1..Len(stack) : Len(stack[i]) = i - 1
  /\ \A i \in 2..Len(stack) : Parent(stack[i]) = stack[i - 1]

\* The node is on the stack of the tree, above the root.
IsOnStack(node, tree) ==
  /\ Len(node) \in 1..(Len(tree.activeNode) - 1)
  /\ tree.activeNode[Len(node) + 1] = node
=============================================================================
