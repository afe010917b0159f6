----------------------------- MODULE Traversal ------------------------------
(***************************************************************************)
(* The part of clang's RecursiveASTVisitor that the stateful visitors see: *)
(* UnitedVisitor calls a Visit method when a node is reached, and          *)
(* dataTraverseStmtPre and dataTraverseStmtPost around the children of a   *)
(* statement.  The AST is produced on the fly; every node has a fresh      *)
(* number, its address.  The visitors extend this module.                  *)
(***************************************************************************)
EXTENDS Integers, Sequences

CONSTANT MaxNodes   \* bound on the nodes visited

ASSUME TraversalAssumption == MaxNodes \in Nat

VARIABLES
  open,   \* the nodes being traversed, the outermost first
  next    \* the number of the next node

Null == 0
Nodes == 1..MaxNodes

Top(s) == s[Len(s)]
Pop(s) == SubSeq(s, 1, Len(s) - 1)

IsOpen(n) == \E i \in 1..Len(open) : open[i].id = n
InsideOf(kinds) == \E i \in 1..Len(open) : open[i].kind \in kinds

TraversalInit == open = <<>> /\ next = 1

(* A node is reached. *)
Visit ==
  /\ next <= MaxNodes
  /\ next' = next + 1

(* Its children follow. *)
Enter(kind) == Visit /\ open' = Append(open, [id |-> next, kind |-> kind])

(* It has none that any visitor looks at. *)
VisitLeaf == Visit /\ UNCHANGED open

(* All of the children of the innermost node were traversed. *)
LeaveStmt(kinds) ==
  /\ open # <<>>
  /\ Top(open).kind \in kinds
  /\ open' = Pop(open)
  /\ UNCHANGED next

TraversalTypeOK(kinds) ==
  /\ open \in Seq([id : Nodes, kind : kinds])
  /\ next \in 1..(MaxNodes + 1)

=============================================================================
