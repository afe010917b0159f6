---------------------------- MODULE EraseInLoop -----------------------------
(***************************************************************************)
(* EraseInLoopVisitor: m_stack, the for statements whose increment it      *)
(* recognises, and m_parents, the statements being traversed.  The AST is  *)
(* produced on the fly; what the code asks of a node's children is an      *)
(* attribute of the node, fixed when it is entered.                        *)
(***************************************************************************)
EXTENDS Integers, Sequences

CONSTANTS
  Vars,      \* variables, among them the iterators
  NoVar,     \* no variable, or none that is recognised
  MaxNodes   \* bound on the statements visited

ASSUME EraseInLoopAssumption ==
  /\ NoVar \notin Vars
  /\ MaxNodes \in Nat

VARIABLES
  open,       \* the statements being traversed, the outermost first
  next,       \* the number of the next statement
  m_stack,    \* the recognised for statements, each with its variable
  m_parents,  \* the statements being traversed, as the visitor records them
  reports,    \* diagnostics emitted: an erase() and the loop blamed
  invalid     \* history: what the AST alone says should be reported

members == <<m_stack, m_parents>>
vars == <<open, next, members, reports, invalid>>

Nodes == 1..MaxNodes
Kinds == {"compound", "control", "for", "expr"}

(* A statement; "jumps" tells if a return or break is a child of it, "var"  *)
(* is the variable a for statement increments by operator++.                *)
Stmt == [id : Nodes, kind : Kinds, jumps : BOOLEAN, var : Vars \cup {NoVar}]
ForAndVar == [stmt : Nodes, var : Vars]
Report == [call : Nodes, loop : Nodes, var : Vars]

-----------------------------------------------------------------------------

(* hasReturnOrBreakChild(getParentOfCurrentStmt()), the current statement   *)
(* being about to be the last of m_parents.                                 *)
hasReturnOrBreakChild ==
  m_parents # <<>> /\ m_parents[Len(m_parents)].jumps

(* EraseInLoopVisitor::findForStrmForVar: the last loop of m_stack over v,  *)
(* as a set that is empty for nullptr.                                      *)
findForStrmForVar(v) ==
  {m_stack[i].stmt : i \in {j \in 1..Len(m_stack) :
     /\ m_stack[j].var = v
     /\ \A k \in (j + 1)..Len(m_stack) : m_stack[k].var # v}}

(* The innermost for statement around the current one that increments v. *)
LoopOver(v) ==
  {open[i].id : i \in {j \in 1..Len(open) :
     /\ open[j].var = v
     /\ \A k \in (j + 1)..Len(open) : open[k].var # v}}

-----------------------------------------------------------------------------

Init ==
  /\ open = <<>>
  /\ next = 1
  /\ m_stack = <<>>
  /\ m_parents = <<>>
  /\ reports = {}
  /\ invalid = {}

(* dataTraverseStmtPre. *)
Push(stmt) ==
  /\ next <= MaxNodes
  /\ next' = next + 1
  /\ open' = Append(open, stmt)
  /\ m_parents' = Append(m_parents, stmt)

(* A statement that no Visit method of the visitor looks at; an erase() that *)
(* shouldProcessExpr() skips, as in a macro, is an "expr".  A break or a     *)
(* return is a child of a block or of an if, not of an expression.          *)
EnterStmt(kind, jumps) ==
  /\ kind = "expr" => ~jumps
  /\ kind # "for"
  /\ Push([id |-> next, kind |-> kind, jumps |-> jumps, var |-> NoVar])
  /\ UNCHANGED <<m_stack, reports, invalid>>

(* Faulty variant of EnterFor: a loop without a variable is pushed too. *)
EnterFor_AllLoops(v, jumps) ==
  /\ Push([id |-> next, kind |-> "for", jumps |-> jumps, var |-> v])
  /\ m_stack' = Append(m_stack, [stmt |-> next, var |-> v])
  /\ UNCHANGED <<reports, invalid>>

(* dataTraverseStmtPre and VisitForStmt; v is NoVar if the loop is in a     *)
(* macro, a system header or a NOLINT line, or its increment is not "++v".   *)
EnterFor(v, jumps) ==
  /\ Push([id |-> next, kind |-> "for", jumps |-> jumps, var |-> v])
  /\ m_stack' = IF v = NoVar THEN m_stack
                ELSE Append(m_stack, [stmt |-> next, var |-> v])
  /\ UNCHANGED <<reports, invalid>>

(* dataTraverseStmtPre and VisitCXXMemberCallExpr of an "x.erase(v)" that is *)
(* not skipped. *)
EnterErase(v) ==
  /\ Push([id |-> next, kind |-> "expr", jumps |-> FALSE, var |-> NoVar])
  /\ reports' = reports \cup
       (IF hasReturnOrBreakChild THEN {}
        ELSE {[call |-> next, loop |-> l, var |-> v] : l \in findForStrmForVar(v)})
  /\ invalid' = invalid \cup
       (IF open # <<>> /\ open[Len(open)].jumps THEN {}
        ELSE {[call |-> next, loop |-> l, var |-> v] : l \in LoopOver(v)})
  /\ UNCHANGED m_stack

(* Faulty variant of Leave: leaving any for statement pops m_stack. *)
Leave_AnyFor ==
  /\ open # <<>>
  /\ open' = SubSeq(open, 1, Len(open) - 1)
  /\ m_parents' = SubSeq(m_parents, 1, Len(m_parents) - 1)
  /\ m_stack' = IF m_stack # <<>> /\ open[Len(open)].kind = "for"
                  THEN SubSeq(m_stack, 1, Len(m_stack) - 1)
                  ELSE m_stack
  /\ UNCHANGED <<next, reports, invalid>>

(* Faulty variant of Leave: m_parents is not popped. *)
Leave_KeepParents ==
  /\ open # <<>>
  /\ open' = SubSeq(open, 1, Len(open) - 1)
  /\ m_stack' = IF m_stack # <<>> /\ m_stack[Len(m_stack)].stmt = open[Len(open)].id
                  THEN SubSeq(m_stack, 1, Len(m_stack) - 1)
                  ELSE m_stack
  /\ UNCHANGED <<next, m_parents, reports, invalid>>

(* dataTraverseStmtPost. *)
Leave ==
  /\ open # <<>>
  /\ open' = SubSeq(open, 1, Len(open) - 1)
  /\ m_parents' = SubSeq(m_parents, 1, Len(m_parents) - 1)
  /\ m_stack' = IF m_stack # <<>> /\ m_stack[Len(m_stack)].stmt = open[Len(open)].id
                  THEN SubSeq(m_stack, 1, Len(m_stack) - 1)
                  ELSE m_stack
  /\ UNCHANGED <<next, reports, invalid>>

Next ==
  \/ \E kind \in Kinds, jumps \in BOOLEAN : EnterStmt(kind, jumps)
  \/ \E v \in Vars \cup {NoVar}, jumps \in BOOLEAN : EnterFor(v, jumps)
  \/ \E v \in Vars : EnterErase(v)
  \/ Leave

Spec == Init /\ [][Next]_vars

-----------------------------------------------------------------------------

(* The variables have their types. *)
TypeOK ==
  /\ open \in Seq(Stmt)
  /\ next \in 1..(MaxNodes + 1)
  /\ m_stack \in Seq(ForAndVar)
  /\ m_parents \in Seq(Stmt)
  /\ reports \subseteq Report
  /\ invalid \subseteq Report

(* m_stack holds exactly the open loops over a recognised variable, in the  *)
(* order of their nesting, although loops that are not recognised are       *)
(* neither pushed nor popped and every statement passes through             *)
(* dataTraverseStmtPost.                                                    *)
StackIsOpenLoops ==
  /\ \A k \in 1..Len(m_stack) :
       \E i \in 1..Len(open) :
         open[i].id = m_stack[k].stmt /\ open[i].var = m_stack[k].var
  /\ \A i \in 1..Len(open) :
       open[i].var # NoVar =>
         \E k \in 1..Len(m_stack) :
           open[i].id = m_stack[k].stmt /\ open[i].var = m_stack[k].var
  /\ \A k, l \in 1..Len(m_stack) : k < l => m_stack[k].stmt < m_stack[l].stmt

(* The erase() calls reported, each with the loop blamed, are those whose   *)
(* argument is incremented by an enclosing for statement, the innermost one *)
(* being blamed, and whose parent statement has no return or break; calls   *)
(* and loops in macros, system headers and NOLINT lines left aside.         *)
ReportsAreExact == reports = invalid

=============================================================================
