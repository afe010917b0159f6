--------------------------- MODULE Miscellaneous ----------------------------
(***************************************************************************)
(* MiscellaneousVisitor: three checks in one visitor.  temporary-in-ctor   *)
(* follows the locals that are assigned to fields, static-keyword the open *)
(* blocks; const-cast-member, and static-keyword for functions, keep no    *)
(* state and are left out.  Nothing is forgotten between the declarations  *)
(* of a translation unit (clear() does nothing).  A constructor shares its *)
(* number with its body.                                                   *)
(***************************************************************************)
EXTENDS Traversal

VARIABLES
  checks,             \* the checks that are enabled
  m_last_assigned,    \* locals assigned to a field, and the references left
  m_ctor_body_stack,  \* bodies of constructors
  m_comp_stmt_stack,  \* open blocks
  declared,           \* bodies given to constructors that were only declared
  reports,            \* diagnostics emitted
  locals              \* history: the variables declared, see Local

vars == <<open, next, checks, m_last_assigned, m_ctor_body_stack, m_comp_stmt_stack,
          declared, reports, locals>>

(* All three are compound statements; "hidden" is one that                  *)
(* shouldProcessStmt() skips, as in a macro or with NOLINT.                 *)
Kinds == {"ctor", "block", "hidden"}

Messages == {"useless-temp", "static-in-header"}

(* A variable declared in a block: the blocks around it, whether the last   *)
(* reference to it assigned it to a field, and whether any was hidden.      *)
Local == [decl : Nodes, scope : Seq([id : Nodes, kind : Kinds]), last : BOOLEAN,
          hidden : BOOLEAN]

Note(what, nodes) == {[what |-> what, node |-> n] : n \in nodes}

-----------------------------------------------------------------------------

Init ==
  /\ TraversalInit
  /\ checks \in SUBSET {"temporary-in-ctor", "static-keyword"}
  /\ m_last_assigned = <<>>
  /\ m_ctor_body_stack = <<>>
  /\ m_comp_stmt_stack = <<>>
  /\ declared = {}
  /\ reports = {}
  /\ locals = {}

currCtor == IF m_ctor_body_stack = <<>> THEN Null ELSE Top(m_ctor_body_stack)

(* VisitCompoundStmt. *)
PushCompound(id) ==
  m_comp_stmt_stack' = IF "static-keyword" \in checks
                         THEN Append(m_comp_stmt_stack, id) ELSE m_comp_stmt_stack

(* VisitCXXConstructorDecl of a definition, and its body; the body may have *)
(* been seen through a declaration.                                         *)
EnterCtor ==
  /\ Visit
  /\ \E body \in declared \cup {next} :
       /\ open' = Append(open, [id |-> body, kind |-> "ctor"])
       /\ m_ctor_body_stack' = Append(m_ctor_body_stack, body)
       /\ PushCompound(body)
       /\ declared' = declared \ {body}
  /\ UNCHANGED <<checks, m_last_assigned, reports, locals>>

(* VisitCXXConstructorDecl of a declaration: getBody() is null, or the body *)
(* of a definition elsewhere; that of a defaulted constructor is never      *)
(* traversed.                                                               *)
VisitCtorDeclaration(defined) ==
  /\ VisitLeaf
  /\ m_ctor_body_stack' = Append(m_ctor_body_stack, IF defined THEN next ELSE Null)
  /\ declared' = IF defined THEN declared \cup {next} ELSE declared
  /\ UNCHANGED <<checks, m_last_assigned, m_comp_stmt_stack, reports, locals>>

EnterBlock ==
  /\ Enter("block")
  /\ PushCompound(next)
  /\ UNCHANGED <<checks, m_last_assigned, m_ctor_body_stack, declared, reports, locals>>

EnterHidden ==
  /\ Enter("hidden")
  /\ UNCHANGED <<checks, m_last_assigned, m_ctor_body_stack, m_comp_stmt_stack, declared,
                 reports, locals>>

(* VisitVarDecl in a header; "global" tells if it has global storage and is *)
(* neither const nor templated.                                             *)
VisitVarDecl(global) ==
  /\ VisitLeaf
  /\ reports' = IF /\ "static-keyword" \in checks
                   /\ m_comp_stmt_stack = <<>>
                   /\ global
                  THEN reports \cup Note("static-in-header", {next}) ELSE reports
  /\ locals' = IF open = <<>> THEN locals ELSE locals \cup
       {[decl |-> next, scope |-> open, last |-> FALSE, hidden |-> FALSE]}
  /\ UNCHANGED <<checks, m_last_assigned, m_ctor_body_stack, m_comp_stmt_stack, declared>>

(* addAssigned; emplace() keeps the count that is there. *)
addAssigned(counts, decl) ==
  [d \in DOMAIN counts \cup {decl} |-> IF d \in DOMAIN counts THEN counts[d] ELSE 1]

Without(counts, decl) == [d \in DOMAIN counts \ {decl} |-> counts[d]]

(* Faulty variant of removeAssigned: the entry is never erased. *)
removeAssigned_Keep(counts, decl) ==
  IF decl \notin DOMAIN counts THEN counts ELSE [counts EXCEPT ![decl] = 0]

removeAssigned(counts, decl) ==
  IF decl \notin DOMAIN counts THEN counts
  ELSE IF counts[decl] # 0 THEN [counts EXCEPT ![decl] = @ - 1]
  ELSE Without(counts, decl)

(* VisitDeclRefExpr, except in the locations it skips in a constructor. *)
Refer(counts, decl, hidden) ==
  IF hidden /\ currCtor # Null THEN counts ELSE removeAssigned(counts, decl)

(* The locals that the code being visited may name: a constructor of a      *)
(* local class cannot name those of the function around it.                 *)
InScope ==
  {v \in locals :
     \E i \in 1..Len(open) :
       /\ open[i] = Top(v.scope)
       /\ \A j \in (i + 1)..Len(open) : open[j].kind # "ctor"}

Remember(v, assigned, hidden) ==
  locals' = (locals \ {v}) \cup
    {[v EXCEPT !.last = assigned, !.hidden = @ \/ hidden]}

(* A reference to a local. *)
VisitUse(v, hidden) ==
  /\ VisitLeaf
  /\ m_last_assigned' = Refer(m_last_assigned, v.decl, hidden)
  /\ Remember(v, FALSE, hidden)
  /\ UNCHANGED <<checks, m_ctor_body_stack, m_comp_stmt_stack, declared, reports>>

(* VisitCXXOperatorCallExpr of the assignment of a local to a field of the  *)
(* same type, also by std::move, then VisitDeclRefExpr of the local: the    *)
(* left side, visited in between, refers to no variable.                    *)
VisitAssignment(v, hidden) ==
  /\ VisitLeaf
  /\ LET counts == IF ~hidden \/ currCtor # Null
                     THEN addAssigned(m_last_assigned, v.decl) ELSE m_last_assigned
     IN  m_last_assigned' = Refer(counts, v.decl, hidden)
  /\ Remember(v, TRUE, hidden)
  /\ UNCHANGED <<checks, m_ctor_body_stack, m_comp_stmt_stack, declared, reports>>

-----------------------------------------------------------------------------

(* dataTraverseStmtPost. *)
EndsCtor(stmt) == stmt.id = currCtor /\ "temporary-in-ctor" \in checks

(* Its second half. *)
PopCompound(stmt) ==
  m_comp_stmt_stack' = IF m_comp_stmt_stack # <<>> /\ Top(m_comp_stmt_stack) = stmt.id
                         THEN Pop(m_comp_stmt_stack) ELSE m_comp_stmt_stack

(* Faulty variant of LeaveCtor: only m_ctor_body_stack is popped. *)
LeaveCtor_KeepCompound ==
  /\ LeaveStmt(Kinds)
  /\ EndsCtor(Top(open))
  /\ m_ctor_body_stack' = Pop(m_ctor_body_stack)
  /\ reports' = reports \cup Note("useless-temp", DOMAIN m_last_assigned)
  /\ m_last_assigned' = <<>>
  /\ UNCHANGED <<checks, m_comp_stmt_stack, declared, locals>>

(* The current constructor's body. *)
LeaveCtor ==
  /\ LeaveStmt(Kinds)
  /\ EndsCtor(Top(open))
  /\ m_ctor_body_stack' = Pop(m_ctor_body_stack)
  /\ reports' = reports \cup Note("useless-temp", DOMAIN m_last_assigned)
  /\ m_last_assigned' = <<>>
  /\ PopCompound(Top(open))
  /\ UNCHANGED <<checks, declared, locals>>

(* Any other block. *)
LeaveBlock ==
  /\ LeaveStmt(Kinds)
  /\ ~EndsCtor(Top(open))
  /\ PopCompound(Top(open))
  /\ UNCHANGED <<checks, m_last_assigned, m_ctor_body_stack, declared, reports, locals>>

Next ==
  \/ EnterCtor
  \/ \E defined \in BOOLEAN : VisitCtorDeclaration(defined)
  \/ EnterBlock \/ EnterHidden
  \/ \E global \in BOOLEAN : VisitVarDecl(global)
  \/ \E v \in InScope, hidden \in BOOLEAN : VisitUse(v, hidden) \/ VisitAssignment(v, hidden)
  \/ LeaveCtor \/ LeaveBlock

Spec == Init /\ [][Next]_vars

-----------------------------------------------------------------------------

(* The variables have their types; no count exceeds one.                    *)
TypeOK ==
  /\ TraversalTypeOK(Kinds)
  /\ checks \subseteq {"temporary-in-ctor", "static-keyword"}
  /\ DOMAIN m_last_assigned \subseteq Nodes
  /\ \A d \in DOMAIN m_last_assigned : m_last_assigned[d] \in {0, 1}
  /\ m_ctor_body_stack \in Seq(Nodes \cup {Null})
  /\ m_comp_stmt_stack \in Seq(Nodes)
  /\ declared \subseteq Nodes
  /\ reports \subseteq [what : Messages, node : Nodes]
  /\ locals \subseteq Local

(* m_comp_stmt_stack is the stack of the open blocks, without the hidden    *)
(* ones: at a function's end it is empty again, else no later global of the *)
(* translation unit would be reported.                                      *)
BlocksAreStacked ==
  /\ "static-keyword" \notin checks => m_comp_stmt_stack = <<>>
  /\ "static-keyword" \in checks =>
       {m_comp_stmt_stack[k] : k \in 1..Len(m_comp_stmt_stack)} =
         {open[i].id : i \in {j \in 1..Len(open) : open[j].kind # "hidden"}}
  /\ \A k, l \in 1..Len(m_comp_stmt_stack), i, j \in 1..Len(open) :
       m_comp_stmt_stack[k] = open[i].id /\ m_comp_stmt_stack[l] = open[j].id =>
         (k < l <=> i < j)

(* A local waits to be reported as useless only if its last reference is    *)
(* its assignment to a field; a reference that is hidden may be missed.     *)
LastReferencesAreAssignments ==
  \A v \in locals : v.decl \in DOMAIN m_last_assigned => v.last \/ v.hidden

(* A variable reported as a useless temporary was declared in the body of a *)
(* constructor (the check is temporary-in-ctor).  The code does not keep    *)
(* this: see the README.                                                    *)
TemporariesAreInCtors ==
  \A v \in locals :
    [what |-> "useless-temp", node |-> v.decl] \in reports =>
      \E i \in 1..Len(v.scope) : v.scope[i].kind = "ctor"

=============================================================================
