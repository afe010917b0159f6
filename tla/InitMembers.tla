---------------------------- MODULE InitMembers -----------------------------
(***************************************************************************)
(* InitMembersVisitor: the constructor body it is in and the assignments   *)
(* it is about to report.  Nothing is forgotten between the declarations   *)
(* of a translation unit (clear() does nothing).  A constructor shares its *)
(* number with its body, which it reaches after its initialisers; what     *)
(* they hold is out of sight of the properties.  VisitMemberExpr is        *)
(* missing: UnitedVisitor has no dispatch for it, so m_met_members stays   *)
(* empty.                                                                  *)
(***************************************************************************)
EXTENDS Traversal

VARIABLES
  m_curr_ctor_body,  \* the body of the current constructor, or null
  m_to_report,       \* members assigned in it
  reports,           \* diagnostics emitted: members
  assigned,          \* history: the assignments to members, see Assignment
  synthesized        \* history: the bodies that the compiler wrote

vars == <<open, next, m_curr_ctor_body, m_to_report, reports, assigned, synthesized>>

(* "ctor" is the body of a constructor; "function" a body that is not:      *)
(* another method of a class, a lambda, or a constructor that               *)
(* shouldProcessDecl() skips, as in a macro or with NOLINT.                 *)
Kinds == {"ctor", "function"}

(* What the right-hand side refers to: parameters, globals and constants    *)
(* ("free"); a local or a function in a larger expression, casts included;  *)
(* or nothing but a local, as a const local of class type.                  *)
RightSides == {"free", "uses local", "is local"}

(* The member assigned, whether any body of a constructor is open, and the  *)
(* right side.                                                              *)
Assignment == [member : Nodes, inside : BOOLEAN, rhs : RightSides]

-----------------------------------------------------------------------------

Init ==
  /\ TraversalInit
  /\ m_curr_ctor_body = Null
  /\ m_to_report = {}
  /\ reports = {}
  /\ assigned = {}
  /\ synthesized = {}

(* VisitCXXConstructorDecl of a constructor with a body. *)
EnterCtor ==
  /\ Enter("ctor")
  /\ m_curr_ctor_body' = next
  /\ UNCHANGED <<m_to_report, reports, assigned, synthesized>>

(* VisitCXXConstructorDecl of a defaulted constructor that was used before: *)
(* the body that the compiler gave it is not traversed.                     *)
VisitDefaultedCtor ==
  /\ VisitLeaf
  /\ m_curr_ctor_body' = next
  /\ synthesized' = synthesized \cup {next}
  /\ UNCHANGED <<m_to_report, reports, assigned>>

EnterFunction ==
  /\ Enter("function")
  /\ UNCHANGED <<m_curr_ctor_body, m_to_report, reports, assigned, synthesized>>

(* Faulty variant of IsInitializer: descendants are not searched. *)
IsInitializer_Always(rhs) == TRUE

(* The matcher of checkAssignment: no descendant of rhs refers to anything  *)
(* but parameters and globals; an expression is not its own descendant.     *)
IsInitializer(rhs) == rhs # "uses local"

Remember(rhs) ==
  assigned' = assigned \cup
    {[member |-> next, inside |-> InsideOf({"ctor"}), rhs |-> rhs]}

(* Faulty variant of Assign: m_curr_ctor_body is not asked. *)
Assign_Anywhere(rhs) ==
  /\ open # <<>>
  /\ VisitLeaf
  /\ m_to_report' = IF IsInitializer(rhs) THEN m_to_report \cup {next} ELSE m_to_report
  /\ Remember(rhs)
  /\ UNCHANGED <<m_curr_ctor_body, reports, synthesized>>

(* VisitCXXOperatorCallExpr and VisitBinaryOperator of an assignment to a   *)
(* member of *this; addToReport.  One that shouldProcessExpr() skips is not *)
(* looked at and not an event: nothing is promised of it.                   *)
Assign(rhs) ==
  /\ open # <<>>
  /\ VisitLeaf
  /\ m_to_report' = IF m_curr_ctor_body # Null /\ IsInitializer(rhs)
                      THEN m_to_report \cup {next} ELSE m_to_report
  /\ Remember(rhs)
  /\ UNCHANGED <<m_curr_ctor_body, reports, synthesized>>

(* Faulty variant of LeaveCtor: m_curr_ctor_body is not reset. *)
LeaveCtor_KeepBody ==
  /\ LeaveStmt(Kinds)
  /\ m_curr_ctor_body = Top(open).id
  /\ reports' = reports \cup m_to_report
  /\ m_to_report' = {}
  /\ UNCHANGED <<m_curr_ctor_body, assigned, synthesized>>

(* dataTraverseStmtPost of the current constructor's body. *)
LeaveCtor ==
  /\ LeaveStmt(Kinds)
  /\ m_curr_ctor_body = Top(open).id
  /\ m_curr_ctor_body' = Null
  /\ reports' = reports \cup m_to_report
  /\ m_to_report' = {}
  /\ UNCHANGED <<assigned, synthesized>>

(* dataTraverseStmtPost of any other statement. *)
LeaveOther ==
  /\ LeaveStmt(Kinds)
  /\ m_curr_ctor_body # Top(open).id
  /\ UNCHANGED <<m_curr_ctor_body, m_to_report, reports, assigned, synthesized>>

Next ==
  \/ EnterCtor \/ VisitDefaultedCtor \/ EnterFunction
  \/ \E rhs \in RightSides : Assign(rhs)
  \/ LeaveCtor \/ LeaveOther

Spec == Init /\ [][Next]_vars

-----------------------------------------------------------------------------

(* The variables have their types; what is still to be reported has not     *)
(* been reported, so that no diagnostic is given twice.                     *)
TypeOK ==
  /\ TraversalTypeOK(Kinds)
  /\ m_curr_ctor_body \in Nodes \cup {Null}
  /\ m_to_report \subseteq Nodes \ reports
  /\ reports \subseteq Nodes
  /\ assigned \subseteq Assignment
  /\ synthesized \subseteq Nodes

(* m_curr_ctor_body never dangles: it is null, an open constructor body, or *)
(* a body that the compiler wrote.  Otherwise the assignments of later      *)
(* methods would be collected.                                              *)
CurrentBodyIsOpen ==
  \/ m_curr_ctor_body = Null
  \/ m_curr_ctor_body \in synthesized
  \/ \E i \in 1..Len(open) : open[i] = [id |-> m_curr_ctor_body, kind |-> "ctor"]

(* Outside of every constructor nothing waits for a report, unless the      *)
(* compiler wrote a body: what a constructor's body collected is reported   *)
(* when the body ends, not with another constructor's.                      *)
NothingIsLeftOver ==
  synthesized = {} /\ ~InsideOf({"ctor"}) => m_to_report = {}

(* A member is reported only if its assignment came inside a constructor,   *)
(* or after a body that the compiler wrote, and if its right-hand side does *)
(* not compute with locals (checkAssignment, VisitBinaryOperator).          *)
MembersAreInitializable ==
  \A a \in assigned :
    a.member \in reports =>
      /\ a.rhs # "uses local"
      /\ a.inside \/ \E s \in synthesized : s < a.member

=============================================================================
