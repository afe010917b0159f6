---------------------------- MODULE ReturnValue -----------------------------
(***************************************************************************)
(* ReturnValueVisitor: m_comp_stmt_stack, the functions whose returns it   *)
(* follows.  The AST is produced on the fly.  A function shares its number *)
(* with its body, which comes last in it; a lambda's call operator is not  *)
(* visited as a function, its body is.  "hidden" is a return statement     *)
(* that shouldProcessStmt() skips, in a macro or on a NOLINT line.         *)
(***************************************************************************)
EXTENDS Traversal

(* "const" is a value type that is const-qualified; "instance" tells if     *)
(* getTemplateInstantiationPattern() gives a pattern.  A function that      *)
(* shouldProcessDecl() skips counts as a void one.                          *)
Shape == [ret : {"void", "reference", "value", "const"}, instance : BOOLEAN,
          body : BOOLEAN]

VARIABLES
  m_comp_stmt_stack,  \* functions followed, each with always_returns_this
  crashed,            \* was a null expression dereferenced
  reports,            \* diagnostics emitted
  returned            \* history: the return statements of each function

vars == <<open, next, m_comp_stmt_stack, crashed, reports, returned>>

Kinds == {"followed", "ignored", "lambda"}
Returns == {"this", "other", "none"}
Messages == {"const-value", "self-copy"}

(* A return statement and the innermost function or lambda around it.       *)
Return == [func : [id : Nodes, kind : Kinds], what : Returns, hidden : BOOLEAN]

(* always_returns_this is an optional, here a set of at most one Boolean. *)
CheckedFunc == [func_decl : Nodes, always_returns_this : {{}, {TRUE}, {FALSE}}]

Note(what, n) == [what |-> what, node |-> n]

-----------------------------------------------------------------------------

Init ==
  /\ TraversalInit
  /\ m_comp_stmt_stack = <<>>
  /\ crashed = FALSE
  /\ reports = {}
  /\ returned = {}

(* The early returns of VisitFunctionDecl before and after its report. *)
IsChecked(shape) == shape.ret \in {"value", "const"} /\ ~shape.instance
IsFollowed(shape) == IsChecked(shape) /\ shape.body

(* Faulty variant of VisitFunctionDecl: functions without a body are pushed. *)
VisitFunctionDecl_NoBody(shape) ==
  /\ ~crashed
  /\ Visit
  /\ reports' = IF IsChecked(shape) /\ shape.ret = "const"
                  THEN reports \cup {Note("const-value", next)} ELSE reports
  /\ m_comp_stmt_stack' =
       IF IsChecked(shape)
         THEN Append(m_comp_stmt_stack, [func_decl |-> next, always_returns_this |-> {}])
         ELSE m_comp_stmt_stack
  /\ open' = IF shape.body
               THEN Append(open, [id |-> next,
                      kind |-> IF IsFollowed(shape) THEN "followed" ELSE "ignored"])
               ELSE open
  /\ UNCHANGED <<crashed, returned>>

(* VisitFunctionDecl; a declaration that is not a definition is left at once. *)
VisitFunctionDecl(shape) ==
  /\ ~crashed
  /\ Visit
  /\ reports' = IF IsChecked(shape) /\ shape.ret = "const"
                  THEN reports \cup {Note("const-value", next)} ELSE reports
  /\ m_comp_stmt_stack' =
       IF IsFollowed(shape)
         THEN Append(m_comp_stmt_stack, [func_decl |-> next, always_returns_this |-> {}])
         ELSE m_comp_stmt_stack
  /\ open' = IF shape.body
               THEN Append(open, [id |-> next,
                      kind |-> IF IsFollowed(shape) THEN "followed" ELSE "ignored"])
               ELSE open
  /\ UNCHANGED <<crashed, returned>>

(* The body of a lambda: no Visit method of the visitor looks at it. *)
EnterLambda ==
  /\ ~crashed
  /\ Enter("lambda")
  /\ UNCHANGED <<m_comp_stmt_stack, crashed, reports, returned>>

(* Faulty variant of and_return: the last return statement decides. *)
and_return_Last(func, returns_this) ==
  [func EXCEPT !.always_returns_this = {returns_this}]

(* CheckedFunc::and_return. *)
and_return(func, returns_this) ==
  [func EXCEPT !.always_returns_this =
     IF @ = {} THEN {returns_this} ELSE {b /\ returns_this : b \in @}]

(* VisitReturnStmt.  For "return;" getRetValue() is null, and dyn_cast reads *)
(* through it.  Only a void function or lambda has such a return.            *)
VisitReturnStmt(what, hidden) ==
  /\ ~crashed
  /\ Visit
  /\ open # <<>>
  /\ what = "none" => Top(open).kind # "followed"
  /\ IF hidden \/ m_comp_stmt_stack = <<>>
       THEN UNCHANGED <<m_comp_stmt_stack, crashed>>
       ELSE IF what = "none"
         THEN crashed' = TRUE /\ UNCHANGED m_comp_stmt_stack
         ELSE /\ m_comp_stmt_stack' =
                   [m_comp_stmt_stack EXCEPT ![Len(m_comp_stmt_stack)] =
                      and_return(@, what = "this")]
              /\ UNCHANGED crashed
  /\ returned' = returned \cup {[func |-> Top(open), what |-> what, hidden |-> hidden]}
  /\ UNCHANGED <<open, reports>>

(* dataTraverseStmtPost of the body of the last function of the stack. *)
LeaveFollowed ==
  /\ ~crashed
  /\ LeaveStmt(Kinds)
  /\ m_comp_stmt_stack # <<>>
  /\ Top(m_comp_stmt_stack).func_decl = Top(open).id
  /\ reports' = IF Top(m_comp_stmt_stack).always_returns_this = {TRUE}
                  THEN reports \cup {Note("self-copy", Top(open).id)} ELSE reports
  /\ m_comp_stmt_stack' = Pop(m_comp_stmt_stack)
  /\ UNCHANGED <<crashed, returned>>

(* dataTraverseStmtPost of any other statement. *)
LeaveOther ==
  /\ ~crashed
  /\ LeaveStmt(Kinds)
  /\ m_comp_stmt_stack # <<>> => Top(m_comp_stmt_stack).func_decl # Top(open).id
  /\ UNCHANGED <<m_comp_stmt_stack, crashed, reports, returned>>

Next ==
  \/ \E shape \in Shape : VisitFunctionDecl(shape)
  \/ EnterLambda
  \/ \E what \in Returns, hidden \in BOOLEAN : VisitReturnStmt(what, hidden)
  \/ LeaveFollowed
  \/ LeaveOther

Spec == Init /\ [][Next]_vars

-----------------------------------------------------------------------------

(* The variables have their types. *)
TypeOK ==
  /\ TraversalTypeOK(Kinds)
  /\ m_comp_stmt_stack \in Seq(CheckedFunc)
  /\ crashed \in BOOLEAN
  /\ reports \subseteq [what : Messages, node : Nodes]
  /\ returned \subseteq Return

(* m_comp_stmt_stack holds the open functions that are followed, in the     *)
(* order of their nesting, so that a function's own returns are never       *)
(* booked on another one after it has been left.                            *)
StackIsOpenFunctions ==
  /\ \A k \in 1..Len(m_comp_stmt_stack) :
       \E i \in 1..Len(open) :
         open[i].id = m_comp_stmt_stack[k].func_decl /\ open[i].kind = "followed"
  /\ \A i \in 1..Len(open) :
       open[i].kind = "followed" =>
         \E k \in 1..Len(m_comp_stmt_stack) : open[i].id = m_comp_stmt_stack[k].func_decl
  /\ \A k, l \in 1..Len(m_comp_stmt_stack) :
       k < l => m_comp_stmt_stack[k].func_decl < m_comp_stmt_stack[l].func_decl

(* What the return statements of a function say, those that are hidden left *)
(* out.                                                                     *)
ReturnsOf(f) == {r.what : r \in {q \in returned : q.func.id = f /\ ~q.hidden}}
IsReported(f) == Note("self-copy", f) \in reports

(* A function said to "always return copy of '*this'" has no return         *)
(* statement that returns anything else, whatever lambdas and local classes *)
(* return in it; but for hidden return statements, which the visitor does   *)
(* not see.                                                                 *)
SelfCopiesAreCopies == \A f \in Nodes : IsReported(f) => ReturnsOf(f) \subseteq {"this"}

=============================================================================
