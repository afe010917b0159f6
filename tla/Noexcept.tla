------------------------------ MODULE Noexcept -------------------------------
(***************************************************************************)
(* NoexceptVisitor: VisitFunctionDecl searches the body of a noexcept      *)
(* function for the first statement that may throw.  The search meets the  *)
(* statements in the order of the traversal, and is modelled along with    *)
(* it; the bodies of functions inside of it are not among its statements,  *)
(* they are searched on their own.  A function shares its number with its  *)
(* body.                                                                   *)
(***************************************************************************)
EXTENDS Traversal

CONSTANTS
  Functions,  \* what is visited as a function, see FunctionDecl
  Callees     \* what is called, see Callee

(* clang::ExceptionSpecificationType, in its order. *)
ExceptionSpecs ==
  <<"None", "DynamicNone", "Dynamic", "MSAny", "NoThrow", "BasicNoexcept",
    "DependentNoexcept", "NoexceptFalse", "NoexceptTrue", "Unevaluated",
    "Uninstantiated", "Unparsed">>
AnySpec == {ExceptionSpecs[i] : i \in DOMAIN ExceptionSpecs}
Rank(spec) == CHOOSE i \in DOMAIN ExceptionSpecs : ExceptionSpecs[i] = spec

(* "hidden" is what shouldProcessDecl() or, for the body, shouldProcessStmt() *)
(* skips; "instance" an instance of a template.                             *)
FunctionDecl == [spec : AnySpec, instance : BOOLEAN, hidden : BOOLEAN]

(* "body" tells if a body is seen, "assert" if it is __assert_fail.         *)
Callee == [spec : AnySpec, body : BOOLEAN, assert : BOOLEAN, defaulted : BOOLEAN]

(* What the constants must be; assumed where they get their values. *)
NoexceptAssumption == Functions \subseteq FunctionDecl /\ Callees \subseteq Callee

VARIABLES
  reports,    \* diagnostics emitted, a warning with its note
  crashed,    \* was null given to dyn_cast
  functions,  \* history: the functions with a body
  stmts       \* history: the statements, see Stmt

vars == <<open, next, reports, crashed, functions, stmts>>

(* "try" and "lambda" are statements inside a body: that of a function may  *)
(* be a try block as well, but is not looked at itself.  "hidden" is what   *)
(* shouldProcessStmt() skips.                                               *)
Skipped == {"try", "lambda", "hidden"}
Kinds == {"function", "statement"} \cup Skipped

(* "call" is a call of a function or of operator(), "method" one of a       *)
(* method or a constructor, "assignment" one of an assignment operator that *)
(* is a method.  Pointers to functions have no callee.  "unresolved" is an  *)
(* assignment in a template that may be an overloaded one, "other" also any *)
(* other operator.                                                          *)
Calls == {"call", "method", "assignment"}
Expr == {"new", "throw", "unresolved", "other"} \cup Calls

(* "function" is the innermost one around the statement, "skipped" tells if *)
(* it is inside a skipped statement of that function.                       *)
Stmt == [id : Nodes, expr : Expr, callee : {{}} \cup {{c} : c \in Callees},
         function : Nodes, skipped : BOOLEAN]

-----------------------------------------------------------------------------

Init ==
  /\ TraversalInit
  /\ reports = {}
  /\ crashed = FALSE
  /\ functions = {}
  /\ stmts = {}

(* Faulty variant of isNoexcept: what is evaluated later is not noexcept. *)
isNoexcept_Evaluated(spec) ==
  spec \in {"DynamicNone", "NoThrow", "BasicNoexcept", "DependentNoexcept", "NoexceptTrue"}

isNoexcept(spec) ==
  \/ spec \in {"DynamicNone", "NoThrow", "BasicNoexcept", "DependentNoexcept"}
  \/ Rank(spec) >= Rank("NoexceptTrue")

(* The overloads of shouldReport. *)
shouldReport(expr, callee) ==
  \/ expr \in {"new", "throw"}
  \/ /\ expr \in Calls
     /\ \E c \in callee :
          /\ ~c.body /\ ~c.assert /\ ~isNoexcept(c.spec)
          /\ expr # "call" => ~(c.spec = "None" /\ c.defaulted)

(* The conditions of VisitFunctionDecl. *)
IsSearched(f) ==
  /\ ~f.hidden
  /\ isNoexcept(f.spec)
  /\ f.instance => f.spec # "DependentNoexcept" /\ Rank(f.spec) < Rank("Unevaluated")

(* VisitFunctionDecl of a function with a body, up to the search. *)
EnterFunction(f) ==
  /\ ~crashed
  /\ Enter("function")
  /\ functions' = functions \cup {[id |-> next, decl |-> f]}
  /\ UNCHANGED <<reports, crashed, stmts>>

(* The function around the code being visited, and what is open inside it.  *)
Around == CHOOSE i \in 1..Len(open) :
  open[i].kind = "function" /\ \A j \in (i + 1)..Len(open) : open[j].kind # "function"
Current == CHOOSE f \in functions : f.id = open[Around].id
InSkipped == \E j \in (Around + 1)..Len(open) : open[j].kind \in Skipped

(* Faulty variant of IsReached: the bodies of lambdas are searched. *)
IsReached_InLambda ==
  /\ IsSearched(Current.decl)
  /\ \A j \in (Around + 1)..Len(open) : open[j].kind \notin {"try", "hidden"}
  /\ \A r \in reports : r.function # Current.id

(* Is the search of find_reportable_child here? *)
IsReached ==
  /\ IsSearched(Current.decl) /\ ~InSkipped
  /\ \A r \in reports : r.function # Current.id

(* A statement of find_reportable_child. *)
EnterStmt(expr, callee) ==
  /\ ~crashed /\ open # <<>>
  /\ Enter("statement")
  /\ crashed' = (IsReached /\ expr = "unresolved")
  /\ reports' = reports \cup
       IF IsReached /\ shouldReport(expr, callee)
         THEN {[function |-> Current.id, stmt |-> next]} ELSE {}
  /\ stmts' = stmts \cup {[id |-> next, expr |-> expr, callee |-> callee,
                           function |-> Current.id, skipped |-> InSkipped]}
  /\ UNCHANGED functions

(* A statement that find_reportable_child skips, and what is inside of it. *)
EnterSkipped(kind) ==
  /\ ~crashed /\ open # <<>>
  /\ Enter(kind)
  /\ UNCHANGED <<reports, crashed, functions, stmts>>

Leave ==
  /\ ~crashed
  /\ LeaveStmt(Kinds)
  /\ UNCHANGED <<reports, crashed, functions, stmts>>

Next ==
  \/ \E f \in Functions : EnterFunction(f)
  \/ \E expr \in Expr, callee \in {{}} \cup {{c} : c \in Callees} :
       (expr \notin Calls => callee = {}) /\ EnterStmt(expr, callee)
  \/ \E kind \in Skipped : EnterSkipped(kind)
  \/ Leave

Spec == Init /\ [][Next]_vars

-----------------------------------------------------------------------------

(* The variables have their types. *)
TypeOK ==
  /\ TraversalTypeOK(Kinds)
  /\ reports \subseteq [function : Nodes, stmt : Nodes]
  /\ crashed \in BOOLEAN
  /\ functions \subseteq [id : Nodes, decl : Functions]
  /\ stmts \subseteq Stmt

(* What a specification allows to throw; the others are non-throwing, or    *)
(* not known yet.                                                           *)
Throwing == {"None", "Dynamic", "MSAny", "NoexceptFalse"}
Unknown == {"DependentNoexcept", "Unevaluated", "Uninstantiated", "Unparsed"}

(* A statement that may throw: throw, new, and a call of a function without *)
(* a body that may throw.                                                   *)
MayThrow(s) ==
  \/ s.expr \in {"new", "throw"}
  \/ \E c \in s.callee : ~c.body /\ ~c.assert /\ c.spec \in Throwing

(* A function is reported once, only if it is noexcept, be it by an         *)
(* assumption on a template, and for a statement of its own that may throw  *)
(* and is not inside a try block or a lambda.                               *)
NotesAreThrows ==
  \A r \in reports :
    /\ \E f \in functions : f.id = r.function /\ f.decl.spec \notin Throwing
    /\ \E s \in stmts :
         s.id = r.stmt /\ s.function = r.function /\ ~s.skipped /\ MayThrow(s)
    /\ \A q \in reports : q.function = r.function => q = r

(* "Checks noexcept specified functions for calls of potentially throwing   *)
(* functions which bodies aren't seen" (Checks.md): the note is at the      *)
(* first of them, unless it is inside a try block or a lambda.  Implicit    *)
(* and defaulted methods, whose specification is not evaluated, are left    *)
(* out, and instances with one that is not known.                           *)
FirstThrowIsNoted ==
  \A f \in functions, s \in stmts :
    /\ ~f.decl.hidden /\ f.decl.spec \notin Throwing
    /\ f.decl.instance => f.decl.spec \notin Unknown
    /\ s.function = f.id /\ ~s.skipped /\ MayThrow(s)
    /\ \A c \in s.callee : ~c.defaulted
    => \E r \in reports : r.function = f.id /\ r.stmt <= s.id

=============================================================================
