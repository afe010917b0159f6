---------------------------- MODULE ImproperMove ----------------------------
(***************************************************************************)
(* ImproperMoveVisitor: the parameters of the functions visited and the    *)
(* innermost implicit cast.  Nothing is forgotten between the declarations *)
(* of a translation unit (clear() does nothing).  A parameter is its       *)
(* address; addresses are compared, and allocated in any order.  "hidden"  *)
(* is what shouldProcessExpr() or shouldProcessDecl() skips, in a macro or *)
(* on a NOLINT line.                                                       *)
(***************************************************************************)
EXTENDS Traversal, FiniteSets, Functions

CONSTANTS
  Signatures,  \* the parameter lists of functions, see Shape
  Addresses    \* where parameters are allocated

(* "lvalue" and "const lvalue" are an & and a const&, not of a private      *)
(* method; "const rvalue" is a const&&.  A templated parameter has a type   *)
(* that depends on template arguments, or its function is an instance of    *)
(* such a function.                                                         *)
Shape == [type : {"lvalue", "const lvalue", "const rvalue", "other"}, templated : BOOLEAN]

(* What the constants must be; assumed where they get their values. *)
ImproperMoveAssumption ==
  /\ Signatures \subseteq Seq(Shape)
  /\ Addresses \subseteq Nat

VARIABLES
  m_params_stack,     \* functions and their parameters, sorted
  m_last_const_cast,  \* the last CK_NoOp cast that was entered, or null
  undefined,          \* was back() of an empty vector called
  reports,            \* diagnostics emitted
  params,             \* history: the parameters, see Parameter
  moves               \* history: the calls of std::move, see Move

vars == <<open, next, m_params_stack, m_last_const_cast, undefined, reports, params, moves>>

(* "function" has its parameters on m_params_stack; "unknown" has not: it   *)
(* is a lambda, or a function that is hidden.  "cast" is an implicit        *)
(* CK_NoOp cast, "call" any other expression, or a hidden move of a         *)
(* temporary.                                                               *)
Kinds == {"function", "unknown", "cast", "call"}

Messages == {"move-lvalue", "move-rvalue", "move-to-const", "const-rvalue"}

ParamTraits == [parm_decl : Addresses, is_non_const_lvalue : BOOLEAN]

Parameter == [addr : Addresses, owner : Nodes, shape : Shape]

(* A move of a parameter: the call, whether the parameter's function is the *)
(* one that was pushed last, and whether the call is hidden.                *)
Move == [call : Nodes, parm : Addresses, own : BOOLEAN, hidden : BOOLEAN]

Note(what, of) == [what |-> what, of |-> of]

-----------------------------------------------------------------------------

Init ==
  /\ TraversalInit
  /\ m_params_stack = <<>>
  /\ m_last_const_cast = Null
  /\ undefined = FALSE
  /\ reports = {}
  /\ params = {}
  /\ moves = {}

(* Faulty variant of is_not_template: every parameter is one. *)
is_not_template_Always(signature, parm_num) == TRUE

(* is_not_template, called for one parameter after the other: it gives up   *)
(* after as many calls as the function has parameters not templated.        *)
is_not_template(signature, parm_num) ==
  /\ ~signature[parm_num].templated
  /\ parm_num <= Cardinality({i \in 1..Len(signature) : ~signature[i].templated})

(* Faulty variant of sorted: the parameters keep their order. *)
sorted_Never(traits) == {traits}

(* std::sort by address: what it may leave. *)
sorted(traits) ==
  {t \in {[i \in DOMAIN traits |-> traits[p[i]]] :
            p \in Bijection(DOMAIN traits, DOMAIN traits)} :
     \A k, l \in DOMAIN t : k < l => t[k].parm_decl <= t[l].parm_decl}

(* The addresses that the parameters of a function may get. *)
Allocations(signature) ==
  {a \in [1..Len(signature) -> Addresses \ {p.addr : p \in params}] : IsInjective(a)}

Remember(signature, a) ==
  params' = params \cup
    {[addr |-> a[i], owner |-> next, shape |-> signature[i]] : i \in 1..Len(signature)}

(* A reference type is never const-qualified itself. *)
is_non_const_lvalue(parm) == parm.type \in {"lvalue", "const lvalue"}

Traits(signature, a) ==
  [i \in 1..Len(signature) |->
    [parm_decl |-> a[i], is_non_const_lvalue |-> is_non_const_lvalue(signature[i])]]

(* VisitFunctionDecl of a function with a body. *)
EnterFunction(signature, a) ==
  /\ open # <<>> => Top(open).kind \in {"function", "unknown"}
  /\ Enter("function")
  /\ \E traits \in sorted(Traits(signature, a)) :
       m_params_stack' = Append(m_params_stack, [body |-> next, params |-> traits])
  /\ reports' = reports \cup
       {Note("const-rvalue", a[i]) : i \in {j \in 1..Len(signature) :
          is_not_template(signature, j) /\ signature[j].type = "const rvalue"}}
  /\ Remember(signature, a)
  /\ UNCHANGED <<m_last_const_cast, undefined, moves>>

(* The body of a lambda or of a function that is skipped. *)
EnterUnknown(signature, a) ==
  /\ Enter("unknown")
  /\ Remember(signature, a)
  /\ UNCHANGED <<m_params_stack, m_last_const_cast, undefined, reports, moves>>

EnterCall ==
  /\ open # <<>>
  /\ Enter("call")
  /\ UNCHANGED <<m_params_stack, m_last_const_cast, undefined, reports, params, moves>>

(* dataTraverseStmtPre. *)
EnterCast ==
  /\ open # <<>>
  /\ Enter("cast")
  /\ m_last_const_cast' = next
  /\ UNCHANGED <<m_params_stack, undefined, reports, params, moves>>

(* Faulty variant of LeaveCast: the cast is kept. *)
LeaveCast_Keep ==
  /\ LeaveStmt({"cast"})
  /\ UNCHANGED <<m_params_stack, m_last_const_cast, undefined, reports, params, moves>>

(* dataTraverseStmtPost. *)
LeaveCast ==
  /\ LeaveStmt({"cast"})
  /\ m_last_const_cast' = Null
  /\ UNCHANGED <<m_params_stack, undefined, reports, params, moves>>

LeaveOther ==
  /\ LeaveStmt(Kinds \ {"cast"})
  /\ UNCHANGED <<m_params_stack, m_last_const_cast, undefined, reports, params, moves>>

(* The first part of VisitCallExpr; "same" tells if the purified types of   *)
(* the cast and of the call are equal.                                      *)
ReportConst(same) ==
  IF m_last_const_cast # Null /\ same THEN {Note("move-to-const", next)} ELSE {}

(* Faulty variant of findParameter: std::upper_bound. *)
findParameter_Upper(parm) ==
  LET curr_params == Top(m_params_stack).params
      greater == {i \in 1..Len(curr_params) : curr_params[i].parm_decl > parm}
  IN  {curr_params[i] : i \in {j \in greater : \A k \in greater : j <= k}}

(* findParameter: std::lower_bound, which may return another parameter. *)
findParameter(parm) ==
  LET curr_params == Top(m_params_stack).params
      notLess == {i \in 1..Len(curr_params) : curr_params[i].parm_decl >= parm}
  IN  {curr_params[i] : i \in {j \in notLess : \A k \in notLess : j <= k}}

(* VisitCallExpr of std::move(parm). *)
VisitMove(p, same, hidden) ==
  /\ ~undefined
  /\ IsOpen(p.owner)
  /\ VisitLeaf
  /\ \/ hidden /\ UNCHANGED <<undefined, reports>>
     \/ /\ ~hidden
        /\ undefined' = (m_params_stack = <<>>)
        /\ reports' = reports \cup ReportConst(same) \cup
             IF m_params_stack # <<>> /\ \E t \in findParameter(p.addr) : t.is_non_const_lvalue
               THEN {Note("move-lvalue", next)} ELSE {}
  /\ moves' = moves \cup
       {[call |-> next, parm |-> p.addr, hidden |-> hidden,
         own |-> m_params_stack # <<>> /\ Top(m_params_stack).body = p.owner]}
  /\ UNCHANGED <<m_params_stack, m_last_const_cast, params>>

(* VisitCallExpr of std::move of a temporary. *)
VisitMoveOfTemporary(same) ==
  /\ open # <<>>
  /\ VisitLeaf
  /\ reports' = reports \cup ReportConst(same) \cup {Note("move-rvalue", next)}
  /\ UNCHANGED <<m_params_stack, m_last_const_cast, undefined, params, moves>>

Next ==
  \/ \E signature \in Signatures : \E a \in Allocations(signature) :
       EnterFunction(signature, a) \/ EnterUnknown(signature, a)
  \/ EnterCall \/ EnterCast \/ LeaveCast \/ LeaveOther
  \/ \E p \in params, same, hidden \in BOOLEAN : VisitMove(p, same, hidden)
  \/ \E same \in BOOLEAN : VisitMoveOfTemporary(same)

Spec == Init /\ [][Next]_vars

-----------------------------------------------------------------------------

(* The variables have their types; the parameters of every function are     *)
(* sorted, as std::lower_bound requires.                                    *)
TypeOK ==
  /\ TraversalTypeOK(Kinds)
  /\ \A i \in 1..Len(m_params_stack) :
       LET f == m_params_stack[i]
       IN  /\ f.body \in Nodes /\ f.params \in Seq(ParamTraits)
           /\ \A k, l \in 1..Len(f.params) :
                k < l => f.params[k].parm_decl < f.params[l].parm_decl
  /\ m_last_const_cast \in Nodes \cup {Null}
  /\ undefined \in BOOLEAN
  /\ reports \subseteq [what : Messages, of : Nodes \cup Addresses]
  /\ params \subseteq Parameter
  /\ moves \subseteq Move

(* m_last_const_cast never dangles: it is the innermost open cast, or null. *)
LastCastIsInnermost ==
  m_last_const_cast # Null =>
    \E i \in 1..Len(open) :
      /\ open[i] = [id |-> m_last_const_cast, kind |-> "cast"]
      /\ \A j \in (i + 1)..Len(open) : open[j].kind # "cast"

(* Of the moves from the parameters of the function that was visited last,  *)
(* those that are not hidden are reported if the parameter is a non-const   *)
(* lvalue reference; none is that is hidden or whose parameter is no lvalue *)
(* reference.  A const lvalue is reported as a non-const one, for which     *)
(* there is no reason in the documentation (see the README): nothing is     *)
(* said of it.                                                              *)
OwnMovesAreExact ==
  \A m \in moves, p \in params :
    m.own /\ m.parm = p.addr =>
      LET reported == Note("move-lvalue", m.call) \in reports
      IN  /\ ~m.hidden /\ p.shape.type = "lvalue" => reported
          /\ m.hidden \/ p.shape.type \notin {"lvalue", "const lvalue"} => ~reported

(* Only const rvalue parameters that do not depend on template arguments    *)
(* are reported as const rvalues.                                           *)
ConstRvaluesAreSound ==
  \A p \in params :
    Note("const-rvalue", p.addr) \in reports =>
      p.shape = [type |-> "const rvalue", templated |-> FALSE]

=============================================================================
