--------------------------- MODULE ForRangeConst ----------------------------
(***************************************************************************)
(* ForRangeConstVisitor: m_checked_vars, the parameters and loop variables *)
(* that may still get 'const', and m_function_decl_stack, the functions    *)
(* whose returns are looked at.  The AST is produced on the fly; a         *)
(* function shares its number with its body, and the variables it or a     *)
(* loop declares are pairs of its number and their position.               *)
(*                                                                         *)
(* A use of a variable is one action: the visit of the expression that     *)
(* needs it mutable, then of the expressions on the path down to it.  As   *)
(* m_mb_refs is keyed by expressions, its entries matter on that path      *)
(* only, and Finds computes them.                                          *)
(***************************************************************************)
EXTENDS Traversal

CONSTANTS
  Signatures,  \* the parameter lists of functions, see Parm
  Paths,       \* what may stand between a use and a variable, see Step
  IndexValues  \* the number of values of an index of a parameter, 256

(* "member" is a parameter that initialises a field of reference type, "other" *)
(* one that is const or no reference.  A templated one has a dependent type *)
(* in the template.                                                         *)
Parm == [type : {"lvalue", "rvalue", "member", "other"}, templated : BOOLEAN]

(* The expressions between a use and a variable, the outermost first.       *)
(* Calls are of member functions that have a const overload, on their       *)
(* object; "value" returns no reference.  "member" is also a unary operator.*)
Step == {"reference", "value", "member", "element", "paren", "conditional"}
Calls == {"reference", "value"}

(* What the constants must be; assumed where they get their values. *)
ForRangeConstAssumption ==
  /\ Signatures \subseteq Seq(Parm)
  /\ Paths \subseteq Seq(Step)
  /\ IndexValues \in Nat \ {0, 1}

VARIABLES
  m_checked_vars,          \* variables not known to be modified, by scope
  m_non_templated_params,  \* for templates, the indices of some parameters
  m_function_decl_stack,   \* functions with a body, see FunctionDecl
  reports,                 \* diagnostics emitted
  decls,                   \* history: variables declared, see Decl
  uses                     \* history: uses that need a mutable variable

vars == <<open, next, m_checked_vars, m_non_templated_params,
          m_function_decl_stack, reports, decls, uses>>

(* "function" is on m_function_decl_stack; a template and a lambda are not, *)
(* nor is a function that shouldProcessDecl() skips, which counts as one.   *)
Kinds == {"function", "template", "lambda", "loop"}

Variables == Nodes \X Nat

CheckedVar == [scope : Nodes, self : Variables]

(* "ret": isMutRef(curr_ret_type()).  The body of a defaulted function is   *)
(* never traversed.                                                         *)
FunctionDecl == [body : Nodes, ret : BOOLEAN, defaulted : BOOLEAN]

(* "due" tells if the check is meant to look at the variable.               *)
Decl == [var : Variables, scope : Nodes, loop : BOOLEAN, due : BOOLEAN]

(* "returned" is from the function on top of m_function_decl_stack,         *)
(* "strayed" from any other; "looped" is the range of a loop with a mutable *)
(* reference or a pointer; "hidden" is the initialiser of a local that      *)
(* shouldProcessDecl() skips.                                               *)
Hows == {"modified", "incremented", "returned", "strayed", "looped", "hidden"}
Use == [var : Variables, how : Hows, path : Seq(Step)]

Messages == {"const-param", "for-range-const"}
Note(what, var) == [what |-> what, of |-> var]

-----------------------------------------------------------------------------

(* Faulty variant of Extracts: a call is followed whatever it returns. *)
Extracts_AnyCall(path) ==
  \A i \in 1..Len(path) : path[i] \in Calls \cup {"member", "element"}

(* extractDeclRef finds the variable at the end of the path. *)
Extracts(path) ==
  \A i \in 1..Len(path) : path[i] \in {"reference", "member", "element"}

(* nullIfNotConsidered of the path from its i-th step on, with what         *)
(* IgnoreParenCasts() skips.                                                *)
SkipParens(path, i) ==
  LET others == {j \in i..Len(path) : path[j] # "paren"}
  IN  IF others = {} THEN Len(path) + 1
      ELSE CHOOSE j \in others : \A k \in others : j <= k
IsConsidered(path, i) ==
  i > Len(path) \/ path[i] \notin {"element", "conditional"}

(* Faulty variant of Finds: only the outermost expression is looked at. *)
Finds_Outermost(path) ==
  LET i == SkipParens(path, 1)
  IN  IsConsidered(path, i) /\ Extracts(SubSeq(path, i, Len(path)))

(* addMutRefProducer of the outermost expression of the path finds the      *)
(* variable, or puts it into m_mb_refs so that the visit of a call finds    *)
(* itself there (producesMutRef) and goes on with its object.               *)
Finds(path) ==
  LET from[i \in 1..(Len(path) + 1)] ==
        LET j == SkipParens(path, i)
        IN  /\ IsConsidered(path, j)
            /\ \/ Extracts(SubSeq(path, j, Len(path)))
               \/ path[j] \in Calls /\ from[j + 1]
  IN  from[1]

(* What VisitFunctionDecl keeps of a template: indices as uint8_t. *)
NonTemplated(signature) ==
  LET at[n \in 0..Len(signature)] ==
        IF n = 0 THEN <<>>
        ELSE IF signature[n].templated THEN at[n - 1]
        ELSE Append(at[n - 1], (n - 1) % IndexValues)
  IN  at[Len(signature)]

(* Faulty variant of not_templated: expected_idx always advances. *)
not_templated_Skip(line, count) ==
  {n \in 1..count : n <= Len(line) /\ line[n] = n - 1}

(* not_templated for the parameters of an instance, one after the other:    *)
(* those that are equal to the next expected index.                         *)
not_templated(line, count) ==
  LET expected_idx[n \in 0..count] ==
        IF n = 0 THEN 0
        ELSE LET idx == expected_idx[n - 1]
             IN  IF idx < Len(line) /\ line[idx + 1] = (n - 1) % IndexValues
                   THEN (idx + 1) % IndexValues ELSE idx
  IN  {n \in 1..count : expected_idx[n] # expected_idx[n - 1]}

-----------------------------------------------------------------------------

Init ==
  /\ TraversalInit
  /\ m_checked_vars = {}
  /\ m_non_templated_params = <<>>
  /\ m_function_decl_stack = <<>>
  /\ reports = {}
  /\ decls = {}
  /\ uses = {}

(* The parameters of mutable reference type that initialise no field. *)
Mutable(signature) ==
  {i \in 1..Len(signature) : signature[i].type \in {"lvalue", "rvalue"}}

(* The lines of m_non_templated_params for a function: at most one, that of *)
(* its template.  An instance that is visited before its template has none. *)
Lines(what, signature) ==
  IF what = "instance" THEN {NonTemplated(signature)} ELSE {}

(* A function with a body; a virtual one is not checked further.  *)
PushFunction(what, signature, ret) ==
  /\ m_function_decl_stack' = Append(m_function_decl_stack,
       [body |-> next, ret |-> ret, defaulted |-> what = "defaulted"])
  /\ m_checked_vars' = m_checked_vars \cup
       IF what = "virtual" THEN {}
       ELSE {[scope |-> next, self |-> <<next, i>>] :
               i \in {j \in Mutable(signature) :
                        \A line \in Lines(what, signature) :
                          j \in not_templated(line, Len(signature))}}

Declare(what, signature) ==
  decls' = decls \cup
    {[var |-> <<next, i>>, scope |-> next, loop |-> FALSE,
      due |-> what # "virtual" /\ (what = "instance" => ~signature[i].templated)] :
       i \in Mutable(signature)}

(* VisitFunctionDecl, and the body; "early instance" is one visited before  *)
(* its template, as one whose return type is deduced may be.                *)
EnterFunction(what, signature, ret) ==
  /\ what \in {"instance", "early instance"} => open = <<>>
  /\ what = "instance" =>
       \E t \in DOMAIN m_non_templated_params :
         m_non_templated_params[t] = NonTemplated(signature)
  /\ Enter("function")
  /\ PushFunction(what, signature, ret)
  /\ Declare(what, signature)
  /\ UNCHANGED <<m_non_templated_params, reports, uses>>

(* VisitFunctionDecl of a defaulted function that the program uses.  *)
VisitDefaulted(signature, ret) ==
  /\ VisitLeaf
  /\ PushFunction("defaulted", signature, ret)
  /\ UNCHANGED <<m_non_templated_params, reports, decls, uses>>

(* VisitFunctionDecl of a template, and its body. *)
EnterTemplate(signature) ==
  /\ open = <<>>
  /\ Enter("template")
  /\ m_non_templated_params' =
       [t \in DOMAIN m_non_templated_params \cup {next} |->
          IF t = next THEN NonTemplated(signature) ELSE m_non_templated_params[t]]
  /\ UNCHANGED <<m_checked_vars, m_function_decl_stack, reports, decls, uses>>

(* The body of a lambda: VisitFunctionDecl is not called for its operator().*)
EnterLambda ==
  /\ Enter("lambda")
  /\ UNCHANGED <<m_checked_vars, m_non_templated_params, m_function_decl_stack,
                 reports, decls, uses>>

(* The variables that the code being visited may name: lambdas name those   *)
(* of the function around them, functions of local classes do not.          *)
InScope ==
  {d.var : d \in {e \in decls :
     \E i \in 1..Len(open) :
       /\ open[i].id = e.scope
       /\ \A j \in (i + 1)..Len(open) : open[j].kind \in {"lambda", "loop"}}}

IsLoop(n) == \E d \in decls : d.scope = n /\ d.loop

(* Faulty variant of removeCheckedVar: the other bindings of a loop stay. *)
removeCheckedVar_One(checked, var) == {c \in checked : c.self # var}

(* removeCheckedVar; one variable of a loop takes the others with it.       *)
removeCheckedVar(checked, var) ==
  LET referred == {c \in checked : c.self = var}
  IN  {c \in checked \ referred :
         ~\E d \in referred : d.scope = c.scope /\ IsLoop(c.scope)}

RemoveIf(found, var) ==
  m_checked_vars' = IF found THEN removeCheckedVar(m_checked_vars, var) ELSE m_checked_vars

Remember(var, how, path) == uses' = uses \cup {[var |-> var, how |-> how, path |-> path]}

(* What VisitCXXForRangeStmt tells apart: whether the range can be modified *)
(* through the loop variable, and how many variables, structured bindings   *)
(* counted one by one, it goes on to check.  "reference" is a mutable       *)
(* reference or a pointer; the latter is never checked.  A const variable   *)
(* is never checked either, nor is any variable if the range is dependent   *)
(* or if shouldProcessStmt() skips the loop.                                *)
Loop == [type : {"reference", "value"}, bindings : {0, 1, 2}]

(* What a loop may range over: a variable, through some path, or none. *)
Ranges == {{}} \cup {{[var |-> x, path |-> p]} : x \in InScope, p \in Paths}

(* VisitCXXForRangeStmt. *)
EnterLoop(loop, range) ==
  /\ open # <<>>
  /\ loop.type # "reference" => range = {}
  /\ Enter("loop")
  /\ m_checked_vars' =
       {[scope |-> next, self |-> <<next, i>>] : i \in 1..loop.bindings} \cup
       IF \E r \in range : Extracts(r.path)
         THEN UNION {removeCheckedVar(m_checked_vars, r.var) : r \in range}
         ELSE m_checked_vars
  /\ decls' = decls \cup
       {[var |-> <<next, i>>, scope |-> next, loop |-> TRUE, due |-> TRUE] :
          i \in 1..loop.bindings}
  /\ uses' = uses \cup {[var |-> r.var, how |-> "looped", path |-> r.path] : r \in range}
  /\ UNCHANGED <<m_non_templated_params, m_function_decl_stack, reports>>

(* VisitBinaryOperator, VisitCallExpr, VisitCXXOperatorCallExpr and         *)
(* VisitCXXMemberCallExpr: an assignment, an argument for a mutable         *)
(* reference or a template, and a method without a const overload.  They    *)
(* return early while m_checked_vars is empty, and do not ask if they are   *)
(* in a macro or on a NOLINT line.  Also VisitVarDecl, for a local that is  *)
(* a mutable reference and not hidden: its initialiser.                     *)
VisitModification(var, path) ==
  /\ VisitLeaf
  /\ RemoveIf(Finds(path), var)
  /\ Remember(var, "modified", path)
  /\ UNCHANGED <<m_non_templated_params, m_function_decl_stack, reports, decls>>

(* A built-in ++ or --: UnitedVisitor never calls VisitUnaryOperator. *)
VisitIncrement(var) ==
  /\ VisitLeaf
  /\ Remember(var, "incremented", <<>>)
  /\ UNCHANGED <<m_checked_vars, m_non_templated_params, m_function_decl_stack,
                 reports, decls>>

(* VisitVarDecl of a local that shouldProcessDecl() skips. *)
VisitHiddenDecl(var) ==
  /\ VisitLeaf
  /\ Remember(var, "hidden", <<>>)
  /\ UNCHANGED <<m_checked_vars, m_non_templated_params, m_function_decl_stack,
                 reports, decls>>

(* Is the code being visited that of the function on top of the stack, not  *)
(* of a lambda or a function inside of it?                                  *)
IsOwn ==
  /\ m_function_decl_stack # <<>>
  /\ \E i \in 1..Len(open) :
       /\ open[i].id = Top(m_function_decl_stack).body
       /\ \A j \in (i + 1)..Len(open) : open[j].kind = "loop"

(* VisitReturnStmt; of a function's own returns those of a mutable          *)
(* reference or pointer only, the others do nothing.                        *)
VisitReturnStmt(var, path) ==
  /\ VisitLeaf
  /\ IF IsOwn
       THEN Top(m_function_decl_stack).ret /\ Remember(var, "returned", path)
       ELSE Remember(var, "strayed", path)
  /\ RemoveIf(m_function_decl_stack # <<>> /\ Top(m_function_decl_stack).ret /\ Finds(path),
              var)
  /\ UNCHANGED <<m_non_templated_params, m_function_decl_stack, reports, decls>>

(* The diagnostics of dataTraverseStmtPost, with both checks enabled: one   *)
(* for a loop, one for every parameter.                                     *)
Reported(stmt, mine) ==
  IF stmt.kind = "loop" THEN {Note("for-range-const", <<c.scope, 0>>) : c \in mine}
  ELSE {Note("const-param", c.self) : c \in mine}

(* Faulty variant of Leave: the function is left on the stack. *)
Leave_KeepFunction ==
  /\ LeaveStmt(Kinds)
  /\ LET mine == {c \in m_checked_vars : c.scope = Top(open).id}
     IN  /\ reports' = reports \cup Reported(Top(open), mine)
         /\ m_checked_vars' = m_checked_vars \ mine
  /\ UNCHANGED <<m_non_templated_params, m_function_decl_stack, decls, uses>>

(* dataTraverseStmtPost and end_body. *)
Leave ==
  /\ LeaveStmt(Kinds)
  /\ LET mine == {c \in m_checked_vars : c.scope = Top(open).id}
     IN  /\ reports' = reports \cup Reported(Top(open), mine)
         /\ m_checked_vars' = m_checked_vars \ mine
  /\ m_function_decl_stack' =
       IF m_function_decl_stack # <<>> /\ Top(m_function_decl_stack).body = Top(open).id
         THEN Pop(m_function_decl_stack) ELSE m_function_decl_stack
  /\ UNCHANGED <<m_non_templated_params, decls, uses>>

Next ==
  \/ \E signature \in Signatures, ret \in BOOLEAN :
       \/ \E what \in {"function", "virtual", "instance", "early instance"} :
            EnterFunction(what, signature, ret)
       \/ VisitDefaulted(signature, ret)
  \/ \E signature \in Signatures : EnterTemplate(signature)
  \/ EnterLambda
  \/ \E loop \in Loop, range \in Ranges : EnterLoop(loop, range)
  \/ \E x \in InScope, path \in Paths : VisitModification(x, path) \/ VisitReturnStmt(x, path)
  \/ \E x \in InScope : VisitHiddenDecl(x) \/ VisitIncrement(x)
  \/ Leave

Spec == Init /\ [][Next]_vars

-----------------------------------------------------------------------------

(* The variables have their types. *)
TypeOK ==
  /\ TraversalTypeOK(Kinds)
  /\ m_checked_vars \subseteq CheckedVar
  /\ DOMAIN m_non_templated_params \subseteq Nodes
  /\ \A t \in DOMAIN m_non_templated_params :
       m_non_templated_params[t] \in Seq(0..(IndexValues - 1))
  /\ m_function_decl_stack \in Seq(FunctionDecl)
  /\ reports \subseteq [what : Messages, of : Variables]
  /\ decls \subseteq Decl
  /\ uses \subseteq Use

(* Nothing is checked after its scope, but the parameters of defaulted      *)
(* functions, which stay; and a loop's variables are checked all or none.   *)
CheckedVarsAreOpen ==
  /\ \A c \in m_checked_vars :
       \/ IsOpen(c.scope)
       \/ \E i \in 1..Len(m_function_decl_stack) :
            m_function_decl_stack[i].body = c.scope /\ m_function_decl_stack[i].defaulted
  /\ \A d, e \in decls :
       d.loop /\ d.scope = e.scope /\ (\E c \in m_checked_vars : c.self = d.var)
       => \E c \in m_checked_vars : c.self = e.var

(* m_function_decl_stack is that of the open functions, until a defaulted   *)
(* one is pushed, which nothing pops: a return never counts for another     *)
(* function that has a body of its own on the stack.                        *)
FunctionsAreStacked ==
  \/ \E k \in 1..Len(m_function_decl_stack) : m_function_decl_stack[k].defaulted
  \/ /\ \A k \in 1..Len(m_function_decl_stack) :
          \E i \in 1..Len(open) :
            open[i].kind = "function" /\ open[i].id = m_function_decl_stack[k].body
     /\ \A i \in 1..Len(open) :
          open[i].kind = "function" =>
            \E k \in 1..Len(m_function_decl_stack) :
              open[i].id = m_function_decl_stack[k].body
     /\ \A k, l \in 1..Len(m_function_decl_stack) :
          k < l => m_function_decl_stack[k].body < m_function_decl_stack[l].body

IsReported(d) ==
  IF d.loop THEN Note("for-range-const", <<d.scope, 0>>) \in reports
  ELSE Note("const-param", d.var) \in reports

Together(d, e) == d.var = e.var \/ (d.loop /\ d.scope = e.scope)

(* The uses that the visitor is able to see, outside of hidden              *)
(* declarations: calls, of any kind, down to an expression whose variable   *)
(* extractDeclRef finds; and that itself at once for the range of a loop.   *)
IsPlain(path) == \A i \in 1..Len(path) : path[i] \in {"reference", "member", "element"}
IsSeen(path) ==
  \E k \in 0..Len(path) :
    LET rest == SubSeq(path, k + 1, Len(path))
    IN  /\ \A i \in 1..k : path[i] \in Calls \cup {"paren"}
        /\ IsPlain(rest)
        /\ rest # <<>> => rest[1] # "element"
MustBeMutable(use) ==
  \/ use.how \in {"modified", "returned"} /\ IsSeen(use.path)
  \/ use.how = "looped" /\ IsPlain(use.path)

(* Only what the checks are about is reported: neither virtual functions,   *)
(* nor parameters that depend on template arguments; and of what is         *)
(* reported, no variable, nor any other of its loop, must be mutable.       *)
ConstablesAreUnmodified ==
  \A d \in decls :
    IsReported(d) =>
      /\ d.due
      /\ \A e \in decls, u \in uses : u.var = e.var /\ Together(d, e) => ~MustBeMutable(u)

(* What is never used in a way that needs it mutable is reported at the end *)
(* of its scope.                                                            *)
UnmodifiedAreReported ==
  \A d \in decls :
    /\ d.due /\ ~IsOpen(d.scope)
    /\ \A e \in decls, u \in uses : u.var = e.var => ~Together(d, e)
    => IsReported(d)

(* "Detects non-modified non-const function parameters" (Checks.md): what   *)
(* is incremented is not reported.  The code does not keep this: see the    *)
(* README.                                                                  *)
IncrementedAreNotReported ==
  \A d \in decls, u \in uses :
    u.var = d.var /\ u.how = "incremented" => ~IsReported(d)

=============================================================================
