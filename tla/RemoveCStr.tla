----------------------------- MODULE RemoveCStr -----------------------------
(***************************************************************************)
(* RemoveCStrVisitor: m_last_visited_function_decl, by which a call inside *)
(* the overload that takes a std::string_view is not told to call that     *)
(* overload, that is, itself.  Nothing resets it: a nested or later        *)
(* function overwrites it, and the end of a function does not restore it.  *)
(* One class is looked at; a function shares its number with its body.     *)
(***************************************************************************)
EXTENDS Traversal

CONSTANT Methods   \* the methods of the class, see Method

(* "cstr" is const char*, "view" std::string_view, "string" a const         *)
(* std::string& or one by value, "other" any other type.                    *)
Type == {"cstr", "view", "string", "other"}
Method == [name : STRING, params : Seq(Type)]

(* What the constants must be; assumed where they get their values. *)
RemoveCStrAssumption ==
  \A m \in Methods : m.name \in STRING /\ m.params \in Seq(Type)

VARIABLES
  m_last_visited_function_decl,  \* see FunctionDecl
  reports,                       \* diagnostics emitted
  functions,                     \* history: the functions with a body
  latest,                        \* history: the function visited last
  calls                          \* history: the calls, see Call

vars == <<open, next, m_last_visited_function_decl, reports, functions, latest, calls>>

Kinds == {"function", "lambda"}

(* "method" is the method of the class that it is, or empty. *)
FunctionDecl == [id : Nodes \cup {Null}, method : {{}} \cup {{m} : m \in Methods}]
NoFunction == [id |-> Null, method |-> {}]

(* A call for which "overload" is available; "inside" is the function       *)
(* around it, be it around a lambda; "fresh" tells if none was visited since. *)
Call == [id : Nodes, overload : Methods, inside : FunctionDecl, fresh : BOOLEAN]

Note(what, call) == [what |-> what, call |-> call]

-----------------------------------------------------------------------------

Init ==
  /\ TraversalInit
  /\ m_last_visited_function_decl = NoFunction
  /\ reports = {}
  /\ functions = {NoFunction}
  /\ latest = Null
  /\ calls = {}

(* check_for_str_info. *)
IsString(type) == type \in {"view", "string"}

(* The positions where compareCurrentAndOverload leaves its loop: those     *)
(* with types that differ, but the first if both are strings.               *)
Differing(current, overload) ==
  {i \in 1..Len(current) : i <= Len(overload) /\ current[i] # overload[i]}

(* Faulty variant of Refused: the first difference may be in any types. *)
Refused_AnyType(current, overload) ==
  {i \in Differing(current, overload) : \E j \in Differing(current, overload) : j < i}

Refused(current, overload) ==
  {i \in Differing(current, overload) :
     \/ ~IsString(current[i]) \/ ~IsString(overload[i])
     \/ \E j \in Differing(current, overload) : j < i}

(* compareCurrentAndOverload, for the same return type: what it may return. *)
(* The names are not compared, nor the numbers of parameters, for the code  *)
(* compares that of the current method with itself; with more parameters    *)
(* than the overload it reads past the end of the overload's.               *)
compareCurrentAndOverload(current, overload) ==
  IF current = overload THEN {TRUE}
  ELSE IF Refused(current.params, overload.params) # {} THEN {FALSE}
  ELSE IF Len(current.params) > Len(overload.params) THEN BOOLEAN
  ELSE {TRUE}

(* The overloads that VisitCXXMemberCallExpr finds for a call of a method   *)
(* with c_str() as its n-th argument.                                       *)
Overloads(method, n) ==
  {m \in Methods :
     /\ m # method /\ m.name = method.name
     /\ method.params[n] = "cstr"
     /\ m.params = [method.params EXCEPT ![n] = "view"]}

-----------------------------------------------------------------------------

(* Faulty variant of EnterFunction: only declarations are remembered. *)
EnterFunction_NotKept(method) ==
  /\ Enter("function")
  /\ functions' = functions \cup {[id |-> next, method |-> method]}
  /\ latest' = next
  /\ UNCHANGED <<m_last_visited_function_decl, reports, calls>>

(* VisitFunctionDecl of a definition, and its body. *)
EnterFunction(method) ==
  /\ Enter("function")
  /\ LET function == [id |-> next, method |-> method]
     IN  /\ m_last_visited_function_decl' = function
         /\ functions' = functions \cup {function}
  /\ latest' = next
  /\ UNCHANGED <<reports, calls>>

(* VisitFunctionDecl of a declaration.  *)
VisitDeclaration(method) ==
  /\ VisitLeaf
  /\ m_last_visited_function_decl' = [id |-> next, method |-> method]
  /\ latest' = next
  /\ UNCHANGED <<reports, functions, calls>>

(* VisitFunctionDecl of a function that shouldProcessDecl() skips. *)
EnterHidden(method) ==
  /\ Enter("function")
  /\ functions' = functions \cup {[id |-> next, method |-> method]}
  /\ UNCHANGED <<m_last_visited_function_decl, reports, latest, calls>>

EnterLambda ==
  /\ Enter("lambda")
  /\ UNCHANGED <<m_last_visited_function_decl, reports, functions, latest, calls>>

(* The function around the code being visited. *)
IsAround(i) ==
  open[i].kind = "function" /\ \A j \in (i + 1)..Len(open) : open[j].kind # "function"
Inside ==
  IF \E i \in 1..Len(open) : IsAround(i)
    THEN CHOOSE f \in functions : \E i \in 1..Len(open) : IsAround(i) /\ f.id = open[i].id
    ELSE NoFunction

(* The results of compareCurrentAndOverload for the method visited last, if *)
(* it is one of the class (getCorrespondingMethodDeclaredInClass).          *)
SameAsLast(overload) ==
  IF m_last_visited_function_decl.method = {} THEN {FALSE}
  ELSE UNION {compareCurrentAndOverload(prev, overload) :
                prev \in m_last_visited_function_decl.method}

(* VisitCXXMemberCallExpr; a call in a system header or on a NOLINT line is *)
(* passed over at once and is not an event.                                 *)
VisitCXXMemberCallExpr(method, n) ==
  /\ VisitLeaf
  /\ \E overload \in Overloads(method, n) :
       /\ \E same \in SameAsLast(overload) :
            reports' = IF same THEN reports ELSE reports \cup {Note("replace", next)}
       /\ calls' = calls \cup {[id |-> next, overload |-> overload, inside |-> Inside,
                                fresh |-> latest = Inside.id]}
  /\ UNCHANGED <<m_last_visited_function_decl, functions, latest>>

(* The same for a parameter of type std::string_view: it was constructed    *)
(* from the result of c_str().                                              *)
VisitImplicitCast ==
  /\ VisitLeaf
  /\ reports' = reports \cup {Note("implicit-cast", next)}
  /\ UNCHANGED <<m_last_visited_function_decl, functions, latest, calls>>

Leave ==
  /\ LeaveStmt(Kinds)
  /\ UNCHANGED <<m_last_visited_function_decl, reports, functions, latest, calls>>

Next ==
  \/ \E method \in {{}} \cup {{m} : m \in Methods} :
       EnterFunction(method) \/ VisitDeclaration(method) \/ EnterHidden(method)
  \/ EnterLambda
  \/ \E m \in Methods : \E n \in 1..Len(m.params) : VisitCXXMemberCallExpr(m, n)
  \/ VisitImplicitCast
  \/ Leave

Spec == Init /\ [][Next]_vars

-----------------------------------------------------------------------------

(* The variables have their types. *)
TypeOK ==
  /\ TraversalTypeOK(Kinds)
  /\ m_last_visited_function_decl \in FunctionDecl
  /\ reports \subseteq [what : {"replace", "implicit-cast"}, call : Nodes]
  /\ functions \subseteq FunctionDecl
  /\ latest \in Nodes \cup {Null}
  /\ calls \subseteq Call

IsReported(call) == Note("replace", call.id) \in reports

(* A function is not told to call itself, unless another function was       *)
(* visited since it was entered.                                            *)
SuggestionsEnd ==
  \A c \in calls :
    c.fresh /\ c.inside.method = {c.overload} => ~IsReported(c)

(* If no other function was visited since, a call (in no system header and   *)
(* on no NOLINT line) is passed over only in a method whose parameters are, *)
(* as far as both have any, those of the overload, but at most one, a       *)
(* string in both; a method without parameters is one of them.              *)
SilentCallsAreInOverloads ==
  \A c \in calls :
    c.fresh /\ ~IsReported(c) =>
      \E m \in c.inside.method :
        LET o == c.overload
            others == {i \in 1..Len(m.params) :
                         i <= Len(o.params) /\ m.params[i] # o.params[i]}
        IN  \A i, j \in others :
              i = j /\ {m.params[i], o.params[i]} \subseteq {"view", "string"}

=============================================================================
