---------------------------- MODULE MCFunctions -----------------------------
(* Signatures, methods and callees for TLC. *)
EXTENDS FunctionVisitors

(* Parameters of which the first depends on template arguments. *)
Templated(type) == [type |-> type, templated |-> TRUE]
Plain(type) == [type |-> type, templated |-> FALSE]
MCConstSignatures == {<<Templated("lvalue"), Plain("rvalue"), Plain("member")>>}
MCPaths == {<<>>, <<"value">>, <<"member", "value">>}

(* None, one, and two of which one or none is templated. *)
MCMoveSignatures ==
  {<<>>, <<Plain("const lvalue")>>, <<Plain("other"), Plain("lvalue")>>,
   <<Templated("other"), Plain("const rvalue")>>,
   <<Templated("const rvalue"), Plain("other")>>}

(* Overloads for const char* and std::string_view, a longer one, and another *)
(* method.                                                                  *)
Method(name, types) == [name |-> name, params |-> types]
MCMethods == {Method("set", <<"cstr">>), Method("set", <<"view">>),
              Method("set", <<"view", "other">>), Method("get", <<"string">>),
              Method("clear", <<>>)}

FunctionDecl(spec, instance, hidden) ==
  [spec |-> spec, instance |-> instance, hidden |-> hidden]
MCFunctionDecls ==
  {FunctionDecl(spec, instance, FALSE) :
     spec \in {"None", "BasicNoexcept", "Unevaluated"}, instance \in BOOLEAN} \cup
  {FunctionDecl("NoexceptTrue", FALSE, TRUE)}
Callee(spec, defaulted) ==
  [spec |-> spec, body |-> FALSE, assert |-> FALSE, defaulted |-> defaulted]
MCCallees == {Callee("None", FALSE), Callee("None", TRUE), Callee("NoThrow", FALSE),
              Callee("Unevaluated", FALSE)}

=============================================================================
