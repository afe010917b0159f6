----------------------------- MODULE MCMatchers -----------------------------
(* Instances for TLC: nodes and arguments for Matchers.                      *)
EXTENDS Matchers

MCToken(class, kind, value, children) ==
  [class |-> class, kind |-> kind, value |-> value, children |-> children,
   effect |-> class = "CallExpr", macro |-> FALSE]
MCTokens ==
  {MCToken("IntegerLiteral", "valued", 1, 0), MCToken("IntegerLiteral", "valued", 2, 0),
   [MCToken("IntegerLiteral", "valued", 1, 0) EXCEPT !.macro = TRUE],
   MCToken("MemberExpr", "valued", 1, 1), MCToken("MemberExpr", "valued", 2, 1),
   MCToken("CallExpr", "plain", 0, 1), MCToken("CallExpr", "plain", 0, 2),
   MCToken("CXXStaticCastExpr", "other", 0, 1)}

(* A position, a key of one piece, one whose location is not its start, as  *)
(* that of a member, and a default value.                                   *)
MCArg(pieces, loc, default) == [pieces |-> pieces, loc |-> loc, default |-> default]
MCArgs == {MCArg(<<"k">>, 1, FALSE), MCArg(<<"o.", "k">>, 2, FALSE), MCArg(<<"V", "()">>, 1, TRUE)}

=============================================================================
