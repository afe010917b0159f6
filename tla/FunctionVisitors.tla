------------------------- MODULE FunctionVisitors --------------------------
(***************************************************************************)
(* The visitors that look at functions, each alone on every AST of a few   *)
(* nodes: Init chooses which one is enabled, and the others rest.          *)
(***************************************************************************)
EXTENDS Traversal

CONSTANTS
  ConstSignatures, Paths, IndexValues,  \* see ForRangeConst
  Methods,                              \* see RemoveCStr
  MoveSignatures, Addresses,            \* see ImproperMove
  FunctionDecls, Callees                \* see Noexcept

VARIABLES
  visitor,
  reports,
  m_checked_vars, m_non_templated_params, m_function_decl_stack, decls, uses,
  m_last_visited_function_decl, functions, latest, calls,
  m_params_stack, m_last_const_cast, undefined, params, moves,
  crashed, bodies, stmts

FR == INSTANCE ForRangeConst WITH Signatures <- ConstSignatures
RC == INSTANCE RemoveCStr
IV == INSTANCE ImproperMove WITH Signatures <- MoveSignatures
NE == INSTANCE Noexcept WITH Functions <- FunctionDecls, functions <- bodies

ASSUME FunctionsAssumption ==
  /\ FR!ForRangeConstAssumption
  /\ RC!RemoveCStrAssumption
  /\ IV!ImproperMoveAssumption
  /\ NE!NoexceptAssumption

ofForRangeConst ==
  <<m_checked_vars, m_non_templated_params, m_function_decl_stack, decls, uses>>
ofRemoveCStr == <<m_last_visited_function_decl, functions, latest, calls>>
ofImproperMove == <<m_params_stack, m_last_const_cast, undefined, params, moves>>
ofNoexcept == <<crashed, bodies, stmts>>

vars ==
  <<open, next, visitor, reports, ofForRangeConst, ofRemoveCStr, ofImproperMove, ofNoexcept>>

-----------------------------------------------------------------------------

Init ==
  /\ visitor \in {"ForRangeConst", "RemoveCStr", "ImproperMove", "Noexcept"}
  /\ FR!Init /\ RC!Init /\ IV!Init /\ NE!Init

ForRangeConstNext ==
  /\ visitor = "ForRangeConst" /\ FR!Next
  /\ UNCHANGED <<visitor, ofRemoveCStr, ofImproperMove, ofNoexcept>>

RemoveCStrNext ==
  /\ visitor = "RemoveCStr" /\ RC!Next
  /\ UNCHANGED <<visitor, ofForRangeConst, ofImproperMove, ofNoexcept>>

ImproperMoveNext ==
  /\ visitor = "ImproperMove" /\ IV!Next
  /\ UNCHANGED <<visitor, ofForRangeConst, ofRemoveCStr, ofNoexcept>>

NoexceptNext ==
  /\ visitor = "Noexcept" /\ NE!Next
  /\ UNCHANGED <<visitor, ofForRangeConst, ofRemoveCStr, ofImproperMove>>

Next == ForRangeConstNext \/ RemoveCStrNext \/ ImproperMoveNext \/ NoexceptNext

Spec == Init /\ [][Next]_vars

-----------------------------------------------------------------------------

(* The members of every visitor have their types; among them are that the   *)
(* parameters of a function are sorted, as std::lower_bound requires, and   *)
(* that the indices of a template's parameters are bytes.                   *)
FunctionsTypeOK ==
  /\ visitor = "ForRangeConst" => FR!TypeOK
  /\ visitor = "RemoveCStr" => RC!TypeOK
  /\ visitor = "ImproperMove" => IV!TypeOK
  /\ visitor = "Noexcept" => NE!TypeOK

(* The visitors know where they are: ForRangeConstVisitor's                *)
(* m_function_decl_stack is that of the open functions, until a defaulted   *)
(* one is visited, and m_checked_vars are variables that are in scope, those *)
(* of a loop all or none; ImproperMoveVisitor's m_last_const_cast never     *)
(* dangles.                                                                 *)
PositionsAreExact ==
  /\ visitor = "ForRangeConst" => FR!FunctionsAreStacked /\ FR!CheckedVarsAreOpen
  /\ visitor = "ImproperMove" => IV!LastCastIsInnermost

(* ForRangeConstVisitor reports no variable that must be mutable. *)
ConstablesAreUnmodified == visitor = "ForRangeConst" => FR!ConstablesAreUnmodified

(* ForRangeConstVisitor reports every variable that it saw no use of. *)
UnmodifiedAreReported == visitor = "ForRangeConst" => FR!UnmodifiedAreReported

(* ForRangeConstVisitor reports no parameter that is incremented.  The code *)
(* does not keep this: see the README.                                      *)
IncrementedAreNotReported == visitor = "ForRangeConst" => FR!IncrementedAreNotReported

(* RemoveCStrVisitor does not tell a function to call itself. *)
SuggestionsEnd == visitor = "RemoveCStr" => RC!SuggestionsEnd

(* RemoveCStrVisitor passes a call over only in a method like the overload. *)
SilentCallsAreInOverloads == visitor = "RemoveCStr" => RC!SilentCallsAreInOverloads

(* ImproperMoveVisitor reports the moves from the lvalue references among   *)
(* the parameters of the function visited last, those that are const left   *)
(* open, and from no other of its parameters.                               *)
OwnMovesAreExact == visitor = "ImproperMove" => IV!OwnMovesAreExact

(* ImproperMoveVisitor takes no templated parameter for a const rvalue. *)
ConstRvaluesAreSound == visitor = "ImproperMove" => IV!ConstRvaluesAreSound

(* NoexceptVisitor reports noexcept functions for statements that may throw. *)
NotesAreThrows == visitor = "Noexcept" => NE!NotesAreThrows

(* NoexceptVisitor misses no function with a statement that may throw. *)
FirstThrowIsNoted == visitor = "Noexcept" => NE!FirstThrowIsNoted

=============================================================================
