-------------------------- MODULE MoveStringStream --------------------------
(***************************************************************************)
(* MoveStringStreamVisitor, over the top-level declarations: it collects   *)
(* the references to every local string stream and its first str() call    *)
(* and compares them when the declaration ends.                            *)
(***************************************************************************)
EXTENDS Traversal

VARIABLES
  m_all_references_to_string_streams,            \* stream to its references
  m_decl_refs_to_string_streams_on_str_calls,    \* stream to the one of str()
  reports,                                       \* diagnostics: references
  streams,     \* history: the streams declared, with the nodes around each
  uses         \* history: the references made, see Use

maps == <<m_all_references_to_string_streams, m_decl_refs_to_string_streams_on_str_calls>>
vars == <<open, next, maps, reports, streams, uses>>

(* "decl" is a top-level declaration, here a function. *)
Kinds == {"decl", "block"}

Stream == [decl : Nodes, scope : Seq([id : Nodes, kind : Kinds])]

(* "hidden" is a reference that shouldProcessExpr() skips, as in a macro or *)
(* with NOLINT.                                                             *)
Use == [decl : Nodes, ref : Nodes, str : BOOLEAN, hidden : BOOLEAN]

-----------------------------------------------------------------------------

Init ==
  /\ TraversalInit
  /\ m_all_references_to_string_streams = <<>>
  /\ m_decl_refs_to_string_streams_on_str_calls = <<>>
  /\ reports = {}
  /\ streams = {}
  /\ uses = {}

(* Faulty variant of clear: the calls are kept. *)
clear_KeepCalls ==
  /\ m_all_references_to_string_streams' = <<>>
  /\ UNCHANGED m_decl_refs_to_string_streams_on_str_calls

clear ==
  /\ m_all_references_to_string_streams' = <<>>
  /\ m_decl_refs_to_string_streams_on_str_calls' = <<>>

(* HandleTopLevelDecl: clear, then TraverseDecl. *)
BeginDeclaration ==
  /\ open = <<>>
  /\ Enter("decl")
  /\ clear
  /\ UNCHANGED <<reports, streams, uses>>

(* A block; the visitor does not look at it. *)
EnterBlock ==
  /\ open # <<>>
  /\ Enter("block")
  /\ UNCHANGED <<maps, reports, streams, uses>>

LeaveBlock ==
  /\ LeaveStmt({"block"})
  /\ UNCHANGED <<maps, reports, streams, uses>>

(* emplace() and try_emplace() of std::unordered_map keep an entry that is   *)
(* there.                                                                   *)
Emplace(map, key, value) ==
  [k \in DOMAIN map \cup {key} |-> IF k \in DOMAIN map THEN map[k] ELSE value]

(* VisitVarDecl of a local stream. *)
VisitVarDecl ==
  /\ open # <<>>
  /\ Top(open).kind # "decl"
  /\ VisitLeaf
  /\ m_all_references_to_string_streams' =
       Emplace(m_all_references_to_string_streams, next, <<>>)
  /\ streams' = streams \cup {[decl |-> next, scope |-> open]}
  /\ UNCHANGED <<m_decl_refs_to_string_streams_on_str_calls, reports, uses>>

(* The streams that the code being visited may name. *)
InScope ==
  {s \in streams : \E i \in 1..Len(open) : open[i] = Top(s.scope)}

Remember(s, str, hidden) ==
  uses' = uses \cup
    {[decl |-> s.decl, ref |-> next, str |-> str, hidden |-> hidden]}

(* VisitDeclRefExpr. *)
AddReference(decl) ==
  m_all_references_to_string_streams' =
    [m_all_references_to_string_streams EXCEPT ![decl] = Append(@, next)]

(* A reference that is not the object of str(). *)
VisitReference(s) ==
  /\ VisitLeaf
  /\ AddReference(s.decl)
  /\ Remember(s, FALSE, FALSE)
  /\ UNCHANGED <<m_decl_refs_to_string_streams_on_str_calls, reports, streams>>

(* VisitCXXMemberCallExpr of str(), then VisitDeclRefExpr of its object,    *)
(* which comes before its arguments.  emplace() keeps an earlier call.      *)
VisitStr(s) ==
  /\ VisitLeaf
  /\ m_decl_refs_to_string_streams_on_str_calls' =
       Emplace(m_decl_refs_to_string_streams_on_str_calls, s.decl, next)
  /\ AddReference(s.decl)
  /\ Remember(s, TRUE, FALSE)
  /\ UNCHANGED <<reports, streams>>

VisitHidden(s, str) ==
  /\ VisitLeaf
  /\ Remember(s, str, TRUE)
  /\ UNCHANGED <<maps, reports, streams>>

(* Faulty variant of LastReference: front() is taken for back(). *)
LastReference_Front(decl) == Head(m_all_references_to_string_streams[decl])

LastReference(decl) == Top(m_all_references_to_string_streams[decl])

(* The streams that printDiagnostic reports. *)
Reported ==
  {decl \in DOMAIN m_all_references_to_string_streams :
     /\ decl \in DOMAIN m_decl_refs_to_string_streams_on_str_calls
     /\ m_decl_refs_to_string_streams_on_str_calls[decl] = LastReference(decl)}

(* The end of HandleTopLevelDecl: printDiagnostic. *)
EndDeclaration ==
  /\ LeaveStmt({"decl"})
  /\ reports' = reports \cup {LastReference(decl) : decl \in Reported}
  /\ UNCHANGED <<maps, streams, uses>>

Next ==
  \/ BeginDeclaration
  \/ EnterBlock \/ LeaveBlock
  \/ VisitVarDecl
  \/ \E s \in InScope : VisitReference(s) \/ VisitStr(s)
  \/ \E s \in InScope, str \in BOOLEAN : VisitHidden(s, str)
  \/ EndDeclaration

Spec == Init /\ [][Next]_vars

-----------------------------------------------------------------------------

(* The variables have their types; the references to a stream are in the    *)
(* order of the traversal, so that back() is the last.                      *)
TypeOK ==
  /\ TraversalTypeOK(Kinds)
  /\ DOMAIN m_all_references_to_string_streams \subseteq Nodes
  /\ \A d \in DOMAIN m_all_references_to_string_streams :
       LET refs == m_all_references_to_string_streams[d]
       IN  refs \in Seq(Nodes) /\ \A i, j \in 1..Len(refs) : i < j => refs[i] < refs[j]
  /\ DOMAIN m_decl_refs_to_string_streams_on_str_calls \subseteq Nodes
  /\ \A d \in DOMAIN m_decl_refs_to_string_streams_on_str_calls :
       m_decl_refs_to_string_streams_on_str_calls[d] \in Nodes
  /\ reports \subseteq Nodes
  /\ streams \subseteq Stream
  /\ uses \subseteq Use

(* A str() call is recorded only of a stream whose references are recorded, *)
(* and the call is one of them: printDiagnostic never takes back() of an    *)
(* empty vector, and the maps never mix two declarations.                   *)
StrCallsAreReferences ==
  \A d \in DOMAIN m_decl_refs_to_string_streams_on_str_calls :
    /\ d \in DOMAIN m_all_references_to_string_streams
    /\ \E i \in 1..Len(m_all_references_to_string_streams[d]) :
         m_all_references_to_string_streams[d][i] =
           m_decl_refs_to_string_streams_on_str_calls[d]

(* A reported reference is the object of str(), and every later reference   *)
(* to its stream is hidden.                                                 *)
ReportsAreLastSeen ==
  \A u \in uses :
    u.ref \in reports =>
      /\ u.str
      /\ \A w \in uses : w.decl = u.decl /\ w.ref > u.ref => w.hidden

=============================================================================
