---------------------------- MODULE FindEmplace -----------------------------
(***************************************************************************)
(* FindEmplaceVisitor: its state across the callbacks of one traversal     *)
(* after another.  The AST is produced on the fly: entering and leaving a  *)
(* node are actions that run the visitor's handler for it, and the nodes   *)
(* entered and not yet left are the sequence "open".                       *)
(*                                                                         *)
(* A container together with a key is a "place": two expressions denote    *)
(* the same place when isSameContExpr and isSameKeyExpr hold for them.     *)
(* Null is 0; a node has a fresh number each time it is visited.           *)
(***************************************************************************)
EXTENDS Integers, Sequences

CONSTANTS
  Places,         \* pairs of a container and a key
  NoPlace,        \* an expression that denotes no place
  Calls,          \* shapes of calls, see CallShape
  EnabledChecks,  \* the visitor's checks that are on
  MaxNodes        \* bound on the nodes visited

CallShape ==
  [fn : {"operator[]", "emplace", "emplace_hint", "insert", "other"},
   args : Nat, place : Places \cup {NoPlace}, mapKey : BOOLEAN]

ASSUME FindEmplaceAssumption ==
  /\ NoPlace \notin Places
  /\ Calls \subseteq CallShape
  /\ EnabledChecks \subseteq {"find-emplace", "try_emplace-instead-emplace"}
  /\ MaxNodes \in Nat

VARIABLES
  open,              \* the nodes being traversed, the outermost first
  next,              \* the number of the next node
  m_calls,           \* insertions to report, each with its iterator
  m_curr_stmt,       \* the innermost open CompoundStmt
  m_parent_of,       \* from a CompoundStmt to the one around it
  m_stmt_iterators,  \* from a CompoundStmt to the find-iterators in it
  reports,           \* diagnostics emitted
  scopeOf            \* history: the node whose scope a find-iterator is in

traversal == <<open, next>>
members == <<m_calls, m_curr_stmt, m_parent_of, m_stmt_iterators>>
vars == <<traversal, members, reports, scopeOf>>

Null == 0
Nodes == 1..MaxNodes
Find == [var : Nodes, place : Places]
Pending == [var : Nodes, call : Nodes]

(* Kinds of nodes that matter: a block, and a statement other than a block *)
(* in which a variable can be declared (if, for, while, switch).           *)
Kinds == {"compound", "control"}

-----------------------------------------------------------------------------

(* m_stmt_iterators[c], which is empty for a missing c. *)
Iterators(c) ==
  IF c \in DOMAIN m_stmt_iterators THEN m_stmt_iterators[c] ELSE {}

(* The blocks met by "for (c = from;; c = m_parent_of[c])" up to null: the  *)
(* least set with from that is closed under m_parent_of.                    *)
Chain(from) ==
  {c \in DOMAIN m_parent_of :
     \A S \in SUBSET DOMAIN m_parent_of :
       from \in S /\ (\A d \in S : m_parent_of[d] \in S) => c \in S}

HasFind(c, p) == \E f \in Iterators(c) : f.place = p

(* The blocks getSameAsFindVar looks at for p: those of the chain before    *)
(* which it has found nothing.                                              *)
LookedAt(p) ==
  {c \in Chain(m_curr_stmt) :
     \A d \in Chain(m_curr_stmt) : HasFind(d, p) /\ d # c => d \in Chain(c)}

(* Faulty variant of getSameAsFindVar: the outermost match is taken. *)
getSameAsFindVar_Outermost(p) ==
  LET Outermost == {c \in Chain(m_curr_stmt) :
                      \A d \in Chain(m_curr_stmt) : HasFind(d, p) => c \in Chain(d)}
  IN  {f.var : f \in {g \in UNION {Iterators(c) : c \in Outermost} : g.place = p}}

(* FindEmplaceVisitor::getSameAsFindVar: the variables it may return.  In   *)
(* one block the variables are ordered by address: any of them may be first.*)
getSameAsFindVar(p) ==
  {f.var : f \in {g \in UNION {Iterators(c) : c \in LookedAt(p)} : g.place = p}}

(* iter_of_decl finds the entry of v in a block of the chain. *)
IterFound(v) ==
  \E c \in Chain(m_curr_stmt) : \E f \in Iterators(c) : f.var = v

(* FindEmplaceVisitor::verifyTryEmplace. *)
verifyTryEmplace(call) ==
  /\ \/ call.fn = "emplace" /\ call.args > 0
     \/ call.fn = "emplace_hint" /\ call.args > 1
  /\ call.mapKey

(* The calls that VisitCXXOperatorCallExpr and VisitCXXMemberCallExpr take  *)
(* for an insertion at call.place.                                          *)
IsInsertion(call) ==
  /\ call.place # NoPlace
  /\ \/ call.fn = "operator[]" /\ call.args = 2
     \/ call.fn = "emplace" /\ call.args > 1
     \/ call.fn = "insert" /\ call.args = 1

-----------------------------------------------------------------------------

(* Just after the constructor and a first clear(). *)
Init ==
  /\ open = <<>>
  /\ next = 1
  /\ m_calls = <<>>
  /\ m_curr_stmt = Null
  /\ m_parent_of = [c \in {Null} |-> Null]
  /\ m_stmt_iterators = [c \in {} |-> {}]
  /\ reports = {}
  /\ scopeOf = [v \in {} |-> Null]

Node(kind) == [id |-> next, kind |-> kind]

Visit ==
  /\ next <= MaxNodes
  /\ next' = next + 1

(* Faulty variant of clear: m_parent_of loses the entry of null. *)
clear_Parents ==
  /\ open = <<>>
  /\ m_calls' = <<>>
  /\ m_stmt_iterators' = [c \in {} |-> {}]
  /\ m_parent_of' = [c \in {} |-> Null]
  /\ m_curr_stmt' = Null
  /\ UNCHANGED <<traversal, reports, scopeOf>>

(* Consumer::HandleTopLevelDecl runs clear() before each traversal;         *)
(* m_parent_of is not cleared.                                              *)
clear ==
  /\ open = <<>>
  /\ m_calls' = <<>>
  /\ m_stmt_iterators' = [c \in {} |-> {}]
  /\ m_curr_stmt' = Null
  /\ UNCHANGED <<traversal, m_parent_of, reports, scopeOf>>

(* Faulty variant of EnterCompound: a new block drops the pending calls. *)
EnterCompound_DropCalls ==
  /\ Visit
  /\ open' = Append(open, Node("compound"))
  /\ m_parent_of' = [c \in DOMAIN m_parent_of \cup {next} |->
                       IF c = next THEN m_curr_stmt ELSE m_parent_of[c]]
  /\ m_stmt_iterators' = [c \in DOMAIN m_stmt_iterators \cup {next} |->
                            IF c = next THEN {} ELSE m_stmt_iterators[c]]
  /\ m_curr_stmt' = next
  /\ m_calls' = <<>>
  /\ UNCHANGED <<reports, scopeOf>>

(* dataTraverseStmtPre of a block. *)
EnterCompound ==
  /\ Visit
  /\ open' = Append(open, Node("compound"))
  /\ m_parent_of' = [c \in DOMAIN m_parent_of \cup {next} |->
                       IF c = next THEN m_curr_stmt ELSE m_parent_of[c]]
  /\ m_stmt_iterators' = [c \in DOMAIN m_stmt_iterators \cup {next} |->
                            IF c = next THEN {} ELSE m_stmt_iterators[c]]
  /\ m_curr_stmt' = next
  /\ UNCHANGED <<m_calls, reports, scopeOf>>

(* dataTraverseStmtPre of an if, for, while or switch: nothing. *)
EnterControl ==
  /\ open # <<>>
  /\ Visit
  /\ open' = Append(open, Node("control"))
  /\ UNCHANGED <<members, reports, scopeOf>>

LeaveControl ==
  /\ open # <<>>
  /\ open[Len(open)].kind = "control"
  /\ open' = SubSeq(open, 1, Len(open) - 1)
  /\ UNCHANGED <<next, members, reports, scopeOf>>

(* FindEmplaceVisitor::reportCompoundStmt: every pending call is reported,  *)
(* with the find() that iter_of_decl returns for its variable.  "found" is  *)
(* false where the code would use the null expressions of an empty tuple.   *)
FindReports ==
  {[check |-> "find-emplace", call |-> m_calls[i].call, var |-> m_calls[i].var,
    found |-> IterFound(m_calls[i].var)] : i \in 1..Len(m_calls)}

(* Faulty variant of reportCompoundStmt: m_calls is not cleared. *)
reportCompoundStmt_NoClear ==
  /\ IF "find-emplace" \in EnabledChecks
       THEN reports' = reports \cup FindReports
       ELSE UNCHANGED reports
  /\ UNCHANGED m_calls

reportCompoundStmt ==
  IF "find-emplace" \in EnabledChecks
    THEN reports' = reports \cup FindReports /\ m_calls' = <<>>
    ELSE UNCHANGED <<reports, m_calls>>

(* Faulty variant of LeaveCompound: the block's iterators are erased first. *)
LeaveCompound_EraseFirst ==
  /\ open # <<>>
  /\ open[Len(open)].kind = "compound"
  /\ open' = SubSeq(open, 1, Len(open) - 1)
  /\ IF "find-emplace" \in EnabledChecks
       THEN /\ m_calls' = <<>>
            /\ reports' = reports \cup
                 {[r EXCEPT !.found =
                     \E c \in Chain(m_curr_stmt) \ {open[Len(open)].id} :
                       \E f \in Iterators(c) : f.var = r.var] : r \in FindReports}
       ELSE UNCHANGED <<reports, m_calls>>
  /\ m_curr_stmt' = m_parent_of[m_curr_stmt]
  /\ m_stmt_iterators' =
       [c \in DOMAIN m_stmt_iterators \ {open[Len(open)].id} |-> m_stmt_iterators[c]]
  /\ UNCHANGED <<next, m_parent_of, scopeOf>>

(* Faulty variant of LeaveCompound: the iterators of the block stay. *)
LeaveCompound_KeepIterators ==
  /\ open # <<>>
  /\ open[Len(open)].kind = "compound"
  /\ open' = SubSeq(open, 1, Len(open) - 1)
  /\ reportCompoundStmt
  /\ UNCHANGED <<next, m_curr_stmt, m_parent_of, m_stmt_iterators, scopeOf>>

(* dataTraverseStmtPost of a block. *)
LeaveCompound ==
  /\ open # <<>>
  /\ open[Len(open)].kind = "compound"
  /\ open' = SubSeq(open, 1, Len(open) - 1)
  /\ reportCompoundStmt
  /\ m_curr_stmt' = m_parent_of[m_curr_stmt]
  /\ m_stmt_iterators' =
       [c \in DOMAIN m_stmt_iterators \ {open[Len(open)].id} |-> m_stmt_iterators[c]]
  /\ UNCHANGED <<next, m_parent_of, scopeOf>>

(* VisitVarDecl of a local variable initialised by container.find(key); it  *)
(* is filed under the current block, whichever statement declares it.  One  *)
(* that shouldProcessDecl() skips is, as any other variable, no event.      *)
VisitVarDecl(p) ==
  /\ open # <<>>
  /\ Visit
  /\ m_stmt_iterators' =
       [c \in DOMAIN m_stmt_iterators \cup {m_curr_stmt} |->
          IF c = m_curr_stmt THEN Iterators(c) \cup {[var |-> next, place |-> p]}
          ELSE m_stmt_iterators[c]]
  /\ scopeOf' = [v \in DOMAIN scopeOf \cup {next} |->
                   IF v = next THEN open[Len(open)].id ELSE scopeOf[v]]
  /\ UNCHANGED <<open, m_calls, m_curr_stmt, m_parent_of, reports>>

(* VisitCXXOperatorCallExpr or VisitCXXMemberCallExpr; a call that           *)
(* shouldProcessExpr() skips is an "other" one.  The lookup leaves an entry  *)
(* for every block it looked at.                                            *)
VisitCall(call) ==
  /\ Visit
  /\ IF IsInsertion(call)
       THEN /\ \/ \E v \in getSameAsFindVar(call.place) :
                    m_calls' = Append(m_calls, [var |-> v, call |-> next])
               \/ getSameAsFindVar(call.place) = {} /\ UNCHANGED m_calls
            /\ m_stmt_iterators' =
                 [c \in DOMAIN m_stmt_iterators \cup LookedAt(call.place) |-> Iterators(c)]
       ELSE UNCHANGED <<m_calls, m_stmt_iterators>>
  /\ IF verifyTryEmplace(call) /\ "try_emplace-instead-emplace" \in EnabledChecks
       THEN reports' = reports \cup {[check |-> "try_emplace-instead-emplace",
                                      call |-> next, var |-> Null, found |-> TRUE]}
       ELSE UNCHANGED reports
  /\ UNCHANGED <<open, m_curr_stmt, m_parent_of, scopeOf>>

Leave == LeaveControl \/ LeaveCompound

Next ==
  \/ clear
  \/ EnterCompound
  \/ EnterControl
  \/ Leave
  \/ \E p \in Places : VisitVarDecl(p)
  \/ \E call \in Calls : VisitCall(call)

Spec == Init /\ [][Next]_vars

(* RecursiveASTVisitor leaves every node it enters. *)
FairSpec == Spec /\ WF_vars(Leave)

-----------------------------------------------------------------------------

(* The variables have their types. *)
TypeOK ==
  /\ open \in Seq([id : Nodes, kind : Kinds])
  /\ next \in 1..(MaxNodes + 1)
  /\ m_calls \in Seq(Pending)
  /\ m_curr_stmt \in DOMAIN m_parent_of
  /\ Null \in DOMAIN m_parent_of
  /\ DOMAIN m_parent_of \subseteq 0..(next - 1)
  /\ m_parent_of \in [DOMAIN m_parent_of -> DOMAIN m_parent_of]
  /\ DOMAIN m_stmt_iterators \subseteq DOMAIN m_parent_of
  /\ m_stmt_iterators \in [DOMAIN m_stmt_iterators -> SUBSET Find]
  /\ scopeOf \in [DOMAIN scopeOf -> Nodes]

IsOpen(c) == \E i \in 1..Len(open) : open[i].id = c

(* c is the innermost block among the first n open nodes, or null. *)
IsInnermost(c, n) ==
  \/ c = Null /\ \A i \in 1..n : open[i].kind = "control"
  \/ \E i \in 1..n :
       /\ open[i] = [id |-> c, kind |-> "compound"]
       /\ \A j \in (i + 1)..n : open[j].kind = "control"

(* The three members hold the stack of open blocks: m_curr_stmt is the      *)
(* innermost, m_parent_of leads from each to the one around it, and only    *)
(* blocks that are open (and null) have iterators.                          *)
BlocksAreStacked ==
  /\ IsInnermost(m_curr_stmt, Len(open))
  /\ \A i \in 1..Len(open) :
       open[i].kind = "compound" => IsInnermost(m_parent_of[open[i].id], i - 1)
  /\ \A c \in DOMAIN m_stmt_iterators : c = Null \/ IsOpen(c)

(* reportCompoundStmt dereferences the key and the find() of a pending call *)
(* without a test: the entry its variable had at the call must still be     *)
(* reachable from the current block when the report is made.                *)
PendingCallsAreFound ==
  "find-emplace" \in EnabledChecks =>
    \A i \in 1..Len(m_calls) : IterFound(m_calls[i].var)

(* No report was ever made from an empty tuple, and no call twice. *)
ReportsAreSound ==
  /\ \A r \in reports : r.found
  /\ \A r \in reports, s \in reports :
       r.check = s.check /\ r.call = s.call => r = s
  /\ \A i \in 1..Len(m_calls), r \in reports :
       r.check = "find-emplace" => r.call # m_calls[i].call

Reported(call) ==
  \E r \in reports : r.check = "find-emplace" /\ r.call = call

(* Every insertion that matched a find() is reported in the end. *)
PendingCallsAreReported ==
  \A n \in Nodes :
    (\E i \in 1..Len(m_calls) : m_calls[i].call = n) ~> Reported(n)

(* The visitor implements the scoped lookup of FindScopes. *)
Scopes == {Null} \cup {open[i].id : i \in {j \in 1..Len(open) : open[j].kind = "compound"}}
FindsOf == [c \in Scopes |-> Iterators(c)]
Due == {[call |-> m_calls[i].call, var |-> m_calls[i].var] : i \in 1..Len(m_calls)}
Told == {[call |-> r.call, var |-> r.var] : r \in {s \in reports : s.check = "find-emplace"}}

Promise == INSTANCE FindScopes WITH
  Ids <- Nodes, Reporting <- "find-emplace" \in EnabledChecks,
  scopes <- FindsOf, due <- Due, told <- Told

ImplementsFindScopes == Promise!Spec

(* An insertion is matched only with an iterator that exists where the      *)
(* insertion is, so that it "can be reused" (CONTRIBUTING.md).  The code    *)
(* does not keep this: see the README.                                      *)
MatchedIteratorsExist ==
  [][\A i \in 1..Len(m_calls') :
       i > Len(m_calls) => IsOpen(scopeOf[m_calls'[i].var])]_vars

=============================================================================
