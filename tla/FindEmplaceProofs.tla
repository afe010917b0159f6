------------------------- MODULE FindEmplaceProofs --------------------------
(* Theorems about FindEmplaceVisitor, for any places, calls and checks, and  *)
(* any bound on the number of nodes; the last one is that it implements      *)
(* FindScopes.                                                               *)
EXTENDS FindEmplace, VectorLemmas, TLAPS

(* The inductive invariant.  The second part is not inductive alone: that   *)
(* the chain of blocks grows when one is entered rests on its number being  *)
(* fresh and on m_parent_of being closed, which TypeOK says.                *)
IInv == TypeOK /\ PendingCallsAreFound

(* m_parent_of leads from a new block to the current one, so every block    *)
(* the current one reaches is reached from the new one.                     *)
LEMMA ChainGrows ==
  ASSUME TypeOK, EnterCompound
  PROVE  \A c \in Chain(m_curr_stmt) :
           c \in Chain(m_curr_stmt)' /\ Iterators(c)' = Iterators(c)
<1> DEFINE D == DOMAIN m_parent_of
<1>1. /\ next \notin D /\ m_curr_stmt \in D
      /\ \A d \in D : m_parent_of[d] \in D
      /\ DOMAIN m_stmt_iterators \subseteq D
  BY DEF TypeOK
<1>2. /\ m_curr_stmt' = next
      /\ DOMAIN m_parent_of' = D \cup {next}
      /\ m_parent_of'[next] = m_curr_stmt
      /\ \A d \in D : m_parent_of'[d] = m_parent_of[d]
  BY <1>1 DEF EnterCompound
<1>3. /\ DOMAIN m_stmt_iterators' = DOMAIN m_stmt_iterators \cup {next}
      /\ \A d \in DOMAIN m_stmt_iterators : m_stmt_iterators'[d] = m_stmt_iterators[d]
  BY <1>1 DEF EnterCompound
<1> TAKE c \in Chain(m_curr_stmt)
<1>4. /\ c \in D
      /\ \A S \in SUBSET D :
           m_curr_stmt \in S /\ (\A d \in S : m_parent_of[d] \in S) => c \in S
  BY DEF Chain
<1>5. ASSUME NEW S \in SUBSET DOMAIN m_parent_of', m_curr_stmt' \in S,
             \A d \in S : m_parent_of'[d] \in S
      PROVE  c \in S
  <2>1. S \cap D \in SUBSET D /\ m_curr_stmt \in S \cap D
    BY <1>1, <1>2, <1>5
  <2>2. \A d \in S \cap D : m_parent_of[d] \in S \cap D
    BY <1>1, <1>2, <1>5
  <2> QED
    BY <1>4, <2>1, <2>2
<1>6. c \in Chain(m_curr_stmt)'
  BY <1>2, <1>4, <1>5 DEF Chain
<1>7. Iterators(c)' = Iterators(c)
  BY <1>1, <1>3, <1>4 DEF Iterators
<1> QED
  BY <1>6, <1>7

(* A find-iterator of any block is well typed. *)
LEMMA IteratorsType ==
  ASSUME TypeOK, NEW c
  PROVE  Iterators(c) \subseteq Find
BY DEF TypeOK, Iterators

(* The number given to a node is one of Nodes. *)
LEMMA VisitType ==
  ASSUME TypeOK, Visit
  PROVE  next \in Nodes /\ next' = next + 1 /\ next' \in 1..(MaxNodes + 1)
BY FindEmplaceAssumption DEF TypeOK, Visit, Nodes

(* Pending calls are found as long as the chain and its iterators last. *)
LEMMA StillFound ==
  ASSUME PendingCallsAreFound, UNCHANGED m_calls,
         \A c \in Chain(m_curr_stmt) :
           c \in Chain(m_curr_stmt)' /\ Iterators(c) \subseteq Iterators(c)'
  PROVE  PendingCallsAreFound'
<1> SUFFICES ASSUME "find-emplace" \in EnabledChecks, NEW i \in 1..Len(m_calls')
             PROVE  \E c \in Chain(m_curr_stmt)' :
                      \E f \in Iterators(c)' : f.var = m_calls'[i].var
  BY DEF PendingCallsAreFound, IterFound
<1>1. PICK c \in Chain(m_curr_stmt) : \E f \in Iterators(c) : f.var = m_calls[i].var
  BY DEF PendingCallsAreFound, IterFound
<1>2. m_calls' = m_calls
  OBVIOUS
<1> QED
  BY <1>1, <1>2

-----------------------------------------------------------------------------

LEMMA ClearStep ==
  ASSUME IInv, clear
  PROVE  IInv'
<1>1. TypeOK'
  BY DEF IInv, TypeOK, clear, traversal
<1>2. PendingCallsAreFound'
  BY DEF clear, PendingCallsAreFound
<1> QED
  BY <1>1, <1>2 DEF IInv

LEMMA EnterCompoundStep ==
  ASSUME IInv, EnterCompound
  PROVE  IInv'
<1>1. /\ next \in Nodes /\ next' = next + 1 /\ next' \in 1..(MaxNodes + 1)
  BY VisitType DEF IInv, EnterCompound
<1>2. open' \in Seq([id : Nodes, kind : Kinds])
  <2>1. Node("compound") \in [id : Nodes, kind : Kinds]
    BY <1>1 DEF Node, Kinds
  <2> QED
    BY <2>1, PushBack DEF IInv, TypeOK, EnterCompound
<1>3. /\ DOMAIN m_parent_of' = DOMAIN m_parent_of \cup {next}
      /\ m_parent_of' \in [DOMAIN m_parent_of' -> DOMAIN m_parent_of']
  BY DEF IInv, TypeOK, EnterCompound
<1>4. /\ DOMAIN m_stmt_iterators' \subseteq DOMAIN m_parent_of'
      /\ m_stmt_iterators' \in [DOMAIN m_stmt_iterators' -> SUBSET Find]
  BY <1>3 DEF IInv, TypeOK, EnterCompound
<1>5. TypeOK'
  BY <1>1, <1>2, <1>3, <1>4 DEF IInv, TypeOK, EnterCompound, Nodes
<1>6. PendingCallsAreFound'
  <2>1. \A c \in Chain(m_curr_stmt) :
          c \in Chain(m_curr_stmt)' /\ Iterators(c) \subseteq Iterators(c)'
    BY ChainGrows DEF IInv
  <2>2. UNCHANGED m_calls
    BY DEF EnterCompound
  <2> QED
    BY <2>1, <2>2, StillFound DEF IInv
<1> QED
  BY <1>5, <1>6 DEF IInv

LEMMA ControlStep ==
  ASSUME IInv, EnterControl \/ LeaveControl
  PROVE  IInv'
<1>1. UNCHANGED <<members, scopeOf>>
  BY DEF EnterControl, LeaveControl
<1>2. open' \in Seq([id : Nodes, kind : Kinds]) /\ next' \in next..(MaxNodes + 1)
  <2>1. CASE EnterControl
    <3>1. Node("control") \in [id : Nodes, kind : Kinds]
      BY <2>1, VisitType DEF IInv, EnterControl, Node, Kinds
    <3> QED
      BY <2>1, <3>1, PushBack, VisitType DEF IInv, TypeOK, EnterControl
  <2>2. CASE LeaveControl
    <3>1. open' \in Seq([id : Nodes, kind : Kinds])
      BY <2>2, PopBack DEF IInv, TypeOK, LeaveControl
    <3>2. next' = next /\ next \in 1..(MaxNodes + 1)
      BY <2>2 DEF IInv, TypeOK, LeaveControl
    <3> QED
      BY <3>1, <3>2, FindEmplaceAssumption
  <2> QED
    BY <2>1, <2>2
<1>3. TypeOK'
  BY <1>1, <1>2, FindEmplaceAssumption DEF IInv, TypeOK, members
<1>4. PendingCallsAreFound'
  <2>1. \A c \in Chain(m_curr_stmt) :
          c \in Chain(m_curr_stmt)' /\ Iterators(c) \subseteq Iterators(c)'
    BY <1>1 DEF Chain, Iterators, members
  <2> QED
    BY <1>1, <2>1, StillFound DEF IInv, members
<1> QED
  BY <1>3, <1>4 DEF IInv

(* Leaving a block drops its iterators, but first all pending calls. *)
LEMMA LeaveCompoundStep ==
  ASSUME IInv, LeaveCompound
  PROVE  IInv'
<1>1. open' \in Seq([id : Nodes, kind : Kinds])
  BY PopBack DEF IInv, TypeOK, LeaveCompound
<1>2. m_calls' \in Seq(Pending)
  <2>1. m_calls \in Seq(Pending)
    BY DEF IInv, TypeOK
  <2>2. m_calls' = m_calls \/ m_calls' = <<>>
    BY DEF LeaveCompound, reportCompoundStmt
  <2>3. <<>> \in Seq(Pending)
    BY EmptySeq
  <2>4. CASE m_calls' = m_calls
    BY <2>1, <2>4
  <2>5. CASE m_calls' = <<>>
    BY <2>3, <2>5, Zenon
  <2> QED
    BY <2>2, <2>4, <2>5
<1>3. TypeOK'
  BY <1>1, <1>2 DEF IInv, TypeOK, LeaveCompound
<1>4. PendingCallsAreFound'
  BY DEF PendingCallsAreFound, LeaveCompound, reportCompoundStmt
<1> QED
  BY <1>3, <1>4 DEF IInv

LEMMA VisitVarDeclStep ==
  ASSUME IInv, NEW p \in Places, VisitVarDecl(p)
  PROVE  IInv'
<1>1. /\ next \in Nodes /\ next' = next + 1 /\ next' \in 1..(MaxNodes + 1)
  BY VisitType DEF IInv, VisitVarDecl
<1>2. [var |-> next, place |-> p] \in Find
  BY <1>1 DEF Find
<1>3. /\ DOMAIN m_stmt_iterators' = DOMAIN m_stmt_iterators \cup {m_curr_stmt}
      /\ m_stmt_iterators' \in [DOMAIN m_stmt_iterators' -> SUBSET Find]
  BY <1>2, IteratorsType DEF IInv, TypeOK, VisitVarDecl
<1>4. scopeOf' \in [DOMAIN scopeOf' -> Nodes]
  <2>1. open[Len(open)].id \in Nodes
    <3>1. open \in Seq([id : Nodes, kind : Kinds]) /\ open # <<>>
      BY DEF IInv, TypeOK, VisitVarDecl
    <3>2. open[Len(open)] \in [id : Nodes, kind : Kinds]
      BY <3>1, Back
    <3> QED
      BY <3>2
  <2> QED
    BY <2>1 DEF IInv, TypeOK, VisitVarDecl
<1>5. TypeOK'
  <2>1. UNCHANGED <<open, m_calls, m_curr_stmt, m_parent_of>>
    BY DEF VisitVarDecl
  <2>2. DOMAIN m_parent_of \subseteq 0..(next' - 1)
    BY <1>1 DEF IInv, TypeOK, Nodes
  <2>3. DOMAIN m_stmt_iterators' \subseteq DOMAIN m_parent_of
    BY <1>3 DEF IInv, TypeOK
  <2> QED
    BY <1>1, <1>3, <1>4, <2>1, <2>2, <2>3 DEF IInv, TypeOK
<1>6. \A c \in Chain(m_curr_stmt) :
        c \in Chain(m_curr_stmt)' /\ Iterators(c) \subseteq Iterators(c)'
  <2> TAKE c \in Chain(m_curr_stmt)
  <2>1. c \in Chain(m_curr_stmt)'
    BY DEF VisitVarDecl, Chain
  <2>2. ASSUME c = m_curr_stmt
        PROVE  Iterators(c)' = Iterators(c) \cup {[var |-> next, place |-> p]}
    BY <2>2 DEF VisitVarDecl, Iterators
  <2>3. ASSUME c # m_curr_stmt
        PROVE  Iterators(c)' = Iterators(c)
    BY <2>3 DEF VisitVarDecl, Iterators
  <2> QED
    BY <2>1, <2>2, <2>3
<1>7. PendingCallsAreFound'
  BY <1>6, StillFound DEF IInv, VisitVarDecl
<1> QED
  BY <1>5, <1>7 DEF IInv

(* The empty entries that a lookup leaves change no block's iterators.      *)
LEMMA LookupKeeps ==
  ASSUME TypeOK, NEW call \in Calls, VisitCall(call)
  PROVE  \A c : Iterators(c)' = Iterators(c)
<1>1. CASE IsInsertion(call)
  <2>1. m_stmt_iterators' =
          [c \in DOMAIN m_stmt_iterators \cup LookedAt(call.place) |-> Iterators(c)]
    BY <1>1 DEF VisitCall
  <2>2. \A c : c \notin DOMAIN m_stmt_iterators => Iterators(c) = {}
    BY DEF Iterators
  <2> TAKE c
  <2>3. Iterators(c)' = IF c \in DOMAIN m_stmt_iterators'
                          THEN m_stmt_iterators'[c] ELSE {}
    BY DEF Iterators
  <2> QED
    BY <2>1, <2>2, <2>3
<1>2. CASE ~IsInsertion(call)
  BY <1>2 DEF VisitCall, Iterators
<1> QED
  BY <1>1, <1>2

(* What a lookup returns is in a block of the chain, and stays there.       *)
LEMMA VisitCallStep ==
  ASSUME IInv, NEW call \in Calls, VisitCall(call)
  PROVE  IInv'
<1>1. /\ next \in Nodes /\ next' = next + 1 /\ next' \in 1..(MaxNodes + 1)
  BY VisitType DEF IInv, VisitCall
<1>2. \A v \in getSameAsFindVar(call.place) : v \in Nodes /\ IterFound(v)
  <2> TAKE v \in getSameAsFindVar(call.place)
  <2>1. PICK c \in LookedAt(call.place) : \E f \in Iterators(c) : f.var = v
    BY DEF getSameAsFindVar
  <2>2. c \in Chain(m_curr_stmt)
    BY DEF LookedAt
  <2>3. v \in Nodes
    BY <2>1, IteratorsType DEF IInv, Find
  <2> QED
    BY <2>1, <2>2, <2>3 DEF IterFound
<1>3. \A c : Iterators(c)' = Iterators(c)
  BY LookupKeeps DEF IInv
<1>4. Chain(m_curr_stmt)' = Chain(m_curr_stmt)
  BY DEF VisitCall, Chain
<1>5. \A v : IterFound(v) =>
        \E c \in Chain(m_curr_stmt)' : \E f \in Iterators(c)' : f.var = v
  BY <1>3, <1>4 DEF IterFound
<1>6. \/ m_calls' = m_calls
      \/ \E v \in getSameAsFindVar(call.place) :
           m_calls' = Append(m_calls, [var |-> v, call |-> next])
  BY DEF VisitCall
<1>7. m_calls' \in Seq(Pending) /\ PendingCallsAreFound'
  <2>1. CASE m_calls' = m_calls
    BY <2>1, <1>3, <1>4, StillFound DEF IInv, TypeOK
  <2>2. ASSUME NEW v \in getSameAsFindVar(call.place),
               m_calls' = Append(m_calls, [var |-> v, call |-> next])
        PROVE  m_calls' \in Seq(Pending) /\ PendingCallsAreFound'
    <3>1. [var |-> v, call |-> next] \in Pending
      BY <1>1, <1>2 DEF Pending
    <3>2. /\ m_calls' \in Seq(Pending)
          /\ \A i \in 1..Len(m_calls') :
               \/ i \in 1..Len(m_calls) /\ m_calls'[i] = m_calls[i]
               \/ m_calls'[i] = [var |-> v, call |-> next]
      BY <2>2, <3>1, PushBack DEF IInv, TypeOK
    <3>3. "find-emplace" \in EnabledChecks =>
            \A i \in 1..Len(m_calls') : IterFound(m_calls'[i].var)
      BY <1>2, <3>2 DEF IInv, PendingCallsAreFound
    <3>4. PendingCallsAreFound'
      BY <1>5, <3>3 DEF PendingCallsAreFound, IterFound
    <3> QED
      BY <3>2, <3>4
  <2> QED
    BY <1>6, <2>1, <2>2
<1>8. /\ DOMAIN m_stmt_iterators' \subseteq DOMAIN m_parent_of
      /\ m_stmt_iterators' \in [DOMAIN m_stmt_iterators' -> SUBSET Find]
  <2>1. LookedAt(call.place) \subseteq DOMAIN m_parent_of
    BY DEF LookedAt, Chain
  <2>2. \A c : Iterators(c) \in SUBSET Find
    BY IteratorsType DEF IInv
  <2>3. \/ UNCHANGED m_stmt_iterators
        \/ m_stmt_iterators' =
             [c \in DOMAIN m_stmt_iterators \cup LookedAt(call.place) |-> Iterators(c)]
    BY DEF VisitCall
  <2>4. /\ DOMAIN m_stmt_iterators \subseteq DOMAIN m_parent_of
        /\ m_stmt_iterators \in [DOMAIN m_stmt_iterators -> SUBSET Find]
    BY DEF IInv, TypeOK
  <2> QED
    BY <2>1, <2>2, <2>3, <2>4
<1>9. TypeOK'
  BY <1>1, <1>7, <1>8 DEF IInv, TypeOK, VisitCall
<1> QED
  BY <1>7, <1>9 DEF IInv

-----------------------------------------------------------------------------

(* The inductive invariant holds in every state. *)
LEMMA Invariance == Spec => []IInv
<1>1. Init => IInv
  <2> SUFFICES ASSUME Init PROVE IInv
    OBVIOUS
  <2>1. TypeOK
    <3>1. open \in Seq([id : Nodes, kind : Kinds]) /\ m_calls \in Seq(Pending)
      BY DEF Init
    <3>2. next \in 1..(MaxNodes + 1) /\ DOMAIN m_parent_of \subseteq 0..(next - 1)
      BY FindEmplaceAssumption DEF Init, Null
    <3>3. /\ m_curr_stmt \in DOMAIN m_parent_of
          /\ Null \in DOMAIN m_parent_of
          /\ m_parent_of \in [DOMAIN m_parent_of -> DOMAIN m_parent_of]
      BY DEF Init
    <3>4. /\ DOMAIN m_stmt_iterators \subseteq DOMAIN m_parent_of
          /\ m_stmt_iterators \in [DOMAIN m_stmt_iterators -> SUBSET Find]
          /\ scopeOf \in [DOMAIN scopeOf -> Nodes]
      BY DEF Init
    <3> QED
      BY <3>1, <3>2, <3>3, <3>4 DEF TypeOK
  <2> QED
    BY <2>1 DEF Init, IInv, PendingCallsAreFound
<1>2. IInv /\ [Next]_vars => IInv'
  <2> SUFFICES ASSUME IInv, [Next]_vars
               PROVE  IInv'
    OBVIOUS
  <2>1. CASE UNCHANGED vars
    BY <2>1 DEF vars, traversal, members, IInv, TypeOK, PendingCallsAreFound, IterFound,
                Chain, Iterators
  <2> QED
    BY <2>1, ClearStep, EnterCompoundStep, ControlStep, LeaveCompoundStep,
       VisitVarDeclStep, VisitCallStep DEF Next, Leave
<1> QED
  BY <1>1, <1>2, PTL DEF Spec

(* The visitor's members are well typed: in particular m_parent_of is       *)
(* closed, so that walking up from m_curr_stmt never leaves the map.        *)
THEOREM TypeCorrect == Spec => []TypeOK
  BY Invariance, PTL DEF IInv

(* reportCompoundStmt never uses the null expressions of an empty tuple:    *)
(* the find() of every pending call is still reachable, however blocks are  *)
(* opened, closed and left by the traversal.                                *)
THEOREM PendingCallsAreAlwaysFound == Spec => []PendingCallsAreFound
  BY Invariance, PTL DEF IInv

-----------------------------------------------------------------------------

(* The inductive invariant of the reports: a call is numbered when it is    *)
(* met, so that a new one differs from all that wait or are reported.       *)
SInv ==
  /\ ReportsAreSound
  /\ \A r \in reports : r.call \in 0..(next - 1)
  /\ \A i \in 1..Len(m_calls) : m_calls[i].call \in 0..(next - 1)
  /\ \A i, j \in 1..Len(m_calls) : m_calls[i].call = m_calls[j].call => i = j

(* A step that reports nothing and forgets what waits, or leaves it. *)
LEMMA SNoCall ==
  ASSUME IInv, SInv, reports' = reports, m_calls' \in {m_calls, <<>>},
         next' \in {next, next + 1}
  PROVE  SInv'
<1>1. \A n \in 0..(next - 1) : n \in 0..(next' - 1)
  BY FindEmplaceAssumption DEF IInv, TypeOK
<1>2. \A i \in 1..Len(m_calls') : i \in 1..Len(m_calls) /\ m_calls'[i] = m_calls[i]
  OBVIOUS
<1>3. ReportsAreSound'
  BY <1>2 DEF SInv, ReportsAreSound
<1> QED
  BY <1>1, <1>2, <1>3 DEF SInv

(* The end of a block: what waited is reported, each call once. *)
LEMMA SLeaveCompound ==
  ASSUME IInv, SInv, LeaveCompound
  PROVE  SInv'
<1>1. next' = next /\ reportCompoundStmt
  BY DEF LeaveCompound
<1>2. CASE "find-emplace" \notin EnabledChecks
  BY <1>1, <1>2, SNoCall DEF reportCompoundStmt
<1>3. CASE "find-emplace" \in EnabledChecks
  <2>1. reports' = reports \cup FindReports /\ m_calls' = <<>>
    BY <1>1, <1>3 DEF reportCompoundStmt
  <2>2. \A r \in FindReports : \E i \in 1..Len(m_calls) :
          /\ r.check = "find-emplace" /\ r.call = m_calls[i].call
          /\ r.found = IterFound(m_calls[i].var)
          /\ r = [check |-> "find-emplace", call |-> m_calls[i].call,
                  var |-> m_calls[i].var, found |-> IterFound(m_calls[i].var)]
    BY DEF FindReports
  <2>3. \A r \in FindReports : r.found /\ r.call \in 0..(next - 1)
    BY <1>3, <2>2 DEF IInv, PendingCallsAreFound, SInv
  <2>4. ASSUME NEW r \in FindReports, NEW s \in FindReports, r.call = s.call
        PROVE  r = s
    <3>1. PICK i \in 1..Len(m_calls) :
            /\ r.call = m_calls[i].call
            /\ r = [check |-> "find-emplace", call |-> m_calls[i].call,
                    var |-> m_calls[i].var, found |-> IterFound(m_calls[i].var)]
      BY <2>2
    <3>2. PICK j \in 1..Len(m_calls) :
            /\ s.call = m_calls[j].call
            /\ s = [check |-> "find-emplace", call |-> m_calls[j].call,
                    var |-> m_calls[j].var, found |-> IterFound(m_calls[j].var)]
      BY <2>2
    <3>3. i = j
      BY <2>4, <3>1, <3>2 DEF SInv
    <3> QED
      BY <3>1, <3>2, <3>3
  <2>5. \A r \in reports, s \in FindReports :
          r.check = "find-emplace" => r.call # s.call
    BY <2>2 DEF SInv, ReportsAreSound
  <2>6. \A r \in reports', s \in reports' :
          r.check = s.check /\ r.call = s.call => r = s
    <3> SUFFICES ASSUME NEW r \in reports', NEW s \in reports',
                        r.check = s.check, r.call = s.call
                 PROVE  r = s
      OBVIOUS
    <3>1. CASE r \in reports /\ s \in reports
      BY <3>1 DEF SInv, ReportsAreSound
    <3>2. CASE r \in FindReports /\ s \in FindReports
      BY <2>4, <3>2
    <3>3. ~(r \in reports /\ s \in FindReports) /\ ~(s \in reports /\ r \in FindReports)
      BY <2>2, <2>5
    <3> QED
      BY <2>1, <3>1, <3>2, <3>3
  <2>7. Len(m_calls') = 0
    BY <2>1
  <2>8. ReportsAreSound'
    BY <2>1, <2>3, <2>6, <2>7 DEF SInv, ReportsAreSound
  <2> QED
    BY <1>1, <2>1, <2>3, <2>7, <2>8 DEF SInv
<1> QED
  BY <1>2, <1>3

(* A call: the number it gets is that of no other. *)
LEMMA SVisitCall ==
  ASSUME IInv, SInv, NEW call \in Calls, VisitCall(call)
  PROVE  SInv'
<1>1. next' = next + 1 /\ next \in Nat
  BY FindEmplaceAssumption DEF IInv, TypeOK, VisitCall, Visit
<1>2. \A n \in 0..(next - 1) : n \in 0..(next' - 1) /\ n # next
  BY <1>1
<1>3. next \in 0..(next' - 1)
  BY <1>1
<1>4. \/ m_calls' = m_calls
      \/ \E v \in getSameAsFindVar(call.place) :
           m_calls' = Append(m_calls, [var |-> v, call |-> next])
  BY DEF VisitCall
<1>5. /\ m_calls \in Seq(Pending) /\ Len(m_calls) \in Nat
  BY DEF IInv, TypeOK
<1>6. \A i \in 1..Len(m_calls') :
        \/ i \in 1..Len(m_calls) /\ m_calls'[i] = m_calls[i]
        \/ i = Len(m_calls) + 1 /\ m_calls'[i].call = next
  <2>1. CASE m_calls' = m_calls
    BY <2>1
  <2>2. ASSUME NEW v \in getSameAsFindVar(call.place),
               m_calls' = Append(m_calls, [var |-> v, call |-> next])
        PROVE  \A i \in 1..Len(m_calls') :
                 \/ i \in 1..Len(m_calls) /\ m_calls'[i] = m_calls[i]
                 \/ i = Len(m_calls) + 1 /\ m_calls'[i].call = next
    BY <1>5, <2>2
  <2> QED
    BY <1>4, <2>1, <2>2
<1>7. /\ reports \subseteq reports'
      /\ \A r \in reports' \ reports :
           /\ r = [check |-> "try_emplace-instead-emplace", call |-> next,
                   var |-> Null, found |-> TRUE]
  BY DEF VisitCall
<1>8. \A r \in reports' \ reports :
        r.check = "try_emplace-instead-emplace" /\ r.call = next /\ r.found
  BY <1>7
<1>9. \A i \in 1..Len(m_calls') : m_calls'[i].call \in 0..(next' - 1)
  BY <1>2, <1>3, <1>6 DEF SInv
<1>10. \A i, j \in 1..Len(m_calls') : m_calls'[i].call = m_calls'[j].call => i = j
  BY <1>2, <1>6 DEF SInv
<1>11. \A r \in reports' : r.found /\ r.call \in 0..(next' - 1)
  BY <1>2, <1>3, <1>8 DEF SInv, ReportsAreSound
<1>12. \A r \in reports', s \in reports' :
         r.check = s.check /\ r.call = s.call => r = s
  <2>1. \A r \in reports, s \in reports' \ reports : r.call # s.call
    BY <1>2, <1>8 DEF SInv
  <2>2. \A r, s \in reports' \ reports : r = s
    BY <1>7
  <2> QED
    BY <2>1, <2>2 DEF SInv, ReportsAreSound
<1>13. \A i \in 1..Len(m_calls'), r \in reports' :
         r.check = "find-emplace" => r.call # m_calls'[i].call
  <2>1. \A r \in reports' : r.check = "find-emplace" => r \in reports
    BY <1>8
  <2> QED
    BY <1>2, <1>6, <2>1 DEF SInv, ReportsAreSound
<1>14. ReportsAreSound'
  BY <1>11, <1>12, <1>13 DEF ReportsAreSound
<1> QED
  BY <1>9, <1>10, <1>11, <1>14 DEF SInv

(* No report is made from an empty tuple, and none of them twice: not when  *)
(* blocks nest, and not when m_calls is cleared between two declarations.   *)
THEOREM ReportsAreAlwaysSound == Spec => []ReportsAreSound
<1>1. Init => SInv
  BY DEF Init, SInv, ReportsAreSound
<1>2. IInv /\ SInv /\ [Next]_vars => SInv'
  <2> SUFFICES ASSUME IInv, SInv, [Next]_vars
               PROVE  SInv'
    OBVIOUS
  <2>1. CASE clear
    BY <2>1, SNoCall DEF clear, traversal
  <2>2. CASE EnterCompound
    BY <2>2, SNoCall DEF EnterCompound, Visit
  <2>3. CASE EnterControl \/ LeaveControl
    BY <2>3, SNoCall DEF EnterControl, LeaveControl, members, Visit
  <2>4. ASSUME NEW p \in Places, VisitVarDecl(p)
        PROVE  SInv'
    BY <2>4, SNoCall DEF VisitVarDecl, Visit
  <2>5. CASE UNCHANGED vars
    BY <2>5, SNoCall DEF vars, traversal, members
  <2> QED
    BY <2>1, <2>2, <2>3, <2>4, <2>5, SLeaveCompound, SVisitCall DEF Next, Leave
<1> QED
  BY <1>1, <1>2, Invariance, PTL DEF SInv, Spec

-----------------------------------------------------------------------------
(* FindEmplaceVisitor implements FindScopes. *)

(* Nodes are numbered in the order they are entered.                        *)
OpenIsOrdered ==
  /\ \A i \in 1..Len(open) : open[i].id < next
  /\ \A i, j \in 1..Len(open) : i < j => open[i].id < open[j].id

(* m_parent_of leads outwards, and knows every open block.                  *)
ParentsLeadOut ==
  /\ m_parent_of[Null] = Null
  /\ \A d \in DOMAIN m_parent_of : m_parent_of[d] <= d
  /\ \A c \in Scopes : c \in DOMAIN m_parent_of

(* The walk over m_parent_of meets every open block, and null.              *)
ScopesAreChained == Scopes \subseteq Chain(m_curr_stmt)

(* Only blocks that are open, and null, have iterators.                     *)
IteratorsAreOfScopes == DOMAIN m_stmt_iterators \subseteq Scopes

(* The invariant of the blocks. *)
BInv ==
  /\ IInv /\ OpenIsOrdered /\ ParentsLeadOut /\ ScopesAreChained
  /\ IteratorsAreOfScopes /\ BlocksAreStacked

-----------------------------------------------------------------------------

(* What the types say of the open nodes. *)
LEMMA OpenType ==
  ASSUME IInv
  PROVE  /\ open \in Seq([id : Nodes, kind : Kinds])
         /\ Len(open) \in Nat
         /\ \A i \in 1..Len(open) : open[i].id \in Nodes /\ open[i].kind \in Kinds
         /\ next \in Nat /\ DOMAIN m_parent_of \subseteq Nat
         /\ \A d \in DOMAIN m_parent_of : d < next
<1>1. open \in Seq([id : Nodes, kind : Kinds]) /\ Len(open) \in Nat
  BY DEF IInv, TypeOK
<1>2. \A i \in 1..Len(open) : open[i] \in [id : Nodes, kind : Kinds]
  BY <1>1, ElementOfSeq
<1>3. \A i \in 1..Len(open) : open[i].id \in Nodes /\ open[i].kind \in Kinds
  BY <1>2
<1>4. next \in Nat /\ DOMAIN m_parent_of \subseteq 0..(next - 1)
  BY FindEmplaceAssumption DEF IInv, TypeOK
<1> QED
  BY <1>1, <1>3, <1>4

(* Scopes, spelled out. *)
LEMMA ScopesAre ==
  \A c : c \in Scopes <=>
    c = Null \/ \E i \in 1..Len(open) : open[i].kind = "compound" /\ c = open[i].id
BY DEF Scopes

(* A set of blocks that is closed under m_parent_of and has the first block *)
(* has the whole chain.                                                     *)
LEMMA ChainIsLeast ==
  ASSUME NEW from, NEW S \in SUBSET DOMAIN m_parent_of,
         from \in S, \A d \in S : m_parent_of[d] \in S
  PROVE  Chain(from) \subseteq S
BY DEF Chain

(* The walk starts where it starts. *)
LEMMA ChainStarts ==
  ASSUME NEW from \in DOMAIN m_parent_of
  PROVE  from \in Chain(from)
BY DEF Chain

(* The walk meets open blocks and null only.                                *)
LEMMA ChainIsOpen ==
  ASSUME BInv
  PROVE  Chain(m_curr_stmt) \subseteq Scopes
<1>1. Scopes \in SUBSET DOMAIN m_parent_of
  BY DEF BInv, ParentsLeadOut
<1>2. m_curr_stmt \in Scopes
  BY ScopesAre DEF BInv, BlocksAreStacked, IsInnermost
<1>3. \A d \in Scopes : m_parent_of[d] \in Scopes
  <2> TAKE d \in Scopes
  <2>1. CASE d = Null
    BY <2>1, ScopesAre DEF BInv, ParentsLeadOut
  <2>2. ASSUME NEW i \in 1..Len(open), open[i].kind = "compound", d = open[i].id
        PROVE  m_parent_of[d] \in Scopes
    <3>1. IsInnermost(m_parent_of[d], i - 1)
      BY <2>2 DEF BInv, BlocksAreStacked
    <3>2. \A j \in 1..(i - 1) : j \in 1..Len(open)
      BY OpenType DEF BInv
    <3> QED
      BY <3>1, <3>2, ScopesAre DEF IsInnermost
  <2> QED
    BY <2>1, <2>2, ScopesAre
<1> QED
  BY <1>1, <1>2, <1>3, ChainIsLeast

(* The walk from a block meets no block that was opened after it.           *)
LEMMA ChainLeadsOut ==
  ASSUME BInv, NEW c \in DOMAIN m_parent_of
  PROVE  \A d \in Chain(c) : d <= c
<1> DEFINE S == {d \in DOMAIN m_parent_of : d <= c}
<1>1. DOMAIN m_parent_of \subseteq Nat
  BY OpenType DEF BInv
<1>2. S \in SUBSET DOMAIN m_parent_of /\ c \in S
  BY <1>1
<1>3. \A d \in S : m_parent_of[d] \in S
  <2> TAKE d \in S
  <2>1. m_parent_of[d] \in DOMAIN m_parent_of /\ m_parent_of[d] <= d /\ d <= c
    BY DEF BInv, IInv, TypeOK, ParentsLeadOut
  <2> QED
    BY <1>1, <2>1
<1> QED
  BY <1>2, <1>3, ChainIsLeast

(* The current block is the innermost one, of all that are open.            *)
LEMMA CurrentIsInnermost ==
  ASSUME BInv
  PROVE  m_curr_stmt \in Scopes /\ \A c \in Scopes : c <= m_curr_stmt
<1>1. IsInnermost(m_curr_stmt, Len(open))
  BY DEF BInv, BlocksAreStacked
<1>2. /\ Len(open) \in Nat /\ \A i \in 1..Len(open) : open[i].id \in Nat
      /\ \A i \in 1..Len(open) : open[i].id > Null
  BY OpenType DEF BInv, Nodes, Null
<1>3. CASE m_curr_stmt = Null /\ \A i \in 1..Len(open) : open[i].kind = "control"
  BY <1>3, ScopesAre DEF Null
<1>4. ASSUME NEW i \in 1..Len(open), open[i] = [id |-> m_curr_stmt, kind |-> "compound"],
             \A j \in (i + 1)..Len(open) : open[j].kind = "control"
      PROVE  m_curr_stmt \in Scopes /\ \A c \in Scopes : c <= m_curr_stmt
  <2>1. m_curr_stmt = open[i].id /\ open[i].kind = "compound"
    BY <1>4
  <2>2. ASSUME NEW j \in 1..Len(open), open[j].kind = "compound"
        PROVE  open[j].id <= m_curr_stmt
    <3>1. ~(i < j)
      BY <1>2, <1>4, <2>2
    <3>2. CASE j = i
      BY <1>2, <2>1, <3>2
    <3>3. CASE j < i
      BY <1>2, <2>1, <3>3 DEF BInv, OpenIsOrdered
    <3> QED
      BY <1>2, <3>1, <3>2, <3>3
  <2>3. Null <= m_curr_stmt
    BY <1>2, <2>1 DEF Null
  <2> QED
    BY <2>1, <2>2, <2>3, ScopesAre
<1> QED
  BY <1>1, <1>3, <1>4 DEF IsInnermost

-----------------------------------------------------------------------------

(* What entering and leaving a node do to the sequence of open nodes.       *)
LEMMA Pushed ==
  ASSUME IInv, OpenIsOrdered, NEW kind \in Kinds, Visit, open' = Append(open, Node(kind))
  PROVE  /\ next \in Nodes /\ next' = next + 1
         /\ Len(open') = Len(open) + 1
         /\ open'[Len(open) + 1] = [id |-> next, kind |-> kind]
         /\ \A i \in 1..Len(open) : open'[i] = open[i]
         /\ OpenIsOrdered'
<1>1. next \in Nodes /\ next' = next + 1 /\ next \in Nat
  BY VisitType, OpenType DEF IInv
<1>2. Node(kind) \in [id : Nodes, kind : Kinds] /\ Node(kind) = [id |-> next, kind |-> kind]
  BY <1>1 DEF Node
<1>3. /\ Len(open) \in Nat /\ Len(open') = Len(open) + 1
      /\ open'[Len(open) + 1] = [id |-> next, kind |-> kind]
      /\ \A i \in 1..Len(open) : open'[i] = open[i]
  BY <1>2, PushBack, OpenType
<1>4. \A i \in 1..Len(open') : open'[i].id < next'
  BY <1>1, <1>3, OpenType DEF OpenIsOrdered, Nodes
<1>5. \A i, j \in 1..Len(open') : i < j => open'[i].id < open'[j].id
  <2> SUFFICES ASSUME NEW i \in 1..Len(open'), NEW j \in 1..Len(open'), i < j
               PROVE  open'[i].id < open'[j].id
    OBVIOUS
  <2>1. i \in 1..Len(open) /\ open'[i] = open[i]
    BY <1>3
  <2>2. CASE j = Len(open) + 1
    BY <1>3, <2>1, <2>2 DEF OpenIsOrdered
  <2>3. CASE j # Len(open) + 1
    BY <1>3, <2>1, <2>3 DEF OpenIsOrdered
  <2> QED
    BY <2>2, <2>3
<1> QED
  BY <1>1, <1>3, <1>4, <1>5 DEF OpenIsOrdered

(* Leaving a node takes the last of them away.                              *)
LEMMA Popped ==
  ASSUME IInv, OpenIsOrdered, open # <<>>, open' = SubSeq(open, 1, Len(open) - 1), next' = next
  PROVE  /\ Len(open) \in Nat \ {0} /\ Len(open') = Len(open) - 1
         /\ \A i \in 1..(Len(open) - 1) : open'[i] = open[i]
         /\ OpenIsOrdered'
<1>1. /\ Len(open) \in Nat \ {0} /\ Len(open') = Len(open) - 1
      /\ \A i \in 1..(Len(open) - 1) : open'[i] = open[i]
  BY PopBack, OpenType
<1>2. \A i \in 1..Len(open') : i \in 1..Len(open) /\ open'[i] = open[i]
  BY <1>1
<1>3. OpenIsOrdered'
  BY <1>2 DEF OpenIsOrdered
<1> QED
  BY <1>1, <1>3

-----------------------------------------------------------------------------

(* The invariant, action by action. *)
LEMMA BClearStep ==
  ASSUME BInv, clear
  PROVE  BInv'
<1>1. IInv'
  BY ClearStep DEF BInv
<1>2. /\ open' = open /\ next' = next /\ m_parent_of' = m_parent_of /\ open = <<>>
      /\ m_curr_stmt' = Null /\ DOMAIN m_stmt_iterators' = {}
  BY DEF clear, traversal
<1>3. OpenIsOrdered'
  BY <1>2 DEF BInv, OpenIsOrdered
<1>4. Scopes' = {Null} /\ Scopes = {Null}
  BY <1>2 DEF Scopes
<1>5. ParentsLeadOut'
  BY <1>2, <1>4 DEF BInv, ParentsLeadOut
<1>6. ScopesAreChained'
  <2>1. Chain(m_curr_stmt)' = Chain(Null)
    BY <1>2 DEF Chain
  <2> QED
    BY <1>4, <2>1, ChainStarts DEF ScopesAreChained, BInv, IInv, TypeOK
<1>7. BlocksAreStacked'
  BY <1>2 DEF BlocksAreStacked, IsInnermost
<1>8. IteratorsAreOfScopes'
  BY <1>2 DEF IteratorsAreOfScopes
<1> QED
  BY <1>1, <1>3, <1>5, <1>6, <1>7, <1>8 DEF BInv

LEMMA BEnterCompoundStep ==
  ASSUME BInv, EnterCompound
  PROVE  BInv'
<1> DEFINE D == DOMAIN m_parent_of
<1> DEFINE n == Len(open)
<1>1. IInv'
  BY EnterCompoundStep DEF BInv
<1>2. /\ next \in Nodes /\ next' = next + 1
      /\ Len(open') = n + 1 /\ open'[n + 1] = [id |-> next, kind |-> "compound"]
      /\ \A i \in 1..n : open'[i] = open[i]
      /\ OpenIsOrdered'
  BY Pushed DEF BInv, EnterCompound, Kinds
<1>3. /\ n \in Nat /\ next \in Nat /\ next > Null /\ D \subseteq Nat
      /\ next \notin D /\ m_curr_stmt \in D /\ Null \in D
  BY <1>2, OpenType DEF BInv, IInv, TypeOK, Nodes, Null
<1>4. /\ m_curr_stmt' = next /\ DOMAIN m_parent_of' = D \cup {next}
      /\ m_parent_of'[next] = m_curr_stmt
      /\ \A d \in D : m_parent_of'[d] = m_parent_of[d]
      /\ DOMAIN m_stmt_iterators' = DOMAIN m_stmt_iterators \cup {next}
  BY <1>3 DEF EnterCompound
<1>5. Scopes' = Scopes \cup {next}
  <2>1. \A i : i \in 1..Len(open') <=> i \in 1..n \/ i = n + 1
    BY <1>2, <1>3
  <2> QED
    BY <1>2, <1>3, <2>1 DEF Scopes
<1>6. ParentsLeadOut'
  <2>1. m_curr_stmt < next
    BY <1>3, OpenType DEF BInv
  <2>2. m_parent_of'[Null] = Null
    BY <1>3, <1>4 DEF BInv, ParentsLeadOut
  <2>3. \A d \in DOMAIN m_parent_of' : m_parent_of'[d] <= d
    BY <1>3, <1>4, <2>1 DEF BInv, ParentsLeadOut
  <2>4. \A c \in Scopes' : c \in DOMAIN m_parent_of'
    BY <1>4, <1>5 DEF BInv, ParentsLeadOut
  <2> QED
    BY <2>2, <2>3, <2>4 DEF ParentsLeadOut
<1>7. ScopesAreChained'
  <2>1. \A c \in Scopes : c \in Chain(m_curr_stmt)'
    BY ChainGrows DEF BInv, IInv, ScopesAreChained
  <2>2. next \in Chain(m_curr_stmt)'
    BY <1>4 DEF Chain
  <2> QED
    BY <1>5, <2>1, <2>2 DEF ScopesAreChained
<1>8. BlocksAreStacked'
  <2>1. IsInnermost(m_curr_stmt, Len(open))'
    BY <1>2, <1>3, <1>4 DEF IsInnermost
  <2>2. ASSUME NEW i \in 1..Len(open'), open'[i].kind = "compound"
        PROVE  IsInnermost(m_parent_of[open[i].id], i - 1)'
    <3>1. CASE i = n + 1
      <4>1. m_parent_of'[open'[i].id] = m_curr_stmt /\ i - 1 = n
        BY <1>2, <1>3, <1>4, <3>1
      <4>2. IsInnermost(m_curr_stmt, n)
        BY DEF BInv, BlocksAreStacked
      <4>3. IsInnermost(m_curr_stmt, n) <=>
              (\/ m_curr_stmt = Null /\ \A k \in 1..n : open'[k].kind = "control"
               \/ \E k \in 1..n :
                    /\ open'[k] = [id |-> m_curr_stmt, kind |-> "compound"]
                    /\ \A l \in (k + 1)..n : open'[l].kind = "control")
        <5>1. \A k \in 1..n : \A l \in (k + 1)..n : l \in 1..n
          BY <1>3
        <5> QED
          BY <1>2, <5>1 DEF IsInnermost
      <4> QED
        BY <4>1, <4>2, <4>3 DEF IsInnermost
    <3>2. CASE i # n + 1
      <4>1. i \in 1..n /\ open'[i] = open[i] /\ i - 1 \in 0..n
        BY <1>2, <1>3, <3>2
      <4>2. open[i].id \in Scopes
        BY <2>2, <4>1, ScopesAre
      <4>3. m_parent_of'[open'[i].id] = m_parent_of[open[i].id]
        BY <1>4, <4>1, <4>2 DEF BInv, ParentsLeadOut
      <4>4. IsInnermost(m_parent_of[open[i].id], i - 1)
        BY <2>2, <4>1 DEF BInv, BlocksAreStacked
      <4>5. \A k \in 1..(i - 1) : open'[k] = open[k] /\ \A l \in (k + 1)..(i - 1) : open'[l] = open[l]
        BY <1>2, <1>3, <4>1
      <4> QED
        BY <4>3, <4>4, <4>5, SMTT(30) DEF IsInnermost
    <3> QED
      BY <3>1, <3>2
  <2>3. ASSUME NEW c \in DOMAIN m_stmt_iterators', c # Null
        PROVE  \E i \in 1..Len(open') : open'[i].id = c
    <3>1. CASE c = next
      BY <1>2, <1>3, <3>1
    <3>2. CASE c # next
      <4>1. PICK i \in 1..n : open[i].id = c
        BY <1>4, <2>3, <3>2 DEF BInv, BlocksAreStacked, IsOpen
      <4> QED
        BY <1>2, <1>3, <4>1
    <3> QED
      BY <3>1, <3>2
  <2> QED
    BY <2>1, <2>2, <2>3 DEF BlocksAreStacked, IsOpen
<1>9. IteratorsAreOfScopes'
  BY <1>4, <1>5 DEF BInv, IteratorsAreOfScopes
<1> QED
  BY <1>1, <1>2, <1>6, <1>7, <1>8, <1>9 DEF BInv

(* m_curr_stmt is the block that ends. *)
LEMMA TopIsCurrent ==
  ASSUME BInv, open # <<>>, open[Len(open)].kind = "compound"
  PROVE  m_curr_stmt = open[Len(open)].id
<1>1. Len(open) \in Nat \ {0} /\ Len(open) \in 1..Len(open)
  BY OpenType, Back DEF BInv
<1>2. \A i \in 1..Len(open) :
        (\A j \in (i + 1)..Len(open) : open[j].kind = "control") => i = Len(open)
  BY <1>1
<1> QED
  BY <1>1, <1>2 DEF BInv, BlocksAreStacked, IsInnermost

(* The other blocks are on the walk from the block around it.               *)
LEMMA ChainBehind ==
  ASSUME IInv, NEW d \in Chain(m_curr_stmt), d # m_curr_stmt
  PROVE  d \in Chain(m_parent_of[m_curr_stmt])
<1>1. \A e \in DOMAIN m_parent_of : m_parent_of[e] \in DOMAIN m_parent_of
  BY DEF IInv, TypeOK
<1>2. m_curr_stmt \in DOMAIN m_parent_of
  BY DEF IInv, TypeOK
<1>3. SUFFICES ASSUME NEW S \in SUBSET DOMAIN m_parent_of, m_parent_of[m_curr_stmt] \in S,
                      \A e \in S : m_parent_of[e] \in S
               PROVE  d \in S
  BY DEF Chain
<1>4. S \cup {m_curr_stmt} \in SUBSET DOMAIN m_parent_of
  BY <1>2
<1>5. Chain(m_curr_stmt) \subseteq S \cup {m_curr_stmt}
  BY <1>3, <1>4, ChainIsLeast
<1> QED
  BY <1>5

(* The block that ends is no scope any more. *)
LEMMA ScopesShrink ==
  ASSUME BInv, LeaveCompound
  PROVE  Scopes' = Scopes \ {open[Len(open)].id}
<1> DEFINE n == Len(open)
<1> DEFINE top == open[Len(open)].id
<1>0. /\ n \in Nat \ {0} /\ Len(open') = n - 1
      /\ \A i \in 1..(n - 1) : open'[i] = open[i]
  BY Popped DEF BInv, LeaveCompound
<1>1. Null \in Scopes /\ Null # top
  BY <1>0, OpenType, ScopesAre DEF BInv, Nodes, Null
<1>2. ASSUME NEW c, NEW i \in 1..Len(open'), open'[i].kind = "compound", c = open'[i].id
      PROVE  c \in Scopes /\ c # top
  <2>1. i \in 1..n /\ i < n /\ n \in 1..n /\ open'[i] = open[i]
    BY <1>0
  <2>2. open[i].id < top /\ open[i].id \in Nat /\ top \in Nat
    BY <2>1, OpenType DEF BInv, OpenIsOrdered, Nodes
  <2> QED
    BY <1>2, <2>1, <2>2, ScopesAre
<1>3. \A c : c \in Scopes' <=>
        c = Null \/ \E i \in 1..Len(open') : open'[i].kind = "compound" /\ c = open'[i].id
  BY DEF Scopes
<1>4. ASSUME NEW i \in 1..n, open[i].kind = "compound", open[i].id # top
      PROVE  open[i].id \in Scopes'
  <2>1. i \in 1..Len(open') /\ open'[i] = open[i]
    BY <1>0, <1>4
  <2> QED
    BY <1>3, <1>4, <2>1
<1>5. Null \in Scopes'
  BY <1>3
<1> QED
  BY <1>1, <1>2, <1>3, <1>4, <1>5, ScopesAre

LEMMA BLeaveCompoundStep ==
  ASSUME BInv, LeaveCompound
  PROVE  BInv'
<1> DEFINE n == Len(open)
<1> DEFINE top == open[Len(open)].id
<1>1. IInv'
  BY LeaveCompoundStep DEF BInv
<1>2. /\ open # <<>> /\ open[n].kind = "compound" /\ next' = next
      /\ open' = SubSeq(open, 1, Len(open) - 1) /\ m_parent_of' = m_parent_of
      /\ m_curr_stmt' = m_parent_of[m_curr_stmt]
      /\ DOMAIN m_stmt_iterators' = DOMAIN m_stmt_iterators \ {top}
  BY DEF LeaveCompound
<1>3. /\ n \in Nat \ {0} /\ Len(open') = n - 1
      /\ \A i \in 1..(n - 1) : open'[i] = open[i]
      /\ OpenIsOrdered'
  BY <1>2, Popped DEF BInv
<1>4. m_curr_stmt = top
  BY <1>2, TopIsCurrent
<1>5. Scopes' = Scopes \ {top}
  BY ScopesShrink
<1>6. ParentsLeadOut'
  BY <1>2, <1>5 DEF BInv, ParentsLeadOut
<1>7. ScopesAreChained'
  <2> SUFFICES ASSUME NEW d \in Scopes' PROVE d \in Chain(m_curr_stmt)'
    BY DEF ScopesAreChained
  <2>1. d \in Chain(m_curr_stmt) /\ d # m_curr_stmt
    BY <1>4, <1>5 DEF BInv, ScopesAreChained
  <2>2. d \in Chain(m_parent_of[m_curr_stmt])
    BY <2>1, ChainBehind DEF BInv
  <2> QED
    BY <1>2, <2>2 DEF Chain
<1>8. BlocksAreStacked'
  <2>1. IsInnermost(m_curr_stmt, Len(open))'
    <3>1. IsInnermost(m_parent_of[top], n - 1)
      BY <1>2, <1>3 DEF BInv, BlocksAreStacked
    <3>2. \A k \in 1..(n - 1) : \A l \in (k + 1)..(n - 1) : open'[l] = open[l]
      BY <1>3
    <3> QED
      BY <1>2, <1>3, <1>4, <3>1, <3>2 DEF IsInnermost
  <2>2. ASSUME NEW i \in 1..Len(open'), open'[i].kind = "compound"
        PROVE  IsInnermost(m_parent_of[open[i].id], i - 1)'
    <3>1. i \in 1..n /\ open'[i] = open[i]
      BY <1>3
    <3>2. IsInnermost(m_parent_of[open[i].id], i - 1)
      BY <2>2, <3>1 DEF BInv, BlocksAreStacked
    <3>3. \A k \in 1..(i - 1) : open'[k] = open[k] /\ \A l \in (k + 1)..(i - 1) : open'[l] = open[l]
      BY <1>3, <3>1
    <3> QED
      BY <1>2, <3>1, <3>2, <3>3 DEF IsInnermost
  <2>3. ASSUME NEW c \in DOMAIN m_stmt_iterators', c # Null
        PROVE  \E i \in 1..Len(open') : open'[i].id = c
    <3>1. PICK i \in 1..n : open[i].id = c
      BY <1>2, <2>3 DEF BInv, BlocksAreStacked, IsOpen
    <3>2. i # n
      BY <1>2, <2>3, <3>1
    <3> QED
      BY <1>3, <3>1, <3>2
  <2> QED
    BY <2>1, <2>2, <2>3 DEF BlocksAreStacked, IsOpen
<1>9. IteratorsAreOfScopes'
  BY <1>2, <1>5 DEF BInv, IteratorsAreOfScopes
<1> QED
  BY <1>1, <1>3, <1>6, <1>7, <1>8, <1>9 DEF BInv

(* Statements other than blocks are no scopes. *)
LEMMA ScopesStay ==
  ASSUME BInv, EnterControl \/ LeaveControl
  PROVE  Scopes' = Scopes
<1>1. CASE EnterControl
  <2>1. /\ Len(open) \in Nat /\ Len(open') = Len(open) + 1
        /\ open'[Len(open) + 1] = [id |-> next, kind |-> "control"]
        /\ \A i \in 1..Len(open) : open'[i] = open[i]
    BY <1>1, Pushed, OpenType DEF BInv, EnterControl, Kinds
  <2>2. \A i : i \in 1..Len(open') <=> i \in 1..Len(open) \/ i = Len(open) + 1
    BY <2>1
  <2> QED
    BY <2>1, <2>2 DEF Scopes
<1>2. CASE LeaveControl
  <2>1. /\ Len(open) \in Nat \ {0} /\ Len(open') = Len(open) - 1
        /\ \A i \in 1..(Len(open) - 1) : open'[i] = open[i]
        /\ open[Len(open)].kind = "control"
    BY <1>2, Popped DEF BInv, LeaveControl
  <2>2. \A i : i \in 1..Len(open) <=> i \in 1..Len(open') \/ i = Len(open)
    BY <2>1
  <2> QED
    BY <2>1, <2>2 DEF Scopes
<1> QED
  BY <1>1, <1>2

LEMMA BControlStep ==
  ASSUME BInv, EnterControl \/ LeaveControl
  PROVE  BInv'
<1>1. IInv'
  BY ControlStep DEF BInv
<1>2. UNCHANGED members
  BY DEF EnterControl, LeaveControl
<1>3. Scopes' = Scopes /\ OpenIsOrdered' /\ BlocksAreStacked'
  <2>1. CASE EnterControl
    <3>1. /\ next \in Nodes /\ next' = next + 1
          /\ Len(open') = Len(open) + 1
          /\ open'[Len(open) + 1] = [id |-> next, kind |-> "control"]
          /\ \A i \in 1..Len(open) : open'[i] = open[i]
          /\ OpenIsOrdered'
      BY <2>1, Pushed DEF BInv, EnterControl, Kinds
    <3>2. Len(open) \in Nat
      BY OpenType DEF BInv
    <3>3. Scopes' = Scopes
      BY ScopesStay
    <3>4. IsInnermost(m_curr_stmt, Len(open))'
      BY <1>2, <3>1, <3>2 DEF BInv, BlocksAreStacked, IsInnermost, members
    <3>5. ASSUME NEW i \in 1..Len(open'), open'[i].kind = "compound"
          PROVE  IsInnermost(m_parent_of[open[i].id], i - 1)'
      <4>1. i \in 1..Len(open) /\ open'[i] = open[i]
        BY <3>1, <3>2, <3>5
      <4>2. IsInnermost(m_parent_of[open[i].id], i - 1)
        BY <3>5, <4>1 DEF BInv, BlocksAreStacked
      <4>3. \A k \in 1..(i - 1) : open'[k] = open[k] /\ \A l \in (k + 1)..(i - 1) : open'[l] = open[l]
        BY <3>1, <3>2, <4>1
      <4> QED
        BY <1>2, <4>1, <4>2, <4>3 DEF IsInnermost, members
    <3>6. ASSUME NEW c, IsOpen(c) PROVE IsOpen(c)'
      BY <3>1, <3>2, <3>6 DEF IsOpen
    <3> QED
      BY <1>2, <3>1, <3>3, <3>4, <3>5, <3>6 DEF BInv, BlocksAreStacked, members
  <2>2. CASE LeaveControl
    <3>1. /\ Len(open) \in Nat \ {0} /\ Len(open') = Len(open) - 1
          /\ \A i \in 1..(Len(open) - 1) : open'[i] = open[i]
          /\ OpenIsOrdered'
          /\ open[Len(open)].kind = "control"
      BY <2>2, Popped DEF BInv, LeaveControl
    <3>2. Scopes' = Scopes
      BY ScopesStay
    <3>3. IsInnermost(m_curr_stmt, Len(open))'
      BY <1>2, <3>1 DEF BInv, BlocksAreStacked, IsInnermost, members
    <3>4. ASSUME NEW i \in 1..Len(open'), open'[i].kind = "compound"
          PROVE  IsInnermost(m_parent_of[open[i].id], i - 1)'
      <4>1. i \in 1..Len(open) /\ open'[i] = open[i]
        BY <3>1
      <4>2. IsInnermost(m_parent_of[open[i].id], i - 1)
        BY <3>4, <4>1 DEF BInv, BlocksAreStacked
      <4>3. \A k \in 1..(i - 1) : open'[k] = open[k] /\ \A l \in (k + 1)..(i - 1) : open'[l] = open[l]
        BY <3>1, <4>1
      <4> QED
        BY <1>2, <4>1, <4>2, <4>3 DEF IsInnermost, members
    <3>5. ASSUME NEW c \in Scopes, c # Null PROVE IsOpen(c)'
      BY <3>1, <3>2, <3>5 DEF IsOpen, Scopes
    <3> QED
      BY <1>2, <3>1, <3>2, <3>3, <3>4, <3>5 DEF BInv, BlocksAreStacked, IteratorsAreOfScopes,
                                                members
  <2> QED
    BY <2>1, <2>2
<1>4. ParentsLeadOut' /\ ScopesAreChained' /\ IteratorsAreOfScopes'
  BY <1>2, <1>3 DEF BInv, ParentsLeadOut, ScopesAreChained, IteratorsAreOfScopes, Chain, members
<1> QED
  BY <1>1, <1>3, <1>4 DEF BInv

LEMMA BVisitVarDeclStep ==
  ASSUME BInv, NEW p \in Places, VisitVarDecl(p)
  PROVE  BInv'
<1>1. IInv'
  BY VisitVarDeclStep DEF BInv
<1>2. /\ UNCHANGED <<open, m_curr_stmt, m_parent_of>> /\ next' = next + 1 /\ next \in Nat
      /\ DOMAIN m_stmt_iterators' = DOMAIN m_stmt_iterators \cup {m_curr_stmt}
  BY OpenType DEF BInv, VisitVarDecl, Visit
<1>3. OpenIsOrdered'
  BY <1>2, OpenType DEF BInv, OpenIsOrdered, Nodes
<1>4. Scopes' = Scopes /\ m_curr_stmt \in Scopes
  BY <1>2, CurrentIsInnermost DEF Scopes
<1>5. ParentsLeadOut' /\ ScopesAreChained' /\ IteratorsAreOfScopes'
  BY <1>2, <1>4 DEF BInv, ParentsLeadOut, ScopesAreChained, IteratorsAreOfScopes, Chain
<1>6. BlocksAreStacked'
  <2>1. \A c \in Scopes : c = Null \/ IsOpen(c)
    BY DEF Scopes, IsOpen
  <2> QED
    BY <1>2, <1>4, <2>1 DEF BInv, BlocksAreStacked, IsInnermost, IsOpen
<1> QED
  BY <1>1, <1>3, <1>5, <1>6 DEF BInv

(* The lookup leaves entries for blocks that are open only.                 *)
LEMMA BVisitCallStep ==
  ASSUME BInv, NEW call \in Calls, VisitCall(call)
  PROVE  BInv'
<1>1. IInv'
  BY VisitCallStep DEF BInv
<1>2. /\ UNCHANGED <<open, m_curr_stmt, m_parent_of>> /\ next' = next + 1 /\ next \in Nat
      /\ DOMAIN m_stmt_iterators' \subseteq DOMAIN m_stmt_iterators \cup LookedAt(call.place)
  BY OpenType DEF BInv, VisitCall, Visit
<1>3. OpenIsOrdered'
  BY <1>2, OpenType DEF BInv, OpenIsOrdered, Nodes
<1>4. Scopes' = Scopes /\ LookedAt(call.place) \subseteq Scopes
  BY <1>2, ChainIsOpen DEF Scopes, LookedAt
<1>5. ParentsLeadOut' /\ ScopesAreChained' /\ IteratorsAreOfScopes'
  BY <1>2, <1>4 DEF BInv, ParentsLeadOut, ScopesAreChained, IteratorsAreOfScopes, Chain
<1>6. BlocksAreStacked'
  <2>1. \A c \in Scopes : c = Null \/ IsOpen(c)
    BY DEF Scopes, IsOpen
  <2> QED
    BY <1>2, <1>4, <2>1 DEF BInv, BlocksAreStacked, IsInnermost, IsOpen
<1> QED
  BY <1>1, <1>3, <1>5, <1>6 DEF BInv

(* The invariant of the blocks holds in every state. *)
LEMMA BInvariance == Spec => []BInv
<1>1. Init /\ IInv => BInv
  <2> SUFFICES ASSUME Init, IInv PROVE BInv
    OBVIOUS
  <2>1. open = <<>> /\ m_curr_stmt = Null /\ m_parent_of = [c \in {Null} |-> Null]
        /\ DOMAIN m_stmt_iterators = {}
    BY DEF Init
  <2>2. Scopes = {Null}
    BY <2>1 DEF Scopes
  <2>3. OpenIsOrdered /\ IteratorsAreOfScopes /\ BlocksAreStacked
    BY <2>1 DEF OpenIsOrdered, IteratorsAreOfScopes, BlocksAreStacked, IsInnermost
  <2>4. ParentsLeadOut
    BY <2>1, <2>2 DEF ParentsLeadOut, Null
  <2>5. ScopesAreChained
    BY <2>1, <2>2, ChainStarts DEF ScopesAreChained
  <2> QED
    BY <2>3, <2>4, <2>5 DEF BInv
<1>2. BInv /\ [Next]_vars => BInv'
  <2> SUFFICES ASSUME BInv, [Next]_vars
               PROVE  BInv'
    OBVIOUS
  <2>1. CASE UNCHANGED vars
    <3>1. UNCHANGED <<open, next, m_calls, m_curr_stmt, m_parent_of, m_stmt_iterators, scopeOf>>
      BY <2>1 DEF vars, traversal, members
    <3>2. IInv'
      BY <3>1 DEF BInv, IInv, TypeOK, PendingCallsAreFound, IterFound, Chain, Iterators
    <3>3. OpenIsOrdered' /\ ParentsLeadOut' /\ ScopesAreChained' /\ IteratorsAreOfScopes'
      BY <3>1 DEF BInv, OpenIsOrdered, ParentsLeadOut, ScopesAreChained, IteratorsAreOfScopes,
                  Chain, Scopes
    <3>4. BlocksAreStacked'
      BY <3>1 DEF BInv, BlocksAreStacked, IsInnermost, IsOpen
    <3> QED
      BY <3>2, <3>3, <3>4 DEF BInv
  <2> QED
    BY <2>1, BClearStep, BEnterCompoundStep, BControlStep, BLeaveCompoundStep,
       BVisitVarDeclStep, BVisitCallStep DEF Next, Leave
<1> QED
  BY <1>1, <1>2, Invariance, PTL DEF Spec

(* However blocks and control statements nest, the visitor's three members  *)
(* hold the stack of the open blocks, and no block that has ended has       *)
(* iterators.                                                               *)
THEOREM BlocksAreAlwaysStacked == Spec => []BlocksAreStacked
<1>1. BInv => BlocksAreStacked
  BY DEF BInv
<1> QED
  BY <1>1, BInvariance, PTL

-----------------------------------------------------------------------------

(* The refinement: the initial state, then every action with the step of    *)
(* FindScopes it is.                                                        *)
LEMMA RInit ==
  Init => Promise!Init
<1> SUFFICES ASSUME Init PROVE Promise!Init
  OBVIOUS
<1>1. /\ open = <<>> /\ m_calls = <<>> /\ reports = {}
      /\ m_stmt_iterators = [c \in {} |-> {}]
  BY DEF Init
<1>2. Scopes = {Null} /\ Iterators(Null) = {}
  BY <1>1 DEF Scopes, Iterators
<1>3. FindsOf = [s \in {0} |-> {}]
  BY <1>2 DEF FindsOf, Null
<1>4. Due = {} /\ Told = {}
  BY <1>1 DEF Due, Told
<1> QED
  BY <1>3, <1>4 DEF Promise!Init

(* What is pending and reported depends on two members only.                *)
LEMMA SameDue ==
  ASSUME m_calls' = m_calls
  PROVE  Due' = Due
BY DEF Due

LEMMA SameTold ==
  ASSUME reports' = reports
  PROVE  Told' = Told
BY DEF Told

LEMMA RClear ==
  ASSUME BInv, clear
  PROVE  Promise!Restart
<1>1. /\ open = <<>> /\ open' = <<>> /\ m_calls' = <<>> /\ reports' = reports
      /\ m_stmt_iterators' = [c \in {} |-> {}]
  BY DEF clear, traversal
<1>2. Scopes = {Null} /\ Scopes' = {Null} /\ Iterators(Null)' = {}
  BY <1>1 DEF Scopes, Iterators
<1>3. DOMAIN FindsOf = {0} /\ FindsOf' = [s \in {0} |-> {}]
  BY <1>2 DEF FindsOf, Null
<1>4. Due' = {} /\ Told' = Told
  BY <1>1, SameTold DEF Due
<1> QED
  BY <1>3, <1>4 DEF Promise!Restart

LEMMA REnterCompound ==
  ASSUME BInv, EnterCompound
  PROVE  \E b \in Nodes : Promise!OpenBlock(b)
<1>1. /\ next \in Nodes /\ Len(open') = Len(open) + 1
      /\ open'[Len(open) + 1] = [id |-> next, kind |-> "compound"]
      /\ \A i \in 1..Len(open) : open'[i] = open[i]
      /\ Len(open) \in Nat
  BY Pushed, OpenType DEF BInv, EnterCompound, Kinds
<1>2. Scopes' = Scopes \cup {next}
  <2>1. \A i : i \in 1..Len(open') <=> i \in 1..Len(open) \/ i = Len(open) + 1
    BY <1>1
  <2> QED
    BY <1>1, <2>1 DEF Scopes
<1>3. \A c \in Scopes : c < next
  BY OpenType DEF BInv, ParentsLeadOut
<1>4. next \notin Scopes
  BY <1>3, <1>1 DEF Nodes
<1>5. \A c : c = next => Iterators(c)' = {}
  BY DEF EnterCompound, Iterators
<1>6. \A c \in Scopes : Iterators(c)' = Iterators(c)
  BY ChainGrows DEF BInv, IInv, ScopesAreChained
<1>7. FindsOf' = [s \in DOMAIN FindsOf \cup {next} |-> IF s = next THEN {} ELSE FindsOf[s]]
  BY <1>2, <1>4, <1>5, <1>6 DEF FindsOf
<1>8. Due' = Due /\ Told' = Told
  BY SameDue, SameTold DEF EnterCompound
<1>9. \A s \in DOMAIN FindsOf : s < next
  BY <1>3 DEF FindsOf
<1>10. Promise!OpenBlock(next)
  BY <1>7, <1>8, <1>9 DEF Promise!OpenBlock
<1> QED
  BY <1>1, <1>10

LEMMA RLeaveCompound ==
  ASSUME BInv, LeaveCompound
  PROVE  \E b \in Nodes : Promise!CloseBlock(b)
<1> DEFINE n == Len(open)
<1> DEFINE top == open[Len(open)].id
<1>1. /\ open # <<>> /\ open[n].kind = "compound" /\ next' = next
      /\ open' = SubSeq(open, 1, Len(open) - 1) /\ reportCompoundStmt
      /\ m_stmt_iterators' =
           [c \in DOMAIN m_stmt_iterators \ {top} |-> m_stmt_iterators[c]]
  BY DEF LeaveCompound
<1>2. m_curr_stmt = top /\ top \in Scopes /\ \A c \in Scopes : c <= top
  BY <1>1, TopIsCurrent, CurrentIsInnermost
<1>3. top \in Nodes
  BY <1>1, Back, OpenType DEF BInv
<1>4. Scopes' = Scopes \ {top}
  BY ScopesShrink
<1>5. \A c \in Scopes' : Iterators(c)' = Iterators(c)
  BY <1>1, <1>4 DEF Iterators
<1>6. FindsOf' = [s \in DOMAIN FindsOf \ {top} |-> FindsOf[s]]
  BY <1>4, <1>5 DEF FindsOf
<1>7. IF "find-emplace" \in EnabledChecks
        THEN Due' = {} /\ Told' = Told \cup Due
        ELSE Due' = Due /\ Told' = Told
  <2>1. CASE "find-emplace" \in EnabledChecks
    <3>1. reports' = reports \cup FindReports /\ m_calls' = <<>>
      BY <1>1, <2>1 DEF reportCompoundStmt
    <3>2. Due' = {}
      BY <3>1 DEF Due
    <3>3. {[call |-> r.call, var |-> r.var] : r \in FindReports} = Due
      <4>1. ASSUME NEW r \in FindReports
            PROVE  [call |-> r.call, var |-> r.var] \in Due
        <5>1. PICK i \in 1..Len(m_calls) :
                r.call = m_calls[i].call /\ r.var = m_calls[i].var
          BY DEF FindReports
        <5> QED
          BY <5>1 DEF Due
      <4>2. ASSUME NEW i \in 1..Len(m_calls)
            PROVE  \E r \in FindReports : r.call = m_calls[i].call /\ r.var = m_calls[i].var
        <5> DEFINE told == [check |-> "find-emplace",
                            call |-> m_calls[i].call,
                            var |-> m_calls[i].var,
                            found |-> IterFound(m_calls[i].var)]
        <5>1. told \in FindReports
          BY DEF FindReports
        <5>2. told.call = m_calls[i].call /\ told.var = m_calls[i].var
          OBVIOUS
        <5> HIDE DEF told
        <5> QED
          BY <5>1, <5>2
      <4>3. \A d \in Due : d \in {[call |-> r.call, var |-> r.var] : r \in FindReports}
        <5> TAKE d \in Due
        <5>1. PICK i \in 1..Len(m_calls) :
                d = [call |-> m_calls[i].call, var |-> m_calls[i].var]
          BY DEF Due
        <5>2. PICK r \in FindReports : r.call = m_calls[i].call /\ r.var = m_calls[i].var
          BY <4>2
        <5> QED
          BY <5>1, <5>2
      <4> QED
        BY <4>1, <4>3
    <3>4. \A r \in FindReports : r.check = "find-emplace"
      BY DEF FindReports
    <3>5. Told' = Told \cup {[call |-> r.call, var |-> r.var] : r \in FindReports}
      BY <3>1, <3>4 DEF Told
    <3> QED
      BY <2>1, <3>2, <3>3, <3>5
  <2>2. CASE "find-emplace" \notin EnabledChecks
    BY <1>1, <2>2, SameDue, SameTold DEF reportCompoundStmt
  <2> QED
    BY <2>1, <2>2
<1>8. top \in DOMAIN FindsOf /\ \A s \in DOMAIN FindsOf : s <= top
  BY <1>2 DEF FindsOf
<1>9. Promise!CloseBlock(top)
  BY <1>6, <1>7, <1>8 DEF Promise!CloseBlock, Promise!IsInnermost
<1> QED
  BY <1>3, <1>9

LEMMA RControl ==
  ASSUME BInv, EnterControl \/ LeaveControl
  PROVE  UNCHANGED Promise!vars
<1>1. m_calls' = m_calls /\ m_stmt_iterators' = m_stmt_iterators /\ reports' = reports
  BY DEF EnterControl, LeaveControl, members
<1>2. Scopes' = Scopes
  BY ScopesStay
<1>3. FindsOf' = FindsOf
  BY <1>1, <1>2 DEF FindsOf, Iterators
<1> QED
  BY <1>1, <1>3, SameDue, SameTold DEF Promise!vars

LEMMA RVisitVarDecl ==
  ASSUME BInv, NEW p \in Places, VisitVarDecl(p)
  PROVE  \E v \in Nodes : Promise!DeclareFind(v, p)
<1>1. next \in Nodes
  BY VisitType DEF BInv, IInv, VisitVarDecl
<1>2. m_curr_stmt \in Scopes /\ \A c \in Scopes : c <= m_curr_stmt
  BY CurrentIsInnermost
<1>3. Scopes' = Scopes
  BY DEF VisitVarDecl, Scopes
<1>4. Iterators(m_curr_stmt)' = Iterators(m_curr_stmt) \cup {[var |-> next, place |-> p]}
  BY DEF VisitVarDecl, Iterators
<1>5. \A c \in Scopes : c # m_curr_stmt => Iterators(c)' = Iterators(c)
  BY DEF VisitVarDecl, Iterators
<1>6. FindsOf' = [FindsOf EXCEPT ![m_curr_stmt] = @ \cup {[var |-> next, place |-> p]}]
  BY <1>2, <1>3, <1>4, <1>5 DEF FindsOf, VisitVarDecl
<1>7. Due' = Due /\ Told' = Told
  BY SameDue, SameTold DEF VisitVarDecl
<1>8. m_curr_stmt \in DOMAIN FindsOf /\ \A t \in DOMAIN FindsOf : t <= m_curr_stmt
  BY <1>2 DEF FindsOf
<1>9. Promise!DeclareFind(next, p)
  BY <1>6, <1>7, <1>8 DEF Promise!DeclareFind, Promise!IsInnermost
<1> QED
  BY <1>1, <1>9

(* What getSameAsFindVar returns belongs to the innermost block with a      *)
(* find() for the place.                                                    *)
LEMMA LookupIsNearest ==
  ASSUME BInv, NEW p \in Places, NEW v \in getSameAsFindVar(p)
  PROVE  \E f \in Promise!Nearest(p) : f.var = v
<1>1. PICK c \in LookedAt(p) : \E f \in Iterators(c) : f.place = p /\ f.var = v
  BY DEF getSameAsFindVar
<1>2. PICK f \in Iterators(c) : f.place = p /\ f.var = v
  BY <1>1
<1>3. c \in Chain(m_curr_stmt) /\ c \in Scopes /\ c \in DOMAIN m_parent_of
  BY ChainIsOpen DEF LookedAt, Chain
<1>4. f \in [var : Nodes, place : Places]
  BY <1>2, IteratorsType DEF BInv, IInv, Find
<1>5. ASSUME NEW t \in Scopes, t > c, NEW g \in Iterators(t), g.place = p
      PROVE  FALSE
  <2>1. t \in Chain(m_curr_stmt) /\ HasFind(t, p)
    BY <1>5 DEF BInv, ScopesAreChained, HasFind
  <2>2. t \in Nat /\ c \in Nat
    BY <1>3, <2>1, OpenType DEF BInv, Chain
  <2>3. t \in Chain(c)
    BY <1>5, <2>1, <2>2 DEF LookedAt
  <2> QED
    BY <1>3, <1>5, <2>2, <2>3, ChainLeadsOut
<1>6. /\ c \in DOMAIN FindsOf /\ f \in FindsOf[c]
      /\ \A t \in DOMAIN FindsOf : t > c => \A g \in FindsOf[t] : g.place # p
  BY <1>2, <1>3, <1>5 DEF FindsOf
<1>7. f \in Promise!Nearest(p)
  BY <1>2, <1>4, <1>6 DEF Promise!Nearest, Promise!Find
<1> QED
  BY <1>2, <1>7

LEMMA RVisitCall ==
  ASSUME BInv, NEW call \in Calls, VisitCall(call)
  PROVE  \/ \E p \in Places : Promise!Insert(next, p)
         \/ UNCHANGED Promise!vars
<1>1. FindsOf' = FindsOf
  <2>1. Scopes' = Scopes
    BY DEF VisitCall, Scopes
  <2>2. \A c : Iterators(c)' = Iterators(c)
    BY LookupKeeps DEF BInv, IInv
  <2> QED
    BY <2>1, <2>2 DEF FindsOf
<1>2. Told' = Told
  <2>1. \/ reports' = reports
        \/ reports' = reports \cup {[check |-> "try_emplace-instead-emplace",
                                     call |-> next, var |-> Null, found |-> TRUE]}
    BY DEF VisitCall
  <2> QED
    BY <2>1 DEF Told
<1>3. CASE m_calls' = m_calls
  BY <1>1, <1>2, <1>3, SameDue DEF Promise!vars
<1>4. ASSUME IsInsertion(call), NEW v \in getSameAsFindVar(call.place),
             m_calls' = Append(m_calls, [var |-> v, call |-> next])
      PROVE  \E p \in Places : Promise!Insert(next, p)
  <2>1. call.place \in Places
    BY <1>4, FindEmplaceAssumption DEF IsInsertion, CallShape
  <2>2. PICK f \in Promise!Nearest(call.place) : f.var = v
    BY <1>4, <2>1, LookupIsNearest
  <2>3. /\ Len(m_calls) \in Nat /\ Len(m_calls') = Len(m_calls) + 1
        /\ m_calls'[Len(m_calls) + 1] = [var |-> v, call |-> next]
        /\ \A i \in 1..Len(m_calls) : m_calls'[i] = m_calls[i]
    <3>1. m_calls \in Seq(Pending)
      BY DEF BInv, IInv, TypeOK
    <3>2. v \in Nodes /\ next \in Nodes
      <4>1. \E c \in LookedAt(call.place) : \E g \in Iterators(c) : g.var = v
        BY <1>4 DEF getSameAsFindVar
      <4> QED
        BY <4>1, IteratorsType, VisitType DEF BInv, IInv, Find, VisitCall
    <3>3. [var |-> v, call |-> next] \in Pending
      BY <3>2 DEF Pending
    <3> QED
      BY <1>4, <3>1, <3>3, PushBack
  <2>4. Due' = Due \cup {[call |-> next, var |-> f.var]}
    <3>1. \A i : i \in 1..Len(m_calls') <=> i \in 1..Len(m_calls) \/ i = Len(m_calls) + 1
      BY <2>3
    <3> QED
      BY <2>2, <2>3, <3>1 DEF Due
  <2>5. Promise!Insert(next, call.place)
    BY <1>1, <1>2, <2>2, <2>4 DEF Promise!Insert
  <2> QED
    BY <2>1, <2>5
<1> QED
  BY <1>3, <1>4 DEF VisitCall

(* Whatever block structure the traversal meets, the visitor reports what   *)
(* the lookup by scopes promises, and nothing else.                         *)
THEOREM AlwaysImplementsFindScopes == Spec => ImplementsFindScopes
<1>1. BInv /\ [Next]_vars => [Promise!Next]_(Promise!vars)
  <2> SUFFICES ASSUME BInv, [Next]_vars
               PROVE  Promise!Next \/ UNCHANGED Promise!vars
    OBVIOUS
  <2>1. CASE clear
    BY <2>1, RClear DEF Promise!Next
  <2>2. CASE EnterCompound
    BY <2>2, REnterCompound DEF Promise!Next
  <2>3. CASE EnterControl \/ LeaveControl
    BY <2>3, RControl
  <2>4. CASE LeaveCompound
    BY <2>4, RLeaveCompound DEF Promise!Next
  <2>5. ASSUME NEW p \in Places, VisitVarDecl(p)
        PROVE  Promise!Next
    BY <2>5, RVisitVarDecl DEF Promise!Next
  <2>6. ASSUME NEW call \in Calls, VisitCall(call)
        PROVE  Promise!Next \/ UNCHANGED Promise!vars
    <3>1. next \in Nodes
      BY <2>6, VisitType DEF BInv, IInv, VisitCall
    <3> QED
      BY <2>6, <3>1, RVisitCall DEF Promise!Next
  <2>7. CASE UNCHANGED vars
    BY <2>7, SameDue, SameTold
       DEF vars, traversal, members, Promise!vars, FindsOf, Scopes, Iterators
  <2> QED
    BY <2>1, <2>2, <2>3, <2>4, <2>5, <2>6, <2>7 DEF Next, Leave
<1> QED
  BY <1>1, RInit, BInvariance, PTL DEF Spec, ImplementsFindScopes, Promise!Spec

=============================================================================
