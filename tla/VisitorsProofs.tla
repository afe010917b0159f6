--------------------------- MODULE VisitorsProofs ---------------------------
(* Theorems about the six visitors, for any pointers and any bounds on the   *)
(* number of nodes.                                                          *)
EXTENDS Visitors, VectorLemmas, FiniteSetTheorems

(* Nodes are numbered in the order they are entered.                        *)
OpenIsOrdered ==
  /\ \A i \in 1..Len(open) : open[i].id < next
  /\ \A i, j \in 1..Len(open) : i < j => open[i].id < open[j].id

-----------------------------------------------------------------------------

(* Nodes that were seen stay seen. *)
LEMMA Later ==
  ASSUME next \in Int, next' \in {next, next + 1}
  PROVE  \A n \in Int : n < next => n < next' /\ n # next
OBVIOUS

(* What entering and leaving a node do to the open nodes.                   *)
LEMMA Pushed ==
  ASSUME NEW K, NEW M \in Nat, NEW k \in K, OpenIsOrdered,
         open \in Seq([id : 1..M, kind : K]), next \in 1..(M + 1), next <= M,
         next' = next + 1, open' = Append(open, [id |-> next, kind |-> k])
  PROVE  /\ open' \in Seq([id : 1..M, kind : K]) /\ next' \in 1..(M + 1) /\ OpenIsOrdered'
         /\ Len(open) \in Nat /\ Len(open') \in Nat
         /\ \A i \in 1..Len(open) : i \in 1..Len(open') /\ open'[i] = open[i] /\ i # Len(open')
         /\ Len(open') \in 1..Len(open') /\ open'[Len(open')] = [id |-> next, kind |-> k]
         /\ open'[Len(open')].id = next /\ open'[Len(open')].kind = k
         /\ \A i \in 1..Len(open') : i \in 1..Len(open) \/ i = Len(open')
<1> DEFINE N == [id : 1..M, kind : K]
<1>1. [id |-> next, kind |-> k] \in N /\ next' \in 1..(M + 1)
  OBVIOUS
<1> HIDE DEF N
<1>2. /\ open' \in Seq(N) /\ Len(open) \in Nat /\ Len(open') = Len(open) + 1
      /\ \A i \in 1..Len(open) : i \in 1..Len(open') /\ open'[i] = open[i] /\ i # Len(open')
      /\ Len(open') \in 1..Len(open') /\ open'[Len(open')] = [id |-> next, kind |-> k]
      /\ \A i \in 1..Len(open') : i \in 1..Len(open) \/ i = Len(open')
  BY <1>1, Grown DEF N
<1>3. \A i \in 1..Len(open) : open[i] \in N
  BY ElementOfSeq DEF N
<1>4. \A i \in 1..Len(open) : open[i].id \in Int
  BY <1>3 DEF N
<1>5. OpenIsOrdered'
  BY <1>2, <1>4 DEF OpenIsOrdered
<1> QED
  BY <1>1, <1>2, <1>5 DEF N

LEMMA Popped ==
  ASSUME NEW K, NEW M \in Nat, OpenIsOrdered,
         open \in Seq([id : 1..M, kind : K]), next \in 1..(M + 1), open # <<>>,
         next' = next, open' = SubSeq(open, 1, Len(open) - 1)
  PROVE  /\ open' \in Seq([id : 1..M, kind : K]) /\ next' \in 1..(M + 1) /\ OpenIsOrdered'
         /\ Len(open) \in Nat /\ Len(open') \in Nat
         /\ \A i \in 1..Len(open') : i \in 1..Len(open) /\ open'[i] = open[i] /\ i # Len(open)
         /\ Len(open) \in 1..Len(open)
         /\ open[Len(open)].id \in 1..M /\ open[Len(open)].kind \in K
         /\ \A i \in 1..Len(open) : i \in 1..Len(open') \/ i = Len(open)
         /\ \A i \in 1..Len(open') : open[i].id < open[Len(open)].id
<1> DEFINE N == [id : 1..M, kind : K]
<1>1. /\ open' \in Seq(N) /\ Len(open) \in Nat /\ Len(open) = Len(open') + 1
      /\ Len(open') \in Nat
      /\ \A i \in 1..Len(open') : i \in 1..Len(open) /\ open'[i] = open[i] /\ i # Len(open)
      /\ Len(open) \in 1..Len(open)
      /\ \A i \in 1..Len(open) : i \in 1..Len(open') \/ i = Len(open)
  <2>1. /\ open' \in Seq(N) /\ Len(open) \in Nat /\ Len(open) >= 1
        /\ Len(open') = Len(open) - 1
        /\ \A i \in 1..(Len(open) - 1) : open'[i] = open[i]
    BY PopBack
  <2> QED
    BY <2>1
<1>5. open[Len(open)] \in N
  BY Back
<1>2. OpenIsOrdered'
  BY <1>1 DEF OpenIsOrdered
<1>3. \A i \in 1..Len(open') : i < Len(open)
  BY <1>1
<1>4. \A i \in 1..Len(open') : open[i].id < open[Len(open)].id
  BY <1>1, <1>3 DEF OpenIsOrdered
<1> QED
  BY <1>1, <1>2, <1>4, <1>5

(* A node that holds no other that matters. *)
LEMMA Stayed ==
  ASSUME NEW K, NEW M \in Nat, OpenIsOrdered,
         open \in Seq([id : 1..M, kind : K]), next \in 1..(M + 1),
         \/ next' = next
         \/ next' = next + 1 /\ next <= M,
         open' = open
  PROVE  open' \in Seq([id : 1..M, kind : K]) /\ next' \in 1..(M + 1) /\ OpenIsOrdered'
<1>1. \A i \in 1..Len(open) : open[i] \in [id : 1..M, kind : K]
  BY ElementOfSeq
<1>2. \A i \in 1..Len(open) : open[i].id \in Int
  BY <1>1
<1> QED
  BY <1>2 DEF OpenIsOrdered

(* What the types say of the open nodes. *)
LEMMA OpenNodes ==
  ASSUME NEW K, NEW M \in Nat, open \in Seq([id : 1..M, kind : K])
  PROVE  /\ Len(open) \in Nat
         /\ \A i \in 1..Len(open) : open[i].id \in 1..M /\ open[i].kind \in K
<1>1. Len(open) \in Nat
  OBVIOUS
<1>2. \A i \in 1..Len(open) : open[i] \in [id : 1..M, kind : K]
  BY ElementOfSeq
<1> QED
  BY <1>1, <1>2

-----------------------------------------------------------------------------
(* ReturnValueVisitor.                                                      *)

(* The return statements that are not hidden. *)
RVSeen == {r \in returned : ~r.hidden}

(* What is booked on a followed function: if nothing, then it has no return *)
(* yet, and if TRUE, then none that returns anything but *this, but for     *)
(* those that are hidden; a function that was reported is over.             *)
RVReturnsAreBooked ==
  /\ \A r \in returned : r.func.id < next
  /\ \A f \in 1..FewNodes : RV!IsReported(f) => f < next /\ ~RV!IsOpen(f)
  /\ \A k \in 1..Len(m_comp_stmt_stack) :
       /\ m_comp_stmt_stack[k].always_returns_this = {} =>
            \A r \in RVSeen : r.func.id # m_comp_stmt_stack[k].func_decl
       /\ m_comp_stmt_stack[k].always_returns_this = {TRUE} =>
            \A r \in RVSeen :
              r.func.id = m_comp_stmt_stack[k].func_decl => r.what = "this"

RVInv ==
  /\ RV!TypeOK /\ OpenIsOrdered /\ RV!StackIsOpenFunctions /\ RV!SelfCopiesAreCopies
  /\ RVReturnsAreBooked

(* What the types say. *)
LEMMA RVType ==
  ASSUME RVInv
  PROVE  /\ FewNodes \in Nat /\ RV!Nodes = 1..FewNodes
         /\ open \in Seq([id : 1..FewNodes, kind : RV!Kinds])
         /\ next \in 1..(FewNodes + 1)
         /\ Len(open) \in Nat /\ Len(m_comp_stmt_stack) \in Nat
         /\ \A i \in 1..Len(open) : open[i].id \in 1..FewNodes /\ open[i].kind \in RV!Kinds
         /\ m_comp_stmt_stack \in Seq(RV!CheckedFunc)
         /\ \A k \in 1..Len(m_comp_stmt_stack) :
              /\ m_comp_stmt_stack[k] \in RV!CheckedFunc
              /\ m_comp_stmt_stack[k].func_decl \in 1..FewNodes
              /\ m_comp_stmt_stack[k].always_returns_this \in {{}, {TRUE}, {FALSE}}
         /\ \A r \in returned : r.func.id \in 1..FewNodes
<1>1. /\ FewNodes \in Nat /\ RV!Nodes = 1..FewNodes
      /\ open \in Seq([id : 1..FewNodes, kind : RV!Kinds])
      /\ next \in 1..(FewNodes + 1)
      /\ m_comp_stmt_stack \in Seq(RV!CheckedFunc)
      /\ returned \subseteq RV!Return
  BY VisitorsAssumption DEF RVInv, RV!TypeOK, RV!TraversalTypeOK, RV!Nodes
<1>2. \A k \in 1..Len(m_comp_stmt_stack) : m_comp_stmt_stack[k] \in RV!CheckedFunc
  BY <1>1, ElementOfSeq
<1>3. Len(open) \in Nat /\ Len(m_comp_stmt_stack) \in Nat
  BY <1>1
<1>4. \A i \in 1..Len(open) : open[i].id \in 1..FewNodes /\ open[i].kind \in RV!Kinds
  BY <1>1, OpenNodes
<1>5. \A k \in 1..Len(m_comp_stmt_stack) :
        /\ m_comp_stmt_stack[k].func_decl \in 1..FewNodes
        /\ m_comp_stmt_stack[k].always_returns_this \in {{}, {TRUE}, {FALSE}}
  BY <1>1, <1>2 DEF RV!CheckedFunc
<1>6. \A r \in returned : r.func \in [id : 1..FewNodes, kind : RV!Kinds]
  BY <1>1 DEF RV!Return
<1> QED
  BY <1>1, <1>2, <1>3, <1>4, <1>5, <1>6

(* A node that is entered or visited, with no change to what is booked. *)
LEMMA RVQuiet ==
  ASSUME RVInv, RV!TypeOK', OpenIsOrdered',
         UNCHANGED <<m_comp_stmt_stack, returned>>,
         \A f : RV!IsReported(f)' <=> RV!IsReported(f),
         next' \in {next, next + 1},
         \A f : RV!IsOpen(f)' => RV!IsOpen(f) \/ f = next,
         RV!StackIsOpenFunctions'
  PROVE  RVInv'
<1>1. RV!SelfCopiesAreCopies'
  BY DEF RVInv, RV!SelfCopiesAreCopies, RV!Nodes, RV!ReturnsOf
<1>2. next \in Int /\ FewNodes \in Int /\ \A r \in returned : r.func.id \in Int
  BY RVType
<1>3. RVReturnsAreBooked
  BY DEF RVInv
<1>4. \A r \in returned' : r.func.id < next'
  BY <1>2, <1>3 DEF RVReturnsAreBooked
<1>5. \A f \in 1..FewNodes : RV!IsReported(f)' => f < next' /\ ~RV!IsOpen(f)'
  BY <1>2, <1>3 DEF RVReturnsAreBooked
<1>6. RVReturnsAreBooked'
  BY <1>3, <1>4, <1>5 DEF RVReturnsAreBooked, RVSeen
<1> QED
  BY <1>1, <1>6 DEF RVInv

(* The open nodes after one more was entered, and after the last was left. *)
LEMMA RVEnter ==
  ASSUME RVInv, RV!Visit, NEW k \in RV!Kinds,
         open' = Append(open, [id |-> next, kind |-> k])
  PROVE  /\ RV!TraversalTypeOK(RV!Kinds)' /\ OpenIsOrdered' /\ next' = next + 1
         /\ \A i \in 1..Len(open) : i \in 1..Len(open') /\ open'[i] = open[i]
         /\ Len(open') \in 1..Len(open')
         /\ open'[Len(open')].id = next /\ open'[Len(open')].kind = k
         /\ \A i \in 1..Len(open') : i \in 1..Len(open) \/ i = Len(open')
         /\ \A f : RV!IsOpen(f)' => RV!IsOpen(f) \/ f = next
<1>1. next' = next + 1 /\ next <= FewNodes /\ OpenIsOrdered
  BY DEF RVInv, RV!Visit
<1>2. /\ open' \in Seq([id : 1..FewNodes, kind : RV!Kinds]) /\ next' \in 1..(FewNodes + 1)
      /\ OpenIsOrdered'
      /\ \A i \in 1..Len(open) : i \in 1..Len(open') /\ open'[i] = open[i]
      /\ Len(open') \in 1..Len(open')
      /\ open'[Len(open')].id = next /\ open'[Len(open')].kind = k
      /\ \A i \in 1..Len(open') : i \in 1..Len(open) \/ i = Len(open')
  BY <1>1, RVType, Pushed
<1> QED
  BY <1>1, <1>2 DEF RV!IsOpen, RV!TraversalTypeOK, RV!Nodes

LEMMA RVLeave ==
  ASSUME RVInv, RV!LeaveStmt(RV!Kinds)
  PROVE  /\ RV!TraversalTypeOK(RV!Kinds)' /\ OpenIsOrdered' /\ next' = next
         /\ \A i \in 1..Len(open') : i \in 1..Len(open) /\ open'[i] = open[i]
         /\ Len(open) \in 1..Len(open)
         /\ \A i \in 1..Len(open) : i \in 1..Len(open') \/ i = Len(open)
         /\ \A i \in 1..Len(open') : open[i].id < open[Len(open)].id
         /\ \A f : RV!IsOpen(f)' => RV!IsOpen(f) /\ f # open[Len(open)].id
         /\ RV!Top(open) = open[Len(open)]
<1>1. open # <<>> /\ next' = next /\ open' = SubSeq(open, 1, Len(open) - 1) /\ OpenIsOrdered
  BY DEF RVInv, RV!LeaveStmt, RV!Pop
<1>2. /\ open' \in Seq([id : 1..FewNodes, kind : RV!Kinds]) /\ next' \in 1..(FewNodes + 1)
      /\ OpenIsOrdered'
      /\ \A i \in 1..Len(open') : i \in 1..Len(open) /\ open'[i] = open[i]
      /\ Len(open) \in 1..Len(open)
      /\ \A i \in 1..Len(open) : i \in 1..Len(open') \/ i = Len(open)
      /\ \A i \in 1..Len(open') : open[i].id < open[Len(open)].id
  BY <1>1, RVType, Popped
<1>3. \A f : RV!IsOpen(f)' => RV!IsOpen(f) /\ f # open[Len(open)].id
  <2>1. \A i \in 1..Len(open') : open[i].id # open[Len(open)].id
    BY <1>2, RVType
  <2> QED
    BY <1>2, <2>1 DEF RV!IsOpen
<1> QED
  BY <1>1, <1>2, <1>3 DEF RV!TraversalTypeOK, RV!Nodes, RV!Top

LEMMA RVVisitFunctionDecl ==
  ASSUME RVInv, NEW shape \in RV!Shape, RV!VisitFunctionDecl(shape)
  PROVE  RVInv'
<1> DEFINE func == [func_decl |-> next, always_returns_this |-> {}]
<1>1. RV!Visit /\ crashed' = crashed /\ returned' = returned /\ next' = next + 1
      /\ next \in 1..FewNodes /\ next' \in 1..(FewNodes + 1)
  BY RVType DEF RV!VisitFunctionDecl, RV!Visit
<1>2. \A f : RV!IsReported(f)' <=> RV!IsReported(f)
  <2>1. reports' \subseteq reports \cup {RV!Note("const-value", next)} /\ reports \subseteq reports'
    BY DEF RV!VisitFunctionDecl
  <2>2. \A f : RV!Note("self-copy", f) # RV!Note("const-value", next)
    BY DEF RV!Note
  <2> QED
    BY <2>1, <2>2 DEF RV!IsReported
<1>3. reports' \subseteq [what : RV!Messages, node : RV!Nodes]
  <2>1. RV!Note("const-value", next) \in [what : RV!Messages, node : RV!Nodes]
    BY <1>1, RVType DEF RV!Note, RV!Messages
  <2>2. reports \subseteq [what : RV!Messages, node : RV!Nodes]
    BY DEF RVInv, RV!TypeOK
  <2> QED
    BY <2>1, <2>2 DEF RV!VisitFunctionDecl
<1>4. /\ RV!TraversalTypeOK(RV!Kinds)' /\ m_comp_stmt_stack' \in Seq(RV!CheckedFunc)
      => RV!TypeOK'
  BY <1>1, <1>3 DEF RVInv, RV!TypeOK, RV!Nodes, RV!Return
<1>a. /\ OpenIsOrdered /\ RV!StackIsOpenFunctions /\ RV!SelfCopiesAreCopies
      /\ RVReturnsAreBooked
  BY DEF RVInv
<1>b. /\ open \in Seq([id : 1..FewNodes, kind : RV!Kinds]) /\ FewNodes \in Nat
      /\ next \in 1..(FewNodes + 1) /\ next <= FewNodes
  BY <1>1, RVType
<1>5. CASE ~shape.body
  <2>1. open' = open /\ m_comp_stmt_stack' = m_comp_stmt_stack
    BY <1>5 DEF RV!VisitFunctionDecl, RV!IsFollowed
  <2>2. RV!TraversalTypeOK(RV!Kinds)' /\ OpenIsOrdered'
    <3>1. open' \in Seq([id : 1..FewNodes, kind : RV!Kinds]) /\ OpenIsOrdered'
      BY <1>1, <1>a, <1>b, <2>1, Stayed
    <3> QED
      BY <1>1, <3>1 DEF RV!TraversalTypeOK, RV!Nodes
  <2>3. RV!StackIsOpenFunctions'
    BY <2>1 DEF RVInv, RV!StackIsOpenFunctions
  <2>4. \A f : RV!IsOpen(f)' => RV!IsOpen(f) \/ f = next
    BY <2>1 DEF RV!IsOpen
  <2> QED
    BY <1>1, <1>2, <1>4, <2>1, <2>2, <2>3, <2>4, RVType, RVQuiet
<1>6. CASE shape.body /\ ~RV!IsFollowed(shape)
  <2>1. open' = Append(open, [id |-> next, kind |-> "ignored"])
        /\ m_comp_stmt_stack' = m_comp_stmt_stack
    BY <1>6 DEF RV!VisitFunctionDecl
  <2>2. "ignored" \in RV!Kinds
    BY DEF RV!Kinds
  <2>3. /\ RV!TraversalTypeOK(RV!Kinds)' /\ OpenIsOrdered'
        /\ \A i \in 1..Len(open) : i \in 1..Len(open') /\ open'[i] = open[i]
        /\ open'[Len(open')].kind = "ignored"
        /\ \A i \in 1..Len(open') : i \in 1..Len(open) \/ i = Len(open')
        /\ \A f : RV!IsOpen(f)' => RV!IsOpen(f) \/ f = next
    BY <1>1, <2>1, <2>2, RVEnter
  <2>4. RV!StackIsOpenFunctions'
    <3>1. \A l \in 1..Len(m_comp_stmt_stack') : \E i \in 1..Len(open') :
            open'[i].id = m_comp_stmt_stack'[l].func_decl /\ open'[i].kind = "followed"
      BY <1>a, <2>1, <2>3 DEF RV!StackIsOpenFunctions
    <3>2. \A i \in 1..Len(open') : open'[i].kind = "followed" =>
            \E l \in 1..Len(m_comp_stmt_stack') : open'[i].id = m_comp_stmt_stack'[l].func_decl
      BY <1>a, <2>1, <2>3 DEF RV!StackIsOpenFunctions
    <3>3. \A l, p \in 1..Len(m_comp_stmt_stack') :
            l < p => m_comp_stmt_stack'[l].func_decl < m_comp_stmt_stack'[p].func_decl
      BY <1>a, <2>1 DEF RV!StackIsOpenFunctions
    <3> QED
      BY <3>1, <3>2, <3>3 DEF RV!StackIsOpenFunctions
  <2> QED
    BY <1>1, <1>2, <1>4, <2>1, <2>3, <2>4, RVType, RVQuiet
<1>7. CASE RV!IsFollowed(shape)
  <2>1. open' = Append(open, [id |-> next, kind |-> "followed"])
        /\ m_comp_stmt_stack' = Append(m_comp_stmt_stack, func)
    BY <1>7 DEF RV!VisitFunctionDecl, RV!IsFollowed
  <2>2. "followed" \in RV!Kinds /\ func \in RV!CheckedFunc
    BY <1>1, RVType DEF RV!Kinds, RV!CheckedFunc
  <2>3. /\ RV!TraversalTypeOK(RV!Kinds)' /\ OpenIsOrdered'
        /\ \A i \in 1..Len(open) : i \in 1..Len(open') /\ open'[i] = open[i]
        /\ Len(open') \in 1..Len(open')
        /\ open'[Len(open')].id = next /\ open'[Len(open')].kind = "followed"
        /\ \A i \in 1..Len(open') : i \in 1..Len(open) \/ i = Len(open')
        /\ \A f : RV!IsOpen(f)' => RV!IsOpen(f) \/ f = next
    BY <1>1, <2>1, <2>2, RVEnter
  <2>4. /\ m_comp_stmt_stack' \in Seq(RV!CheckedFunc)
        /\ \A l \in 1..Len(m_comp_stmt_stack) :
             l \in 1..Len(m_comp_stmt_stack') /\ m_comp_stmt_stack'[l] = m_comp_stmt_stack[l]
        /\ Len(m_comp_stmt_stack') \in 1..Len(m_comp_stmt_stack')
        /\ m_comp_stmt_stack'[Len(m_comp_stmt_stack')].func_decl = next
        /\ m_comp_stmt_stack'[Len(m_comp_stmt_stack')].always_returns_this = {}
        /\ \A l \in 1..Len(m_comp_stmt_stack') :
             \/ l \in 1..Len(m_comp_stmt_stack) /\ l < Len(m_comp_stmt_stack')
             \/ l = Len(m_comp_stmt_stack')
    BY <2>1, <2>2, RVType, Grown
  <2>5. \A l \in 1..Len(m_comp_stmt_stack) :
          m_comp_stmt_stack[l].func_decl < next /\ m_comp_stmt_stack[l].func_decl \in Int
    <3>1. \A l \in 1..Len(m_comp_stmt_stack) : m_comp_stmt_stack[l].func_decl \in 1..FewNodes
      BY RVType
    <3>2. \A l \in 1..Len(m_comp_stmt_stack) : m_comp_stmt_stack[l].func_decl < next
      BY <1>a DEF RV!StackIsOpenFunctions, OpenIsOrdered
    <3> QED
      BY <3>1, <3>2
  <2>6. RV!StackIsOpenFunctions'
    <3>1. \A l \in 1..Len(m_comp_stmt_stack') : \E i \in 1..Len(open') :
            open'[i].id = m_comp_stmt_stack'[l].func_decl /\ open'[i].kind = "followed"
      <4>1. TAKE l \in 1..Len(m_comp_stmt_stack')
      <4>2. CASE l = Len(m_comp_stmt_stack')
        BY <2>3, <2>4, <4>2
      <4>3. CASE l \in 1..Len(m_comp_stmt_stack)
        <5>1. PICK i \in 1..Len(open) :
                open[i].id = m_comp_stmt_stack[l].func_decl /\ open[i].kind = "followed"
          BY <1>a, <4>3 DEF RV!StackIsOpenFunctions
        <5>2. i \in 1..Len(open') /\ open'[i] = open[i]
          BY <2>3
        <5> QED
          BY <2>4, <4>3, <5>1, <5>2
      <4> QED
        BY <2>4, <4>2, <4>3
    <3>2. \A i \in 1..Len(open') : open'[i].kind = "followed" =>
            \E l \in 1..Len(m_comp_stmt_stack') : open'[i].id = m_comp_stmt_stack'[l].func_decl
      <4>1. TAKE i \in 1..Len(open')
      <4>2. HAVE open'[i].kind = "followed"
      <4>3. CASE i = Len(open')
        BY <2>3, <2>4, <4>3
      <4>4. CASE i \in 1..Len(open)
        <5>1. open'[i] = open[i] /\ open[i].kind = "followed"
          BY <2>3, <4>2, <4>4
        <5>2. PICK l \in 1..Len(m_comp_stmt_stack) :
                open[i].id = m_comp_stmt_stack[l].func_decl
          BY <1>a, <4>4, <5>1 DEF RV!StackIsOpenFunctions
        <5> QED
          BY <2>4, <5>1, <5>2
      <4> QED
        BY <2>3, <4>3, <4>4
    <3>3. \A l, p \in 1..Len(m_comp_stmt_stack') :
            l < p => m_comp_stmt_stack'[l].func_decl < m_comp_stmt_stack'[p].func_decl
      <4>1. \A l, p \in 1..Len(m_comp_stmt_stack) :
              l < p => m_comp_stmt_stack[l].func_decl < m_comp_stmt_stack[p].func_decl
        BY <1>a DEF RV!StackIsOpenFunctions
      <4>2. TAKE l, p \in 1..Len(m_comp_stmt_stack')
      <4>3. CASE p = Len(m_comp_stmt_stack')
        BY <2>4, <2>5, <4>3
      <4>4. CASE l \in 1..Len(m_comp_stmt_stack) /\ p \in 1..Len(m_comp_stmt_stack)
        BY <2>4, <4>1, <4>4
      <4>5. CASE l = Len(m_comp_stmt_stack') /\ p < Len(m_comp_stmt_stack')
        BY <2>4, <4>5
      <4> QED
        BY <2>4, <4>3, <4>4, <4>5
    <3> QED
      BY <3>1, <3>2, <3>3 DEF RV!StackIsOpenFunctions
  <2>7. RV!SelfCopiesAreCopies'
    BY <1>1, <1>2, <1>a DEF RV!SelfCopiesAreCopies, RV!Nodes, RV!ReturnsOf
  <2>8. RVReturnsAreBooked'
    <3>1. \A r \in returned : r.func.id < next /\ r.func.id < next'
      <4>1. \A r \in returned : r.func.id \in 1..FewNodes
        BY RVType
      <4>2. \A r \in returned : r.func.id < next
        BY <1>a DEF RVReturnsAreBooked
      <4> QED
        BY <1>1, <4>1, <4>2
    <3>2. \A f \in 1..FewNodes : RV!IsReported(f)' => f < next' /\ ~RV!IsOpen(f)'
      <4>1. \A f \in 1..FewNodes : RV!IsReported(f) => f < next /\ ~RV!IsOpen(f)
        BY <1>a DEF RVReturnsAreBooked
      <4> QED
        BY <1>1, <1>2, <2>3, <4>1
    <3>3. \A r \in returned : r.func.id # next
      <4>1. \A r \in returned : r.func.id \in 1..FewNodes
        BY RVType
      <4> QED
        BY <1>1, <3>1, <4>1
    <3> QED
      BY <1>1, <1>a, <2>4, <3>1, <3>2, <3>3 DEF RVReturnsAreBooked, RVSeen
  <2> QED
    BY <1>4, <2>3, <2>4, <2>6, <2>7, <2>8 DEF RVInv
<1> QED
  BY <1>5, <1>6, <1>7 DEF RV!IsFollowed

LEMMA RVEnterLambda ==
  ASSUME RVInv, RV!EnterLambda
  PROVE  RVInv'
<1>1. /\ open' = Append(open, [id |-> next, kind |-> "lambda"]) /\ RV!Visit
      /\ UNCHANGED <<m_comp_stmt_stack, crashed, reports, returned>>
  BY DEF RV!EnterLambda, RV!Enter
<1>2. "lambda" \in RV!Kinds
  BY DEF RV!Kinds
<1>3. /\ RV!TraversalTypeOK(RV!Kinds)' /\ OpenIsOrdered' /\ next' = next + 1
      /\ \A i \in 1..Len(open) : i \in 1..Len(open') /\ open'[i] = open[i]
      /\ open'[Len(open')].kind = "lambda"
      /\ \A i \in 1..Len(open') : i \in 1..Len(open) \/ i = Len(open')
      /\ \A f : RV!IsOpen(f)' => RV!IsOpen(f) \/ f = next
  BY <1>1, <1>2, RVEnter
<1>4. RV!TypeOK'
  BY <1>1, <1>3 DEF RVInv, RV!TypeOK, RV!Nodes, RV!Return
<1>5. RV!StackIsOpenFunctions'
  <2>1. RV!StackIsOpenFunctions
    BY DEF RVInv
  <2>2. \A k \in 1..Len(m_comp_stmt_stack) : \E i \in 1..Len(open') :
          open'[i].id = m_comp_stmt_stack[k].func_decl /\ open'[i].kind = "followed"
    BY <1>3, <2>1 DEF RV!StackIsOpenFunctions
  <2>3. \A i \in 1..Len(open') : open'[i].kind = "followed" =>
          i \in 1..Len(open) /\ open[i] = open'[i]
    BY <1>3
  <2>4. \A i \in 1..Len(open') : open'[i].kind = "followed" =>
          \E k \in 1..Len(m_comp_stmt_stack) : open'[i].id = m_comp_stmt_stack[k].func_decl
    BY <2>1, <2>3 DEF RV!StackIsOpenFunctions
  <2> QED
    BY <1>1, <2>1, <2>2, <2>4 DEF RV!StackIsOpenFunctions
<1>6. \A f : RV!IsReported(f)' <=> RV!IsReported(f)
  BY <1>1 DEF RV!IsReported
<1> QED
  BY <1>1, <1>3, <1>4, <1>5, <1>6, RVQuiet

LEMMA RVVisitReturnStmt ==
  ASSUME RVInv, NEW what \in RV!Returns, NEW hidden \in BOOLEAN,
         RV!VisitReturnStmt(what, hidden)
  PROVE  RVInv'
<1>a. /\ OpenIsOrdered /\ RV!StackIsOpenFunctions /\ RV!SelfCopiesAreCopies
      /\ RVReturnsAreBooked /\ RV!TypeOK
  BY DEF RVInv
<1>b. /\ open \in Seq([id : 1..FewNodes, kind : RV!Kinds]) /\ FewNodes \in Nat
      /\ next \in 1..(FewNodes + 1) /\ RV!Nodes = 1..FewNodes
  BY RVType
<1> DEFINE stack == m_comp_stmt_stack
           last == Len(m_comp_stmt_stack)
           back == open[Len(open)]
           new == [func |-> back, what |-> what, hidden |-> hidden]
<1>1. /\ next' = next + 1 /\ next <= FewNodes /\ open # <<>> /\ open' = open
      /\ reports' = reports /\ returned' = returned \cup {new}
  BY DEF RV!VisitReturnStmt, RV!Visit, RV!Top
<1>2. open' \in Seq([id : 1..FewNodes, kind : RV!Kinds]) /\ OpenIsOrdered'
  BY <1>1, <1>a, <1>b, Stayed
<1>3. Len(open) \in 1..Len(open) /\ back \in [id : 1..FewNodes, kind : RV!Kinds]
  BY <1>1, <1>b, Back
<1>4. back.id \in 1..FewNodes /\ back.id < next
  BY <1>3, <1>a DEF OpenIsOrdered
<1>5. \A f : RV!IsReported(f)' <=> RV!IsReported(f)
  BY <1>1 DEF RV!IsReported
<1>6. \A f : RV!IsOpen(f)' <=> RV!IsOpen(f)
  BY <1>1 DEF RV!IsOpen
<1>7. returned' \subseteq RV!Return
  <2>1. new \in RV!Return
    BY <1>3, <1>b DEF RV!Return
  <2> QED
    BY <1>1, <1>a, <2>1 DEF RV!TypeOK
<1>8. RV!SelfCopiesAreCopies'
  <2>1. RV!IsOpen(back.id)
    BY <1>3 DEF RV!IsOpen
  <2>2. \A f \in RV!Nodes : RV!IsReported(f) => RV!ReturnsOf(f)' \subseteq RV!ReturnsOf(f)
    BY <1>1, <1>a, <1>b, <2>1 DEF RVReturnsAreBooked, RV!ReturnsOf
  <2> QED
    BY <1>5, <1>a, <2>2 DEF RV!SelfCopiesAreCopies, RV!Nodes
<1>9. \A r \in returned' : r.func.id < next'
  <2>1. \A r \in returned : r.func.id \in 1..FewNodes
    BY RVType
  <2>2. \A r \in returned : r.func.id < next
    BY <1>a DEF RVReturnsAreBooked
  <2> QED
    BY <1>1, <1>4, <1>b, <2>1, <2>2
<1>10. \A f \in 1..FewNodes : RV!IsReported(f)' => f < next' /\ ~RV!IsOpen(f)'
  <2>1. \A f \in 1..FewNodes : RV!IsReported(f) => f < next /\ ~RV!IsOpen(f)
    BY <1>a DEF RVReturnsAreBooked
  <2> QED
    BY <1>1, <1>5, <1>6, <1>b, <2>1
(* Only the last function of the stack may be the innermost open node. *)
<1>11. \A k \in 1..last : stack[k].func_decl = back.id => k = last
  <2>1. SUFFICES ASSUME NEW k \in 1..last, stack[k].func_decl = back.id, k # last
                 PROVE  FALSE
    OBVIOUS
  <2>2. last \in Nat /\ k < last /\ last \in 1..last
    BY <2>1, RVType
  <2>3. back.id < stack[last].func_decl
    BY <1>a, <2>1, <2>2 DEF RV!StackIsOpenFunctions
  <2>4. PICK i \in 1..Len(open) : open[i].id = stack[last].func_decl
    BY <1>a, <2>2 DEF RV!StackIsOpenFunctions
  <2>5. open[i].id \in Int /\ Len(open) \in Nat
    BY RVType
  <2>6. i # Len(open)
    BY <1>4, <2>3, <2>4, <2>5
  <2>7. open[i].id < back.id
    BY <1>a, <1>3, <2>5, <2>6 DEF OpenIsOrdered
  <2> QED
    BY <1>4, <2>3, <2>4, <2>5, <2>7
<1>12. /\ hidden => RVSeen' = RVSeen
       /\ \A r \in RVSeen' : r \in RVSeen \/ (r.func.id = back.id /\ r.what = what)
  BY <1>1 DEF RVSeen
<1>13. /\ RV!TypeOK' /\ RV!StackIsOpenFunctions'
       /\ \A k \in 1..Len(stack') :
            /\ stack'[k].always_returns_this = {} =>
                 \A r \in RVSeen' : r.func.id # stack'[k].func_decl
            /\ stack'[k].always_returns_this = {TRUE} =>
                 \A r \in RVSeen' : r.func.id = stack'[k].func_decl => r.what = "this"
  <2>1. CASE stack' = stack /\ (hidden \/ stack = <<>> \/ what = "none")
    <3>1. RV!TypeOK'
      <4>1. crashed' \in BOOLEAN
        BY <1>a DEF RV!VisitReturnStmt, RV!TypeOK
      <4> QED
        BY <1>1, <1>2, <1>7, <1>a, <1>b, <2>1, <4>1
           DEF RV!TypeOK, RV!TraversalTypeOK, RV!Nodes, RV!Return
    <3>2. RV!StackIsOpenFunctions'
      BY <1>1, <1>a, <2>1 DEF RV!StackIsOpenFunctions
    <3>3. CASE stack = <<>>
      BY <2>1, <3>1, <3>2, <3>3
    <3>4. CASE what = "none"
      <4>1. back.kind # "followed"
        BY <3>4 DEF RV!VisitReturnStmt, RV!Top
      <4>2. \A k \in 1..last : stack[k].func_decl # back.id
        <5>1. SUFFICES ASSUME NEW k \in 1..last, stack[k].func_decl = back.id
                       PROVE  FALSE
          OBVIOUS
        <5>2. PICK i \in 1..Len(open) :
                open[i].id = stack[k].func_decl /\ open[i].kind = "followed"
          BY <1>a DEF RV!StackIsOpenFunctions
        <5>3. i # Len(open)
          BY <4>1, <5>2
        <5>4. open[i].id \in Int /\ Len(open) \in Nat
          BY RVType
        <5>5. open[i].id < back.id
          BY <1>a, <1>3, <5>3, <5>4 DEF OpenIsOrdered
        <5> QED
          BY <1>4, <5>1, <5>2, <5>4, <5>5
      <4> QED
        BY <1>12, <1>a, <2>1, <3>1, <3>2, <4>2 DEF RVReturnsAreBooked
    <3>5. CASE hidden
      BY <1>12, <1>a, <2>1, <3>1, <3>2, <3>5 DEF RVReturnsAreBooked
    <3> QED
      BY <2>1, <3>3, <3>4, <3>5
  <2>2. CASE ~hidden /\ stack # <<>> /\ what # "none"
    <3> DEFINE func == RV!and_return(stack[last], what = "this")
    <3>1. stack' = [stack EXCEPT ![last] = func] /\ crashed' = crashed
      BY <2>2 DEF RV!VisitReturnStmt
    <3>2. /\ last \in 1..last /\ stack \in Seq(RV!CheckedFunc) /\ last \in Nat
          /\ stack[last] \in RV!CheckedFunc
          /\ stack[last].func_decl \in 1..FewNodes
          /\ stack[last].always_returns_this \in {{}, {TRUE}, {FALSE}}
      BY <2>2, RVType, Back
    <3>3. /\ func.func_decl = stack[last].func_decl
          /\ func.always_returns_this =
               IF stack[last].always_returns_this = {} THEN {what = "this"}
               ELSE {b /\ what = "this" : b \in stack[last].always_returns_this}
          /\ func = [func_decl |-> stack[last].func_decl,
                     always_returns_this |-> func.always_returns_this]
      <4>1. \A c \in RV!CheckedFunc : \A v :
              [c EXCEPT !.always_returns_this = v]
                = [func_decl |-> c.func_decl, always_returns_this |-> v]
        BY DEF RV!CheckedFunc
      <4> DEFINE was == stack[last].always_returns_this
                 now == IF was = {} THEN {what = "this"} ELSE {b /\ what = "this" : b \in was}
      <4>2. func = [stack[last] EXCEPT !.always_returns_this = now]
        BY DEF RV!and_return
      <4> HIDE DEF func, now
      <4>3. func = [func_decl |-> stack[last].func_decl, always_returns_this |-> now]
        BY <3>2, <4>1, <4>2
      <4>4. func.func_decl = stack[last].func_decl /\ func.always_returns_this = now
        BY <4>3
      <4> QED
        BY <4>3, <4>4 DEF now
    <3>4. func.always_returns_this \in {{TRUE}, {FALSE}}
      <4>1. CASE what = "this"
        BY <3>2, <3>3, <4>1
      <4>2. CASE what # "this"
        BY <3>2, <3>3, <4>2
      <4> QED
        BY <4>1, <4>2
    <3>5. func \in RV!CheckedFunc
      BY <3>2, <3>3, <3>4, <1>b DEF RV!CheckedFunc
    <3>6. func.always_returns_this = {TRUE} =>
            what = "this" /\ stack[last].always_returns_this \in {{}, {TRUE}}
      <4>1. CASE what = "this"
        <5>1. stack[last].always_returns_this = {FALSE} => func.always_returns_this = {FALSE}
          BY <3>3, <4>1
        <5> QED
          BY <3>2, <4>1, <5>1
      <4>2. CASE what # "this"
        <5>1. func.always_returns_this = {FALSE}
          BY <3>2, <3>3, <4>2
        <5> QED
          BY <5>1
      <4> QED
        BY <4>1, <4>2
    <3> HIDE DEF func
    <3>7. /\ stack' \in Seq(RV!CheckedFunc) /\ Len(stack') = last
          /\ stack'[last] = func
          /\ \A k \in 1..last : k # last => stack'[k] = stack[k]
      BY <3>1, <3>2, <3>5
    <3>8. \A k \in 1..last : stack'[k].func_decl = stack[k].func_decl
      BY <3>3, <3>7
    <3>9. RV!TypeOK'
      <4>1. crashed' \in BOOLEAN /\ reports' \subseteq [what : RV!Messages, node : RV!Nodes]
        BY <1>1, <1>a, <3>1 DEF RV!TypeOK
      <4>2. RV!TraversalTypeOK(RV!Kinds)'
        BY <1>1, <1>2, <1>b DEF RV!TraversalTypeOK, RV!Nodes
      <4> QED
        BY <1>7, <3>7, <4>1, <4>2 DEF RV!TypeOK, RV!Nodes, RV!Return
    <3>10. RV!StackIsOpenFunctions'
      <4>1. \A k \in 1..last : \E i \in 1..Len(open) :
              open[i].id = stack'[k].func_decl /\ open[i].kind = "followed"
        BY <1>a, <3>8 DEF RV!StackIsOpenFunctions
      <4>2. \A i \in 1..Len(open) :
              open[i].kind = "followed" => \E k \in 1..last : open[i].id = stack'[k].func_decl
        BY <1>a, <3>8 DEF RV!StackIsOpenFunctions
      <4>3. \A k, l \in 1..last : k < l => stack'[k].func_decl < stack'[l].func_decl
        BY <1>a, <3>8 DEF RV!StackIsOpenFunctions
      <4> QED
        BY <1>1, <3>7, <4>1, <4>2, <4>3 DEF RV!StackIsOpenFunctions
    <3>11. \A r \in RVSeen' : r \in RVSeen \/ (r.func.id = back.id /\ r.what = what)
      BY <1>12
    <3>12. ASSUME NEW k \in 1..last
           PROVE  /\ stack'[k].always_returns_this = {} =>
                       \A r \in RVSeen' : r.func.id # stack'[k].func_decl
                  /\ stack'[k].always_returns_this = {TRUE} =>
                       \A r \in RVSeen' : r.func.id = stack'[k].func_decl => r.what = "this"
      <4>1. CASE k # last
        <5>1. stack[k].func_decl # back.id /\ stack'[k] = stack[k]
          BY <1>11, <3>7, <4>1
        <5> QED
          BY <1>a, <3>11, <5>1 DEF RVReturnsAreBooked
      <4>2. CASE k = last
        <5>1. stack'[k] = func /\ stack'[k].always_returns_this # {}
          BY <3>4, <3>7, <4>2
        <5>2. func.always_returns_this = {TRUE} =>
                \A r \in RVSeen : r.func.id = stack[last].func_decl => r.what = "this"
          BY <1>a, <3>2, <3>6 DEF RVReturnsAreBooked
        <5> QED
          BY <3>3, <3>6, <3>11, <5>1, <5>2
      <4> QED
        BY <4>1, <4>2
    <3> QED
      BY <3>7, <3>9, <3>10, <3>12
  <2> QED
    BY <2>1, <2>2 DEF RV!VisitReturnStmt
<1> QED
  BY <1>2, <1>8, <1>9, <1>10, <1>13 DEF RVInv, RVReturnsAreBooked

(* The stack loses the function that is left, whose returns were all of     *)
(* *this if it is reported.                                                 *)
LEMMA RVLeaveFollowed ==
  ASSUME RVInv, RV!LeaveFollowed
  PROVE  RVInv'
<1>a. /\ OpenIsOrdered /\ RV!StackIsOpenFunctions /\ RV!SelfCopiesAreCopies
      /\ RVReturnsAreBooked /\ RV!TypeOK
  BY DEF RVInv
<1>b. /\ open \in Seq([id : 1..FewNodes, kind : RV!Kinds]) /\ FewNodes \in Nat
      /\ next \in 1..(FewNodes + 1) /\ RV!Nodes = 1..FewNodes
      /\ m_comp_stmt_stack \in Seq(RV!CheckedFunc)
  BY RVType
<1> DEFINE stack == m_comp_stmt_stack
           last == Len(m_comp_stmt_stack)
           back == open[Len(open)]
<1>1. /\ RV!LeaveStmt(RV!Kinds) /\ stack # <<>> /\ stack[last].func_decl = back.id
      /\ stack' = SubSeq(stack, 1, last - 1) /\ crashed' = crashed /\ returned' = returned
      /\ open # <<>>
      /\ reports' = IF stack[last].always_returns_this = {TRUE}
                      THEN reports \cup {RV!Note("self-copy", back.id)} ELSE reports
  BY DEF RV!LeaveFollowed, RV!LeaveStmt, RV!Top, RV!Pop
<1>2. /\ RV!TraversalTypeOK(RV!Kinds)' /\ OpenIsOrdered' /\ next' = next
      /\ \A i \in 1..Len(open') : i \in 1..Len(open) /\ open'[i] = open[i]
      /\ Len(open) \in 1..Len(open)
      /\ \A i \in 1..Len(open) : i \in 1..Len(open') \/ i = Len(open)
      /\ \A i \in 1..Len(open') : open[i].id < back.id
      /\ \A f : RV!IsOpen(f)' => RV!IsOpen(f) /\ f # back.id
  BY <1>1, RVLeave
<1>3. back.id \in 1..FewNodes /\ back.id < next
  <2>1. back.id < next
    BY <1>2, <1>a DEF OpenIsOrdered
  <2>2. back \in [id : 1..FewNodes, kind : RV!Kinds]
    BY <1>1, <1>b, Back
  <2> QED
    BY <2>1, <2>2
<1>4. /\ stack' \in Seq(RV!CheckedFunc) /\ last \in Nat /\ Len(stack') = last - 1
      /\ last \in 1..last
      /\ \A k \in 1..Len(stack') : k \in 1..last /\ stack'[k] = stack[k] /\ k < last
      /\ \A k \in 1..last : k \in 1..Len(stack') \/ k = last
  <2>1. /\ stack' \in Seq(RV!CheckedFunc) /\ last \in Nat /\ last >= 1 /\ Len(stack') = last - 1
        /\ \A k \in 1..(last - 1) : stack'[k] = stack[k]
    BY <1>1, <1>b, PopBack
  <2> QED
    BY <2>1
<1>5. \A f \in 1..FewNodes : RV!IsReported(f)' =>
        \/ RV!IsReported(f)
        \/ f = back.id /\ stack[last].always_returns_this = {TRUE}
  BY <1>1 DEF RV!IsReported, RV!Note
<1>6. RV!TypeOK'
  <2>1. RV!Note("self-copy", back.id) \in [what : RV!Messages, node : RV!Nodes]
    BY <1>3, <1>b DEF RV!Note, RV!Messages
  <2>2. reports' \subseteq [what : RV!Messages, node : RV!Nodes]
    BY <1>1, <1>a, <2>1 DEF RV!TypeOK
  <2>3. crashed' \in BOOLEAN
        /\ returned' \subseteq RV!Return
    BY <1>1, <1>a DEF RV!TypeOK
  <2> QED
    BY <1>2, <1>4, <2>2, <2>3 DEF RV!TypeOK, RV!Nodes, RV!Return
<1>7. RV!StackIsOpenFunctions'
  <2>1. ASSUME NEW k \in 1..Len(stack')
        PROVE  \E i \in 1..Len(open') :
                 open'[i].id = stack'[k].func_decl /\ open'[i].kind = "followed"
    <3>1. stack[k].func_decl < back.id /\ k \in 1..last /\ stack'[k] = stack[k]
      BY <1>1, <1>4, <1>a DEF RV!StackIsOpenFunctions
    <3>2. PICK i \in 1..Len(open) :
            open[i].id = stack[k].func_decl /\ open[i].kind = "followed"
      BY <1>a, <3>1 DEF RV!StackIsOpenFunctions
    <3>3. i # Len(open)
      BY <1>3, <3>1, <3>2
    <3> QED
      BY <1>2, <3>1, <3>2, <3>3
  <2>2. ASSUME NEW i \in 1..Len(open'), open'[i].kind = "followed"
        PROVE  \E k \in 1..Len(stack') : open'[i].id = stack'[k].func_decl
    <3>1. i \in 1..Len(open) /\ open'[i] = open[i] /\ open[i].id < back.id
      BY <1>2
    <3>2. PICK k \in 1..last : open[i].id = stack[k].func_decl
      BY <1>a, <2>2, <3>1 DEF RV!StackIsOpenFunctions
    <3>3. k # last
      BY <1>1, <1>3, <3>1, <3>2
    <3> QED
      BY <1>4, <3>1, <3>2, <3>3
  <2>3. \A k, l \in 1..Len(stack') : k < l => stack'[k].func_decl < stack'[l].func_decl
    BY <1>4, <1>a DEF RV!StackIsOpenFunctions
  <2> QED
    BY <2>1, <2>2, <2>3 DEF RV!StackIsOpenFunctions
<1>8. RV!SelfCopiesAreCopies'
  <2>1. ASSUME NEW f \in 1..FewNodes, RV!IsReported(f)'
        PROVE  \A r \in RVSeen : r.func.id = f => r.what = "this"
    <3>1. CASE RV!IsReported(f)
      BY <1>a, <1>b, <3>1 DEF RV!SelfCopiesAreCopies, RV!ReturnsOf, RVSeen
    <3>2. CASE f = back.id /\ stack[last].always_returns_this = {TRUE}
      BY <1>1, <1>4, <1>a, <3>2 DEF RVReturnsAreBooked
    <3> QED
      BY <1>5, <2>1, <3>1, <3>2
  <2> QED
    BY <1>1, <1>b, <2>1 DEF RV!SelfCopiesAreCopies, RV!ReturnsOf, RV!Nodes, RVSeen
<1>9. RVReturnsAreBooked'
  <2>1. \A r \in returned' : r.func.id < next'
    BY <1>1, <1>2, <1>a DEF RVReturnsAreBooked
  <2>2. \A f \in 1..FewNodes : RV!IsReported(f)' => f < next' /\ ~RV!IsOpen(f)'
    BY <1>2, <1>3, <1>5, <1>a DEF RVReturnsAreBooked
  <2>3. ASSUME NEW k \in 1..Len(stack')
        PROVE  /\ stack'[k].always_returns_this = {} =>
                    \A r \in RVSeen' : r.func.id # stack'[k].func_decl
               /\ stack'[k].always_returns_this = {TRUE} =>
                    \A r \in RVSeen' : r.func.id = stack'[k].func_decl => r.what = "this"
    <3>1. k \in 1..last /\ stack'[k] = stack[k]
      BY <1>4
    <3> QED
      BY <1>1, <1>a, <3>1 DEF RVReturnsAreBooked, RVSeen
  <2> QED
    BY <2>1, <2>2, <2>3 DEF RVReturnsAreBooked
<1> QED
  BY <1>2, <1>6, <1>7, <1>8, <1>9 DEF RVInv

(* What is left is no followed function: those are on the stack, and all of *)
(* them but its top hold another that is open.                              *)
LEMMA RVLeaveOther ==
  ASSUME RVInv, RV!LeaveOther
  PROVE  RVInv'
<1>a. /\ RV!StackIsOpenFunctions /\ RV!TypeOK
  BY DEF RVInv
<1>b. /\ Len(m_comp_stmt_stack) \in Nat
      /\ \A i \in 1..Len(open) : open[i].id \in 1..FewNodes
      /\ \A k \in 1..Len(m_comp_stmt_stack) : m_comp_stmt_stack[k].func_decl \in 1..FewNodes
  BY RVType
<1> DEFINE stack == m_comp_stmt_stack
           last == Len(m_comp_stmt_stack)
           back == open[Len(open)]
<1>1. /\ RV!LeaveStmt(RV!Kinds) /\ (stack # <<>> => stack[last].func_decl # back.id)
      /\ UNCHANGED <<stack, crashed, reports, returned>>
  BY DEF RV!LeaveOther, RV!Top
<1>2. /\ RV!TraversalTypeOK(RV!Kinds)' /\ OpenIsOrdered' /\ next' = next
      /\ \A i \in 1..Len(open') : i \in 1..Len(open) /\ open'[i] = open[i]
      /\ Len(open) \in 1..Len(open)
      /\ \A i \in 1..Len(open) : i \in 1..Len(open') \/ i = Len(open)
      /\ \A i \in 1..Len(open') : open[i].id < back.id
      /\ \A f : RV!IsOpen(f)' => RV!IsOpen(f) /\ f # back.id
  BY <1>1, RVLeave
<1>3. \A i \in 1..Len(open) : open[i].id <= back.id
  BY <1>2, <1>b
<1>4. \A k \in 1..last : stack[k].func_decl # back.id
  <2>1. SUFFICES ASSUME NEW k \in 1..last, stack[k].func_decl = back.id
                 PROVE  FALSE
    OBVIOUS
  <2>2. k # last
    <3>1. stack # <<>>
      BY <1>b
    <3> QED
      BY <1>1, <2>1, <3>1
  <2>3. k < last /\ last \in 1..last
    BY <1>b, <2>2
  <2>4. back.id < stack[last].func_decl
    BY <1>a, <2>1, <2>3 DEF RV!StackIsOpenFunctions
  <2>5. PICK i \in 1..Len(open) : open[i].id = stack[last].func_decl
    BY <1>a, <2>3 DEF RV!StackIsOpenFunctions
  <2> QED
    BY <1>2, <1>3, <1>b, <2>4, <2>5
<1>5. RV!StackIsOpenFunctions'
  <2>1. ASSUME NEW k \in 1..last
        PROVE  \E i \in 1..Len(open') :
                 open'[i].id = stack[k].func_decl /\ open'[i].kind = "followed"
    <3>1. PICK i \in 1..Len(open) :
            open[i].id = stack[k].func_decl /\ open[i].kind = "followed"
      BY <1>a DEF RV!StackIsOpenFunctions
    <3>2. i # Len(open)
      BY <1>4, <3>1
    <3> QED
      BY <1>2, <3>1, <3>2
  <2>2. ASSUME NEW i \in 1..Len(open'), open'[i].kind = "followed"
        PROVE  \E k \in 1..last : open'[i].id = stack[k].func_decl
    <3>1. i \in 1..Len(open) /\ open'[i] = open[i] /\ open[i].kind = "followed"
      BY <1>2, <2>2
    <3>2. \A j \in 1..Len(open) : open[j].kind = "followed" =>
            \E k \in 1..last : open[j].id = stack[k].func_decl
      BY <1>a DEF RV!StackIsOpenFunctions
    <3> QED
      BY <3>1, <3>2
  <2>3. \A k, l \in 1..last : k < l => stack[k].func_decl < stack[l].func_decl
    BY <1>a DEF RV!StackIsOpenFunctions
  <2> QED
    BY <1>1, <2>1, <2>2, <2>3 DEF RV!StackIsOpenFunctions
<1>6. RV!TypeOK'
  BY <1>1, <1>2, <1>a DEF RV!TypeOK, RV!Nodes, RV!Return
<1>7. \A f : RV!IsReported(f)' <=> RV!IsReported(f)
  BY <1>1 DEF RV!IsReported
<1> QED
  BY <1>1, <1>2, <1>5, <1>6, <1>7, RVQuiet

LEMMA RVInit ==
  ASSUME RV!Init
  PROVE  RVInv
<1>1. FewNodes \in Nat /\ open = <<>> /\ next = 1 /\ m_comp_stmt_stack = <<>>
      /\ crashed = FALSE /\ reports = {} /\ returned = {}
  BY VisitorsAssumption DEF RV!Init, RV!TraversalInit
<1>2. \A S : <<>> \in Seq(S)
  OBVIOUS
<1>3. RV!TypeOK
  <2>1. RV!TraversalTypeOK(RV!Kinds)
    BY <1>1, <1>2 DEF RV!TraversalTypeOK
  <2>2. m_comp_stmt_stack \in Seq(RV!CheckedFunc) /\ crashed \in BOOLEAN
    BY <1>1, <1>2
  <2> QED
    BY <1>1, <2>1, <2>2 DEF RV!TypeOK
<1> QED
  BY <1>1, <1>3 DEF RVInv, OpenIsOrdered, RV!StackIsOpenFunctions, RV!SelfCopiesAreCopies,
     RV!IsReported, RVReturnsAreBooked, RVSeen

LEMMA RVNext ==
  ASSUME RVInv, RV!Next
  PROVE  RVInv'
BY RVVisitFunctionDecl, RVEnterLambda, RVVisitReturnStmt, RVLeaveFollowed, RVLeaveOther
   DEF RV!Next

LEMMA RVStutter ==
  ASSUME RVInv, UNCHANGED RV!vars
  PROVE  RVInv'
<1>1. UNCHANGED <<open, next, m_comp_stmt_stack, crashed, reports, returned>>
  BY DEF RV!vars
<1>2. RV!TypeOK'
  BY <1>1 DEF RVInv, RV!TypeOK, RV!TraversalTypeOK, RV!Nodes, RV!Return
<1>3. OpenIsOrdered' /\ RV!StackIsOpenFunctions'
  BY <1>1 DEF RVInv, OpenIsOrdered, RV!StackIsOpenFunctions
<1>4. \A f : (RV!IsReported(f)' <=> RV!IsReported(f)) /\ (RV!IsOpen(f)' <=> RV!IsOpen(f))
  BY <1>1 DEF RV!IsReported, RV!IsOpen
<1> QED
  BY <1>1, <1>2, <1>3, <1>4, RVQuiet

-----------------------------------------------------------------------------
(* LockGuardReleaseVisitor.                                                 *)

(* What is kept of a call is older than the next call; before the end       *)
(* nothing but bad code was reported; and of the results that are thrown    *)
(* away, those that are not hidden are taken for unused.                    *)
LGCallsAreSeen ==
  /\ \A c \in pointer_calls : c.call < next
  /\ \A d \in discarded : d.call < next
  /\ \A c \in m_release_unique_shared_lock : c < next
  /\ \A r \in reports : r.what = "bad-code" => r.of < next
  /\ ~done => \A r \in reports : r.what = "bad-code"
  /\ \A d \in discarded : d.call \in m_release_unique_shared_lock <=> ~d.hidden

LGInv ==
  /\ LG!TypeOK /\ LGCallsAreSeen
  /\ LG!PendingReleasesAreExact /\ LG!LockedMutexesAreReported

(* What the types say. *)
LEMMA LGType ==
  ASSUME LGInv
  PROVE  /\ FewNodes \in Nat /\ FewNodes - 1 \in Nat /\ LG!Nodes = 1..(FewNodes - 1)
         /\ next \in 1..FewNodes
         /\ m_potential_mutex_not_unlocked \subseteq Pointers
         /\ m_release_unique_shared_lock \subseteq 1..(FewNodes - 1)
         /\ pointer_calls \subseteq LG!PointerCall
         /\ discarded \subseteq LG!Discard
         /\ \A c \in pointer_calls :
              /\ c.call \in 1..(FewNodes - 1) /\ c.call < next
              /\ c.pointer \in Pointers
         /\ \A d \in discarded : d.call \in 1..(FewNodes - 1) /\ d.call < next
         /\ LGCallsAreSeen /\ LG!PendingReleasesAreExact
<1>1. /\ FewNodes \in Nat /\ FewNodes - 1 \in Nat
      /\ LG!Nodes = 1..(FewNodes - 1) /\ next \in 1..FewNodes
      /\ m_potential_mutex_not_unlocked \subseteq Pointers
      /\ m_release_unique_shared_lock \subseteq 1..(FewNodes - 1)
      /\ pointer_calls \subseteq LG!PointerCall /\ discarded \subseteq LG!Discard
  BY VisitorsAssumption DEF LGInv, LG!TypeOK, LG!TraversalTypeOK, LG!Nodes
<1>2. LGCallsAreSeen /\ LG!PendingReleasesAreExact
  BY DEF LGInv
<1>3. /\ \A c \in pointer_calls : c.call \in 1..(FewNodes - 1) /\ c.pointer \in Pointers
      /\ \A d \in discarded : d.call \in 1..(FewNodes - 1)
  BY <1>1 DEF LG!PointerCall, LG!Discard
<1> QED
  BY <1>1, <1>2, <1>3 DEF LGCallsAreSeen

(* One more call was visited; what the types say after it.  *)
LEMMA LGVisited ==
  ASSUME LGInv, LG!VisitCall,
         m_release_unique_shared_lock' \subseteq m_release_unique_shared_lock \cup {next},
         \/ reports' = reports
         \/ /\ reports' = reports \cup {[what |-> "bad-code", of |-> next]}
            /\ m_release_unique_shared_lock' = m_release_unique_shared_lock,
         m_potential_mutex_not_unlocked' \subseteq Pointers,
         pointer_calls' \subseteq LG!PointerCall, discarded' \subseteq LG!Discard
  PROVE  /\ LG!TypeOK' /\ LG!LockedMutexesAreReported'
         /\ next' = next + 1
         /\ \A c \in m_release_unique_shared_lock' : c < next'
         /\ \A r \in reports' : r.what = "bad-code" /\ r.of < next'
<1>1. /\ ~done /\ done' = done /\ next' = next + 1 /\ next <= FewNodes - 1 /\ open' = open
  BY DEF LG!VisitCall, LG!VisitLeaf, LG!Visit
<1>2. /\ FewNodes \in Nat /\ LG!Nodes = 1..(FewNodes - 1) /\ next \in 1..FewNodes
      /\ m_release_unique_shared_lock \subseteq 1..(FewNodes - 1) /\ LGCallsAreSeen
  BY LGType
<1>3. next \in LG!Nodes /\ next' \in 1..FewNodes
  BY <1>1, <1>2
<1>4. \A c \in m_release_unique_shared_lock' : c < next'
  BY <1>1, <1>2, <1>3 DEF LGCallsAreSeen
<1> DEFINE bad == [what |-> "bad-code", of |-> next]
<1>5. \A r \in reports : r \in [what : {"bad-code"}, of : LG!Nodes \ m_release_unique_shared_lock]
  <2>1. \A r \in reports : r.what = "bad-code"
    BY <1>1, <1>2 DEF LGCallsAreSeen
  <2>2. \A r \in reports :
       \/ r \in [what : {"bad-code"}, of : LG!Nodes \ m_release_unique_shared_lock]
       \/ r \in [what : {"unused"}, of : LG!Nodes]
       \/ r \in [what : {"not-unlocked"}, of : Pointers]
    BY DEF LGInv, LG!TypeOK
  <2> QED
    BY <2>1, <2>2
<1>6. \A r \in reports : /\ r.what = "bad-code" /\ r.of \in LG!Nodes /\ r.of < next
                         /\ r = [what |-> "bad-code", of |-> r.of]
                         /\ r.of \notin m_release_unique_shared_lock
  <2>1. \A r \in reports : r.of < next
    BY <1>2, <1>5 DEF LGCallsAreSeen
  <2> QED
    BY <1>5, <2>1
<1>7. \A r \in reports' : r.what = "bad-code" /\ r.of < next'
  <2>1. bad.what = "bad-code" /\ bad.of = next
    OBVIOUS
  <2> QED
    BY <1>1, <1>2, <1>3, <1>6, <2>1
<1>8. \A r \in reports' :
        r \in [what : {"bad-code"}, of : LG!Nodes \ m_release_unique_shared_lock']
  <2>1. CASE reports' = reports
    <3>1. \A r \in reports : r.of \notin m_release_unique_shared_lock'
      BY <1>2, <1>6
    <3> QED
      BY <1>6, <2>1, <3>1
  <2>2. CASE /\ reports' = reports \cup {bad}
             /\ m_release_unique_shared_lock' = m_release_unique_shared_lock
    <3>1. next \notin m_release_unique_shared_lock
      BY <1>2 DEF LGCallsAreSeen
    <3>2. bad \in [what : {"bad-code"}, of : LG!Nodes \ m_release_unique_shared_lock]
      BY <1>3, <3>1
    <3> QED
      BY <1>5, <2>2, <3>2
  <2> QED
    BY <2>1, <2>2
<1>9. LG!TraversalTypeOK({})' /\ done' \in BOOLEAN
      /\ m_release_unique_shared_lock' \subseteq LG!Nodes
  BY <1>1, <1>2, <1>3 DEF LGInv, LG!TypeOK, LG!TraversalTypeOK, LG!Nodes
<1>10. LG!TypeOK'
  BY <1>8, <1>9 DEF LG!TypeOK, LG!Nodes, LG!PointerCall, LG!Discard
<1>11. LG!LockedMutexesAreReported'
  BY <1>1 DEF LG!LockedMutexesAreReported
<1> QED
  BY <1>1, <1>4, <1>7, <1>10, <1>11

(* A call of release() or unlock() on a variable. *)
LEMMA LGPointerCall ==
  ASSUME LGInv, LG!VisitCall, NEW what \in {"release", "unlock"}, NEW p \in Pointers,
         NEW hidden \in BOOLEAN, LG!RememberPointerCall(what, p, hidden),
         UNCHANGED <<m_release_unique_shared_lock, reports>>,
         m_potential_mutex_not_unlocked' \subseteq Pointers
  PROVE  LG!TypeOK' /\ LG!LockedMutexesAreReported' /\ LGCallsAreSeen'
<1> DEFINE new == [call |-> next, what |-> what, pointer |-> p, hidden |-> hidden]
<1>1. pointer_calls' = pointer_calls \cup {new} /\ discarded' = discarded
  BY DEF LG!RememberPointerCall
<1>2. /\ FewNodes \in Nat /\ LG!Nodes = 1..(FewNodes - 1) /\ next \in 1..FewNodes
      /\ pointer_calls \subseteq LG!PointerCall /\ discarded \subseteq LG!Discard
      /\ \A c \in pointer_calls : c.call \in 1..(FewNodes - 1) /\ c.call < next
      /\ \A d \in discarded : d.call \in 1..(FewNodes - 1) /\ d.call < next
      /\ LGCallsAreSeen
  BY LGType
<1>3. next \in LG!Nodes
  BY <1>2 DEF LG!VisitCall, LG!VisitLeaf, LG!Visit
<1>4. new \in LG!PointerCall /\ new.call = next
  BY <1>3 DEF LG!PointerCall
<1> HIDE DEF new
<1>5. /\ LG!TypeOK' /\ LG!LockedMutexesAreReported' /\ next' = next + 1
      /\ \A c \in m_release_unique_shared_lock' : c < next'
      /\ \A r \in reports' : r.what = "bad-code" /\ r.of < next'
  BY <1>1, <1>2, <1>4, LGVisited
<1>6. /\ \A c \in pointer_calls' : c.call < next'
      /\ \A d \in discarded' : d.call < next'
  BY <1>1, <1>2, <1>4, <1>5
<1> QED
  BY <1>1, <1>2, <1>5, <1>6 DEF LGCallsAreSeen

(* The calls that no unlock() follows, after a call that is hidden, a       *)
(* release() and an unlock().                                               *)
LEMMA LGPending ==
  ASSUME LGInv, NEW what \in {"release", "unlock"}, NEW p \in Pointers,
         NEW hidden \in BOOLEAN, LG!RememberPointerCall(what, p, hidden)
  PROVE  /\ hidden => LG!Pending' = LG!Pending
         /\ ~hidden /\ what = "release" =>
              \E new : new.pointer = p /\ LG!Pending' = LG!Pending \cup {new}
         /\ ~hidden /\ what = "unlock" =>
              LG!Pending' = {r \in LG!Pending : r.pointer # p}
<1> DEFINE new == [call |-> next, what |-> what, pointer |-> p, hidden |-> hidden]
<1>1. pointer_calls' = pointer_calls \cup {new}
  BY DEF LG!RememberPointerCall
<1>2. /\ next \in Int
      /\ \A c \in pointer_calls : c.call \in Int /\ c.call < next
  BY LGType
<1>3. new.call = next /\ new.what = what /\ new.pointer = p /\ new.hidden = hidden
  OBVIOUS
<1> HIDE DEF new
<1>4. CASE hidden
  <2>1. \A w \in {"release", "unlock"} : LG!Seen(w)' = LG!Seen(w)
    BY <1>1, <1>3, <1>4 DEF LG!Seen
  <2> QED
    BY <1>4, <2>1 DEF LG!Pending
<1>5. CASE ~hidden /\ what = "release"
  <2>1. /\ LG!Seen("release")' = LG!Seen("release") \cup {new}
        /\ LG!Seen("unlock")' = LG!Seen("unlock")
    BY <1>1, <1>3, <1>5 DEF LG!Seen
  <2>2. ~\E u \in LG!Seen("unlock") : u.pointer = new.pointer /\ u.call > new.call
    BY <1>2, <1>3 DEF LG!Seen
  <2>3. LG!Pending' = LG!Pending \cup {new}
    BY <2>1, <2>2 DEF LG!Pending
  <2> QED
    BY <1>3, <1>5, <2>3
<1>6. CASE ~hidden /\ what = "unlock"
  <2>1. /\ LG!Seen("release")' = LG!Seen("release")
        /\ LG!Seen("unlock")' = LG!Seen("unlock") \cup {new}
    BY <1>1, <1>3, <1>6 DEF LG!Seen
  <2>2. \A r \in LG!Seen("release") : new.call > r.call
    BY <1>2, <1>3 DEF LG!Seen
  <2> QED
    BY <1>3, <1>6, <2>1, <2>2 DEF LG!Pending
<1> QED
  BY <1>4, <1>5, <1>6

LEMMA LGVisitStoredRelease ==
  ASSUME LGInv, NEW p \in Pointers, NEW hidden \in BOOLEAN, LG!VisitStoredRelease(p, hidden)
  PROVE  LGInv'
<1> DEFINE pending == m_potential_mutex_not_unlocked
<1>1. /\ LG!VisitCall /\ LG!RememberPointerCall("release", p, hidden)
      /\ UNCHANGED <<m_release_unique_shared_lock, reports>>
      /\ hidden => pending' = pending
      /\ ~hidden => pending' = pending \cup {p}
  BY DEF LG!VisitStoredRelease, LG!Skip
<1>2. pending \subseteq Pointers /\ pending = {r.pointer : r \in LG!Pending}
  BY LGType DEF LG!PendingReleasesAreExact
<1>3. LG!TypeOK' /\ LG!LockedMutexesAreReported' /\ LGCallsAreSeen'
  BY <1>1, <1>2, LGPointerCall
<1>4. pending' = {r.pointer : r \in LG!Pending'}
  <2>1. CASE hidden
    BY <1>1, <1>2, <2>1, LGPending
  <2>2. CASE ~hidden
    BY <1>1, <1>2, <2>2, LGPending
  <2> QED
    BY <2>1, <2>2
<1> QED
  BY <1>3, <1>4 DEF LGInv, LG!PendingReleasesAreExact

LEMMA LGVisitPointerUnlock ==
  ASSUME LGInv, NEW p \in Pointers, NEW hidden \in BOOLEAN, LG!VisitPointerUnlock(p, hidden)
  PROVE  LGInv'
<1> DEFINE pending == m_potential_mutex_not_unlocked
<1>1. /\ LG!VisitCall /\ LG!RememberPointerCall("unlock", p, hidden)
      /\ UNCHANGED <<m_release_unique_shared_lock, reports>>
      /\ hidden => pending' = pending
      /\ ~hidden => pending' = pending \ {p}
  BY DEF LG!VisitPointerUnlock, LG!Skip
<1>2. pending \subseteq Pointers /\ pending = {r.pointer : r \in LG!Pending}
  BY LGType DEF LG!PendingReleasesAreExact
<1>3. LG!TypeOK' /\ LG!LockedMutexesAreReported' /\ LGCallsAreSeen'
  BY <1>1, <1>2, LGPointerCall
<1>4. pending' = {r.pointer : r \in LG!Pending'}
  <2>1. CASE hidden
    BY <1>1, <1>2, <2>1, LGPending
  <2>2. CASE ~hidden
    BY <1>1, <1>2, <2>2, LGPending
  <2> QED
    BY <2>1, <2>2
<1> QED
  BY <1>3, <1>4 DEF LGInv, LG!PendingReleasesAreExact

LEMMA LGVisitRelease ==
  ASSUME LGInv, NEW fate \in LG!Fates, NEW hidden \in BOOLEAN, LG!VisitRelease(fate, hidden)
  PROVE  LGInv'
<1> DEFINE unused == m_release_unique_shared_lock
           bad == [what |-> "bad-code", of |-> next]
           new == [call |-> next, hidden |-> hidden]
<1>1. /\ LG!VisitCall /\ UNCHANGED <<m_potential_mutex_not_unlocked, pointer_calls>>
      /\ discarded' = discarded \cup (IF fate = "discard" THEN {new} ELSE {})
      /\ unused' = IF hidden \/ fate = "unlock" THEN unused ELSE unused \cup {next}
      /\ \/ reports' = reports
         \/ reports' = reports \cup {bad} /\ unused' = unused
  BY DEF LG!VisitRelease, LG!RememberDiscard, LG!Skip
<1>2. /\ FewNodes \in Nat /\ LG!Nodes = 1..(FewNodes - 1) /\ next \in 1..FewNodes
      /\ m_potential_mutex_not_unlocked \subseteq Pointers
      /\ pointer_calls \subseteq LG!PointerCall /\ discarded \subseteq LG!Discard
      /\ \A c \in pointer_calls : c.call \in 1..(FewNodes - 1) /\ c.call < next
      /\ \A d \in discarded : d.call \in 1..(FewNodes - 1) /\ d.call < next
      /\ \A c \in unused : c < next
      /\ \A d \in discarded : d.call \in unused <=> ~d.hidden
      /\ LG!PendingReleasesAreExact
  BY LGType DEF LGCallsAreSeen
<1>3. next \in LG!Nodes
  BY <1>1, <1>2 DEF LG!VisitCall, LG!VisitLeaf, LG!Visit
<1>4. new \in LG!Discard /\ new.call = next /\ new.hidden = hidden
  BY <1>3 DEF LG!Discard
<1> HIDE DEF new, bad
<1>5. /\ LG!TypeOK' /\ LG!LockedMutexesAreReported' /\ next' = next + 1
      /\ \A c \in unused' : c < next'
      /\ \A r \in reports' : r.what = "bad-code" /\ r.of < next'
  BY <1>1, <1>2, <1>4, LGVisited DEF bad
<1>6. \A d \in discarded' : d.call < next'
  BY <1>1, <1>2, <1>4, <1>5
<1>7. \A c \in pointer_calls' : c.call < next'
  BY <1>1, <1>2, <1>5
<1>8. \A d \in discarded' : d.call \in unused' <=> ~d.hidden
  <2>1. next \notin unused
    BY <1>2
  <2>2. \A d \in discarded : d.call # next
    BY <1>2
  <2>3. \A d \in discarded : d.call \in unused' <=> ~d.hidden
    BY <1>1, <1>2, <2>2
  <2>4. fate = "discard" => (new.call \in unused' <=> ~new.hidden)
    BY <1>1, <1>4, <2>1
  <2> QED
    BY <1>1, <2>3, <2>4
<1>9. LGCallsAreSeen'
  BY <1>5, <1>6, <1>7, <1>8 DEF LGCallsAreSeen
<1>10. LG!PendingReleasesAreExact'
  BY <1>1, <1>2 DEF LG!PendingReleasesAreExact, LG!Pending, LG!Seen
<1> QED
  BY <1>5, <1>9, <1>10 DEF LGInv

LEMMA LGVisitLockUnlock ==
  ASSUME LGInv, LG!VisitLockUnlock
  PROVE  LGInv'
<1> DEFINE unused == m_release_unique_shared_lock
<1>1. /\ LG!VisitCall /\ reports' = reports
      /\ UNCHANGED <<m_potential_mutex_not_unlocked, pointer_calls, discarded>>
      /\ unused' = unused \/ unused' = unused \cup {next}
  BY DEF LG!VisitLockUnlock, LG!history
<1>2. /\ m_potential_mutex_not_unlocked \subseteq Pointers /\ next \in Int
      /\ pointer_calls \subseteq LG!PointerCall /\ discarded \subseteq LG!Discard
      /\ \A c \in pointer_calls : c.call \in Int /\ c.call < next
      /\ \A d \in discarded : d.call \in Int /\ d.call < next
      /\ \A d \in discarded : d.call \in unused <=> ~d.hidden
      /\ LG!PendingReleasesAreExact
  BY LGType DEF LGCallsAreSeen
<1>3. /\ LG!TypeOK' /\ LG!LockedMutexesAreReported' /\ next' = next + 1
      /\ \A c \in unused' : c < next'
      /\ \A r \in reports' : r.what = "bad-code" /\ r.of < next'
  BY <1>1, <1>2, LGVisited
<1>4. /\ \A c \in pointer_calls' : c.call < next'
      /\ \A d \in discarded' : d.call < next'
      /\ \A d \in discarded' : d.call \in unused' <=> ~d.hidden
  BY <1>1, <1>2, <1>3
<1>5. LGCallsAreSeen'
  BY <1>3, <1>4 DEF LGCallsAreSeen
<1>6. LG!PendingReleasesAreExact'
  BY <1>1, <1>2 DEF LG!PendingReleasesAreExact, LG!Pending, LG!Seen
<1> QED
  BY <1>3, <1>5, <1>6 DEF LGInv

(* What waits is what is to be reported. *)
LEMMA LGprintDiagnostic ==
  ASSUME LGInv, LG!printDiagnostic
  PROVE  LGInv'
<1> DEFINE pending == m_potential_mutex_not_unlocked
           unused == m_release_unique_shared_lock
<1>1. /\ ~done /\ done' = TRUE
      /\ UNCHANGED <<open, next, pending, unused, pointer_calls, discarded>>
      /\ reports' = reports \cup {LG!Unused(c) : c \in unused}
                      \cup {LG!NotUnlocked(p) : p \in pending}
  BY DEF LG!printDiagnostic, LG!history, LG!Unused, LG!NotUnlocked
<1>2. /\ pending \subseteq Pointers /\ unused \subseteq LG!Nodes
      /\ pointer_calls \subseteq LG!PointerCall /\ discarded \subseteq LG!Discard
      /\ LGCallsAreSeen /\ LG!PendingReleasesAreExact
  BY LGType
<1>3. /\ \A r \in reports : r.what = "bad-code"
      /\ \A c : LG!Unused(c) = [what |-> "unused", of |-> c] /\ LG!Unused(c).what = "unused"
                /\ LG!Unused(c).of = c
      /\ \A p : LG!NotUnlocked(p) = [what |-> "not-unlocked", of |-> p]
                /\ LG!NotUnlocked(p).what = "not-unlocked" /\ LG!NotUnlocked(p).of = p
  BY <1>1, <1>2 DEF LGCallsAreSeen, LG!Unused, LG!NotUnlocked
<1>4. \A r \in reports' :
        \/ r \in reports
        \/ r \in [what : {"unused"}, of : LG!Nodes]
        \/ r \in [what : {"not-unlocked"}, of : Pointers]
  BY <1>1, <1>2, <1>3
<1>5. LG!TypeOK'
  <2>1. LG!TraversalTypeOK({})' /\ done' \in BOOLEAN
    BY <1>1 DEF LGInv, LG!TypeOK, LG!TraversalTypeOK, LG!Nodes
  <2>2. \A r \in reports' :
          \/ r \in [what : {"bad-code"}, of : LG!Nodes \ unused']
          \/ r \in [what : {"unused"}, of : LG!Nodes]
          \/ r \in [what : {"not-unlocked"}, of : Pointers]
    <3>1. \A r \in reports :
            \/ r \in [what : {"bad-code"}, of : LG!Nodes \ unused]
            \/ r \in [what : {"unused"}, of : LG!Nodes]
            \/ r \in [what : {"not-unlocked"}, of : Pointers]
      BY DEF LGInv, LG!TypeOK
    <3> QED
      BY <1>1, <1>4, <3>1
  <2> QED
    BY <1>1, <1>2, <2>1, <2>2 DEF LG!TypeOK, LG!Nodes, LG!PointerCall, LG!Discard
<1>6. LGCallsAreSeen'
  <2>1. \A r \in reports' : r.what = "bad-code" => r.of < next'
    BY <1>1, <1>2, <1>4 DEF LGCallsAreSeen
  <2> QED
    BY <1>1, <1>2, <2>1 DEF LGCallsAreSeen
<1>7. LG!Pending' = LG!Pending /\ LG!PendingReleasesAreExact'
  BY <1>1, <1>2 DEF LG!PendingReleasesAreExact, LG!Pending, LG!Seen
<1>8. \A c : LG!Unused(c) \in reports' <=> c \in unused
  BY <1>1, <1>3
<1>9. \A p : LG!NotUnlocked(p) \in reports' <=> p \in pending
  BY <1>1, <1>3
<1>10. \A d \in discarded' : LG!Unused(d.call) \in reports' <=> ~d.hidden
  BY <1>1, <1>2, <1>8 DEF LGCallsAreSeen
<1>11. \A p \in Pointers :
         LG!NotUnlocked(p) \in reports' <=> \E r \in LG!Pending' : r.pointer = p
  BY <1>2, <1>7, <1>9 DEF LG!PendingReleasesAreExact
<1>12. LG!LockedMutexesAreReported'
  BY <1>10, <1>11 DEF LG!LockedMutexesAreReported, LG!Unused, LG!NotUnlocked
<1> QED
  BY <1>5, <1>6, <1>7, <1>12 DEF LGInv

LEMMA LGInit ==
  ASSUME LG!Init
  PROVE  LGInv
<1>1. FewNodes - 1 \in Nat /\ open = <<>> /\ next = 1 /\ m_potential_mutex_not_unlocked = {}
      /\ m_release_unique_shared_lock = {} /\ done = FALSE /\ reports = {}
      /\ pointer_calls = {} /\ discarded = {}
  BY VisitorsAssumption DEF LG!Init, LG!TraversalInit
<1>2. \A S : <<>> \in Seq(S)
  OBVIOUS
<1>3. LG!TypeOK
  <2>1. LG!TraversalTypeOK({})
    BY <1>1, <1>2 DEF LG!TraversalTypeOK
  <2> QED
    BY <1>1, <2>1 DEF LG!TypeOK
<1>4. LG!Pending = {}
  BY <1>1 DEF LG!Pending, LG!Seen
<1> QED
  BY <1>1, <1>3, <1>4 DEF LGInv, LGCallsAreSeen, LG!PendingReleasesAreExact,
     LG!LockedMutexesAreReported

LEMMA LGNext ==
  ASSUME LGInv, LG!Next
  PROVE  LGInv'
BY LGVisitStoredRelease, LGVisitRelease, LGVisitPointerUnlock, LGVisitLockUnlock,
   LGprintDiagnostic DEF LG!Next

LEMMA LGStutter ==
  ASSUME LGInv, UNCHANGED LG!vars
  PROVE  LGInv'
<1>1. UNCHANGED <<open, next, m_potential_mutex_not_unlocked, m_release_unique_shared_lock,
                  done, reports, pointer_calls, discarded>>
  BY DEF LG!vars, LG!history
<1>2. LG!TypeOK'
  BY <1>1 DEF LGInv, LG!TypeOK, LG!TraversalTypeOK, LG!Nodes, LG!PointerCall, LG!Discard
<1>3. LG!Pending' = LG!Pending
  BY <1>1 DEF LG!Pending, LG!Seen
<1> QED
  BY <1>1, <1>2, <1>3 DEF LGInv, LGCallsAreSeen, LG!PendingReleasesAreExact,
     LG!LockedMutexesAreReported, LG!Unused, LG!NotUnlocked

-----------------------------------------------------------------------------
(* InitMembersVisitor.                                                      *)

(* Members wait only while there is a current body, and those that wait are *)
(* as those that are reported.                                              *)
IMWaitingAreInitializable ==
  /\ m_to_report # {} => m_curr_ctor_body # Null
  /\ \A a \in assigned : a.member < next
  /\ \A s \in synthesized : s < next
  /\ \A n \in m_to_report \cup reports : n < next
  /\ \A a \in assigned : a.member \in m_to_report =>
       /\ a.rhs # "uses local"
       /\ a.inside \/ \E s \in synthesized : s < a.member

IMInv ==
  /\ IM!TypeOK /\ OpenIsOrdered /\ IM!CurrentBodyIsOpen /\ IM!NothingIsLeftOver
  /\ IM!MembersAreInitializable /\ IMWaitingAreInitializable

(* What the types say. *)
LEMMA IMType ==
  ASSUME IMInv
  PROVE  /\ FewNodes \in Nat /\ IM!Nodes = 1..FewNodes /\ Null = 0 /\ IM!Null = 0
         /\ open \in Seq([id : 1..FewNodes, kind : IM!Kinds])
         /\ next \in 1..(FewNodes + 1)
         /\ \A i \in 1..Len(open) : open[i].id \in 1..FewNodes /\ open[i].kind \in IM!Kinds
         /\ m_to_report \subseteq 1..FewNodes /\ reports \subseteq 1..FewNodes
         /\ synthesized \subseteq 1..FewNodes
         /\ assigned \subseteq IM!Assignment
         /\ \A a \in assigned : a.member \in Int /\ a.member < next
         /\ \A s \in synthesized : s \in Int /\ s < next
         /\ \A n \in m_to_report \cup reports : n \in Int /\ n < next
         /\ OpenIsOrdered /\ IM!CurrentBodyIsOpen /\ IM!MembersAreInitializable
         /\ IMWaitingAreInitializable
<1>1. /\ FewNodes \in Nat /\ IM!Nodes = 1..FewNodes /\ Null = 0 /\ IM!Null = 0
      /\ open \in Seq([id : 1..FewNodes, kind : IM!Kinds])
      /\ next \in 1..(FewNodes + 1)
      /\ m_to_report \subseteq 1..FewNodes /\ reports \subseteq 1..FewNodes
      /\ synthesized \subseteq 1..FewNodes
      /\ assigned \subseteq IM!Assignment
  BY VisitorsAssumption DEF IMInv, IM!TypeOK, IM!TraversalTypeOK, IM!Nodes, Null, IM!Null
<1>2. \A i \in 1..Len(open) : open[i].id \in 1..FewNodes /\ open[i].kind \in IM!Kinds
  BY <1>1, OpenNodes
<1>3. \A a \in assigned : a.member \in 1..FewNodes
  BY <1>1 DEF IM!Assignment
<1>4. /\ \A a \in assigned : a.member < next
      /\ \A s \in synthesized : s < next
      /\ \A n \in m_to_report \cup reports : n < next
  BY DEF IMInv, IMWaitingAreInitializable
<1>5. \A a \in assigned : a.member \in Int /\ a.member < next
  BY <1>3, <1>4
<1>6. \A s \in synthesized : s \in Int /\ s < next
  BY <1>1, <1>4
<1>7. \A n \in m_to_report \cup reports : n \in Int /\ n < next
  BY <1>1, <1>4
<1> QED
  BY <1>1, <1>2, <1>4, <1>5, <1>6, <1>7 DEF IMInv

(* NothingIsLeftOver follows. *)
LEMMA IMNothingIsLeftOver ==
  ASSUME IM!CurrentBodyIsOpen, m_to_report # {} => m_curr_ctor_body # Null, Null = IM!Null
  PROVE  IM!NothingIsLeftOver
<1>1. SUFFICES ASSUME synthesized = {}, m_to_report # {}
               PROVE  IM!InsideOf({"ctor"})
  BY DEF IM!NothingIsLeftOver
<1>2. PICK i \in 1..Len(open) : open[i] = [id |-> m_curr_ctor_body, kind |-> "ctor"]
  BY <1>1 DEF IM!CurrentBodyIsOpen
<1> QED
  BY <1>2 DEF IM!InsideOf

(* A node that is entered or visited, with nothing to report, and maybe a   *)
(* body that the compiler wrote.                                            *)
LEMMA IMQuiet ==
  ASSUME IMInv, IM!TraversalTypeOK(IM!Kinds)', OpenIsOrdered', IM!CurrentBodyIsOpen',
         UNCHANGED <<m_to_report, reports, assigned>>,
         m_curr_ctor_body' \in IM!Nodes \cup {IM!Null},
         m_curr_ctor_body # Null => m_curr_ctor_body' # Null,
         next' \in {next, next + 1},
         synthesized \subseteq synthesized',
         \A s \in synthesized' : s \in IM!Nodes /\ s < next'
  PROVE  IMInv'
<1>1. IM!TypeOK'
  BY DEF IMInv, IM!TypeOK, IM!Nodes, IM!Null, IM!Assignment
<1>2. /\ next \in Int
      /\ \A a \in assigned : a.member \in Int /\ a.member < next
      /\ \A n \in m_to_report \cup reports : n \in Int /\ n < next
      /\ IM!MembersAreInitializable /\ IMWaitingAreInitializable
  BY IMType
<1>3. \A a \in assigned' : a.member < next'
  BY <1>2, Later
<1>4. \A n \in m_to_report' \cup reports' : n < next'
  BY <1>2, Later
<1>5. \A a \in assigned' : a.member \in m_to_report' =>
        /\ a.rhs # "uses local"
        /\ a.inside \/ \E s \in synthesized' : s < a.member
  BY <1>2 DEF IMWaitingAreInitializable
<1>6. IM!MembersAreInitializable'
  BY <1>2 DEF IM!MembersAreInitializable
<1>7. m_to_report' # {} => m_curr_ctor_body' # Null
  BY <1>2 DEF IMWaitingAreInitializable
<1>8. Null' = IM!Null'
  BY DEF Null, IM!Null
<1>9. IM!NothingIsLeftOver'
  <2>1. SUFFICES ASSUME synthesized' = {}, m_to_report' # {}
                 PROVE  IM!InsideOf({"ctor"})'
    BY DEF IM!NothingIsLeftOver
  <2>2. PICK i \in 1..Len(open') : open'[i] = [id |-> m_curr_ctor_body', kind |-> "ctor"]
    BY <1>7, <1>8, <2>1 DEF IM!CurrentBodyIsOpen
  <2> QED
    BY <2>2 DEF IM!InsideOf
<1> QED
  BY <1>1, <1>3, <1>4, <1>5, <1>6, <1>7, <1>9 DEF IMInv, IMWaitingAreInitializable, Null

LEMMA IMEnter ==
  ASSUME IMInv, IM!Visit, NEW k \in IM!Kinds,
         open' = Append(open, [id |-> next, kind |-> k])
  PROVE  /\ IM!TraversalTypeOK(IM!Kinds)' /\ OpenIsOrdered' /\ next' = next + 1
         /\ next \in IM!Nodes
         /\ \A i \in 1..Len(open) : i \in 1..Len(open') /\ open'[i] = open[i]
         /\ Len(open') \in 1..Len(open') /\ open'[Len(open')] = [id |-> next, kind |-> k]
<1>1. next' = next + 1 /\ next <= FewNodes /\ OpenIsOrdered
  BY DEF IMInv, IM!Visit
<1>2. /\ open' \in Seq([id : 1..FewNodes, kind : IM!Kinds]) /\ next' \in 1..(FewNodes + 1)
      /\ OpenIsOrdered'
      /\ \A i \in 1..Len(open) : i \in 1..Len(open') /\ open'[i] = open[i]
      /\ Len(open') \in 1..Len(open') /\ open'[Len(open')] = [id |-> next, kind |-> k]
  BY <1>1, IMType, Pushed
<1>3. next \in IM!Nodes
  BY <1>1, IMType
<1> QED
  BY <1>1, <1>2, <1>3 DEF IM!TraversalTypeOK, IM!Nodes

LEMMA IMVisitLeaf ==
  ASSUME IMInv, IM!VisitLeaf
  PROVE  /\ IM!TraversalTypeOK(IM!Kinds)' /\ OpenIsOrdered' /\ next' = next + 1
         /\ next \in IM!Nodes /\ open' = open
<1>1. next' = next + 1 /\ next <= FewNodes /\ open' = open /\ OpenIsOrdered
  BY DEF IMInv, IM!Visit, IM!VisitLeaf
<1>2. next' \in 1..(FewNodes + 1) /\ next \in IM!Nodes
      /\ open \in Seq([id : 1..FewNodes, kind : IM!Kinds])
      /\ FewNodes \in Nat /\ next \in 1..(FewNodes + 1)
  BY <1>1, IMType
<1>3. OpenIsOrdered' /\ open' \in Seq([id : 1..FewNodes, kind : IM!Kinds])
  BY <1>1, <1>2, Stayed
<1> QED
  BY <1>1, <1>2, <1>3 DEF IM!TraversalTypeOK, IM!Nodes

LEMMA IMEnterCtor ==
  ASSUME IMInv, IM!EnterCtor
  PROVE  IMInv'
<1>1. /\ open' = Append(open, [id |-> next, kind |-> "ctor"]) /\ IM!Visit
      /\ m_curr_ctor_body' = next /\ UNCHANGED <<m_to_report, reports, assigned, synthesized>>
  BY DEF IM!EnterCtor, IM!Enter
<1>2. "ctor" \in IM!Kinds
  BY DEF IM!Kinds
<1>3. /\ IM!TraversalTypeOK(IM!Kinds)' /\ OpenIsOrdered' /\ next' = next + 1
      /\ next \in IM!Nodes
      /\ Len(open') \in 1..Len(open') /\ open'[Len(open')] = [id |-> next, kind |-> "ctor"]
  BY <1>1, <1>2, IMEnter
<1>4. IM!CurrentBodyIsOpen'
  BY <1>1, <1>3 DEF IM!CurrentBodyIsOpen
<1>5. /\ next \in Int /\ next # 0 /\ Null = 0 /\ synthesized \subseteq IM!Nodes
      /\ \A s \in synthesized : s \in Int /\ s < next
  BY IMType
<1>6. \A s \in synthesized' : s \in IM!Nodes /\ s < next'
  BY <1>1, <1>3, <1>5, Later
<1> QED
  BY <1>1, <1>3, <1>4, <1>5, <1>6, IMQuiet

LEMMA IMVisitDefaultedCtor ==
  ASSUME IMInv, IM!VisitDefaultedCtor
  PROVE  IMInv'
<1>1. /\ IM!VisitLeaf /\ m_curr_ctor_body' = next
      /\ synthesized' = synthesized \cup {next} /\ UNCHANGED <<m_to_report, reports, assigned>>
  BY DEF IM!VisitDefaultedCtor
<1>2. /\ IM!TraversalTypeOK(IM!Kinds)' /\ OpenIsOrdered' /\ next' = next + 1
      /\ next \in IM!Nodes /\ open' = open
  BY <1>1, IMVisitLeaf
<1>3. IM!CurrentBodyIsOpen'
  BY <1>1 DEF IM!CurrentBodyIsOpen
<1>4. /\ next \in Int /\ next # 0 /\ Null = 0 /\ synthesized \subseteq IM!Nodes
      /\ \A s \in synthesized : s \in Int /\ s < next
  BY IMType
<1>5. \A s \in synthesized' : s \in IM!Nodes /\ s < next'
  BY <1>1, <1>2, <1>4, Later
<1> QED
  BY <1>1, <1>2, <1>3, <1>4, <1>5, IMQuiet

LEMMA IMEnterFunction ==
  ASSUME IMInv, IM!EnterFunction
  PROVE  IMInv'
<1>1. /\ open' = Append(open, [id |-> next, kind |-> "function"]) /\ IM!Visit
      /\ UNCHANGED <<m_curr_ctor_body, m_to_report, reports, assigned, synthesized>>
  BY DEF IM!EnterFunction, IM!Enter
<1>2. "function" \in IM!Kinds
  BY DEF IM!Kinds
<1>3. /\ IM!TraversalTypeOK(IM!Kinds)' /\ OpenIsOrdered' /\ next' = next + 1
      /\ \A i \in 1..Len(open) : i \in 1..Len(open') /\ open'[i] = open[i]
  BY <1>1, <1>2, IMEnter
<1>4. /\ next \in Int /\ synthesized \subseteq IM!Nodes
      /\ \A s \in synthesized : s \in Int /\ s < next
      /\ IM!CurrentBodyIsOpen
      /\ m_curr_ctor_body \in IM!Nodes \cup {IM!Null}
  BY IMType DEF IMInv, IM!TypeOK
<1>5. IM!CurrentBodyIsOpen'
  BY <1>1, <1>3, <1>4 DEF IM!CurrentBodyIsOpen
<1>6. \A s \in synthesized' : s \in IM!Nodes /\ s < next'
  BY <1>1, <1>3, <1>4, Later
<1> QED
  BY <1>1, <1>3, <1>4, <1>5, <1>6, IMQuiet

(* With a current body, a constructor is open or the compiler wrote a body. *)
LEMMA IMAssign ==
  ASSUME IMInv, NEW rhs \in IM!RightSides, IM!Assign(rhs)
  PROVE  IMInv'
<1> DEFINE new == [member |-> next, inside |-> IM!InsideOf({"ctor"}), rhs |-> rhs]
<1>1. /\ IM!VisitLeaf /\ assigned' = assigned \cup {new}
      /\ UNCHANGED <<m_curr_ctor_body, reports, synthesized>>
      /\ \/ m_to_report' = m_to_report
         \/ /\ m_curr_ctor_body # IM!Null /\ rhs # "uses local"
            /\ m_to_report' = m_to_report \cup {next}
  BY DEF IM!Assign, IM!Remember, IM!IsInitializer
<1>2. /\ IM!TraversalTypeOK(IM!Kinds)' /\ OpenIsOrdered' /\ next' = next + 1
      /\ next \in IM!Nodes /\ open' = open
  BY <1>1, IMVisitLeaf
<1>3. new.member = next /\ new.inside = IM!InsideOf({"ctor"}) /\ new.rhs = rhs
  OBVIOUS
<1>4. new \in IM!Assignment
  <2>1. IM!InsideOf({"ctor"}) \in BOOLEAN
    BY DEF IM!InsideOf
  <2> QED
    BY <1>2, <2>1 DEF IM!Assignment
<1> HIDE DEF new
<1>5. /\ next \in 1..FewNodes /\ IM!Nodes = 1..FewNodes /\ Null = IM!Null
      /\ m_to_report \subseteq 1..FewNodes /\ reports \subseteq 1..FewNodes
      /\ \A a \in assigned : a.member \in Int /\ a.member < next
      /\ \A s \in synthesized : s \in Int /\ s < next
      /\ IM!CurrentBodyIsOpen /\ IM!MembersAreInitializable
      /\ IMWaitingAreInitializable
  BY <1>2, IMType
<1>6. next \in Int /\ \A n \in m_to_report \cup reports : n \in Int /\ n < next /\ n # next
  BY <1>2, IMType, Later
<1>7. IM!TypeOK'
  <2>1. m_to_report' \subseteq IM!Nodes \ reports'
    <3>1. m_to_report \subseteq IM!Nodes \ reports
      BY DEF IMInv, IM!TypeOK
    <3>2. next \in IM!Nodes \ reports
      BY <1>2, <1>6
    <3> QED
      BY <1>1, <3>1, <3>2
  <2>2. assigned' \subseteq IM!Assignment
    BY <1>1, <1>4 DEF IMInv, IM!TypeOK
  <2>3. /\ m_curr_ctor_body' \in IM!Nodes \cup {IM!Null}
        /\ reports' \subseteq IM!Nodes /\ synthesized' \subseteq IM!Nodes
    BY <1>1 DEF IMInv, IM!TypeOK
  <2> QED
    BY <1>2, <2>1, <2>2, <2>3 DEF IM!TypeOK, IM!Nodes, IM!Null, IM!Assignment
<1>8. IM!CurrentBodyIsOpen'
  BY <1>1, <1>2, <1>5 DEF IM!CurrentBodyIsOpen, IM!Null
<1>9. IM!MembersAreInitializable'
  <2>1. next \notin reports
    BY <1>5, <1>6
  <2> QED
    BY <1>1, <1>3, <1>5, <2>1 DEF IM!MembersAreInitializable
<1>10. /\ m_to_report' # {} => m_curr_ctor_body' # Null
       /\ \A a \in assigned' : a.member < next'
       /\ \A s \in synthesized' : s < next'
       /\ \A n \in m_to_report' \cup reports' : n < next'
  <2>1. m_to_report' # {} => m_curr_ctor_body' # Null
    BY <1>1, <1>5 DEF IMWaitingAreInitializable
  <2>2. \A a \in assigned' : a.member < next'
    <3>1. new.member < next'
      BY <1>2, <1>3, <1>6
    <3>2. \A a \in assigned : a.member < next'
      BY <1>2, <1>5, <1>6, Later
    <3> QED
      BY <1>1, <3>1, <3>2
  <2>3. \A s \in synthesized' : s < next'
    BY <1>1, <1>2, <1>5, <1>6, Later
  <2>4. \A n \in m_to_report' \cup reports' : n < next'
    <3>1. m_to_report' \cup reports' \subseteq m_to_report \cup reports \cup {next}
      BY <1>1
    <3>2. next < next'
      BY <1>2, <1>6
    <3> QED
      BY <1>2, <1>6, <3>1, <3>2, Later
  <2> QED
    BY <2>1, <2>2, <2>3, <2>4
<1>11. ASSUME NEW a \in assigned', a.member \in m_to_report'
       PROVE  /\ a.rhs # "uses local"
              /\ a.inside \/ \E s \in synthesized' : s < a.member
  <2>1. CASE a.member # next
    BY <1>1, <1>3, <1>5, <1>11, <2>1 DEF IMWaitingAreInitializable
  <2>2. CASE a.member = next
    <3>1. a = new
      <4>1. \A b \in assigned : b.member # next
        BY <1>2, <1>5, <1>6, Later
      <4> QED
        BY <1>1, <2>2, <4>1
    <3>2. m_curr_ctor_body # IM!Null /\ rhs # "uses local"
      <4>1. next \notin m_to_report
        BY <1>6
      <4> QED
        BY <1>1, <1>11, <2>2, <4>1
    <3>3. CASE m_curr_ctor_body \in synthesized
      <4>1. m_curr_ctor_body < next
        BY <1>5, <3>3
      <4> QED
        BY <1>1, <1>3, <2>2, <3>1, <3>2, <3>3, <4>1
    <3>4. CASE \E i \in 1..Len(open) : open[i] = [id |-> m_curr_ctor_body, kind |-> "ctor"]
      <4>1. IM!InsideOf({"ctor"})
        BY <3>4 DEF IM!InsideOf
      <4> QED
        BY <1>3, <3>1, <3>2, <4>1
    <3> QED
      BY <1>5, <3>2, <3>3, <3>4 DEF IM!CurrentBodyIsOpen
  <2> QED
    BY <2>1, <2>2
<1>12. IMWaitingAreInitializable'
  BY <1>10, <1>11 DEF IMWaitingAreInitializable
<1>13. IM!NothingIsLeftOver'
  <2>1. SUFFICES ASSUME synthesized' = {}, m_to_report' # {}
                 PROVE  IM!InsideOf({"ctor"})'
    BY DEF IM!NothingIsLeftOver
  <2>2. m_curr_ctor_body' # IM!Null
    BY <1>5, <1>10, <2>1
  <2>3. PICK i \in 1..Len(open') : open'[i] = [id |-> m_curr_ctor_body', kind |-> "ctor"]
    BY <1>8, <2>1, <2>2 DEF IM!CurrentBodyIsOpen, IM!Null
  <2> QED
    BY <2>3 DEF IM!InsideOf
<1> QED
  BY <1>2, <1>7, <1>8, <1>9, <1>12, <1>13 DEF IMInv

(* What is left: one open node less. *)
LEMMA IMLeave ==
  ASSUME IMInv, IM!LeaveStmt(IM!Kinds)
  PROVE  /\ IM!TraversalTypeOK(IM!Kinds)' /\ OpenIsOrdered' /\ next' = next
         /\ IM!Top(open) = open[Len(open)]
         /\ \A i \in 1..Len(open) :
              i = Len(open) \/ (i \in 1..Len(open') /\ open'[i] = open[i])
<1>1. open # <<>> /\ next' = next /\ open' = SubSeq(open, 1, Len(open) - 1) /\ OpenIsOrdered
  BY DEF IMInv, IM!LeaveStmt, IM!Pop
<1>2. /\ open' \in Seq([id : 1..FewNodes, kind : IM!Kinds]) /\ next' \in 1..(FewNodes + 1)
      /\ OpenIsOrdered'
      /\ \A i \in 1..Len(open') : i \in 1..Len(open) /\ open'[i] = open[i]
      /\ \A i \in 1..Len(open) : i \in 1..Len(open') \/ i = Len(open)
  BY <1>1, IMType, Popped
<1> QED
  BY <1>1, <1>2 DEF IM!TraversalTypeOK, IM!Nodes, IM!Top

LEMMA IMLeaveCtor ==
  ASSUME IMInv, IM!LeaveCtor
  PROVE  IMInv'
<1>1. /\ IM!LeaveStmt(IM!Kinds) /\ m_curr_ctor_body' = IM!Null
      /\ reports' = reports \cup m_to_report /\ m_to_report' = {}
      /\ UNCHANGED <<assigned, synthesized>>
  BY DEF IM!LeaveCtor
<1>2. IM!TraversalTypeOK(IM!Kinds)' /\ OpenIsOrdered' /\ next' = next
  BY <1>1, IMLeave
<1>3. IM!MembersAreInitializable /\ IMWaitingAreInitializable
  BY DEF IMInv
<1>4. IM!TypeOK'
  <2>1. reports' \subseteq IM!Nodes
    BY <1>1 DEF IMInv, IM!TypeOK
  <2>2. assigned' \subseteq IM!Assignment /\ synthesized' \subseteq IM!Nodes
    BY <1>1 DEF IMInv, IM!TypeOK
  <2>3. m_to_report' \subseteq IM!Nodes \ reports' /\ m_curr_ctor_body' \in IM!Nodes \cup {IM!Null}
    BY <1>1
  <2> QED
    BY <1>2, <2>1, <2>2, <2>3 DEF IM!TypeOK, IM!Nodes, IM!Null, IM!Assignment
<1>5. IM!CurrentBodyIsOpen'
  BY <1>1 DEF IM!CurrentBodyIsOpen, IM!Null
<1>6. IM!NothingIsLeftOver'
  BY <1>1 DEF IM!NothingIsLeftOver
<1>7. IM!MembersAreInitializable'
  BY <1>1, <1>3 DEF IM!MembersAreInitializable, IMWaitingAreInitializable
<1>8. IMWaitingAreInitializable'
  BY <1>1, <1>2, <1>3 DEF IMWaitingAreInitializable
<1> QED
  BY <1>2, <1>4, <1>5, <1>6, <1>7, <1>8 DEF IMInv

(* The current body stays open, since it is not the one that is left. *)
LEMMA IMLeaveOther ==
  ASSUME IMInv, IM!LeaveOther
  PROVE  IMInv'
<1>1. /\ IM!LeaveStmt(IM!Kinds) /\ m_curr_ctor_body # IM!Top(open).id
      /\ UNCHANGED <<m_curr_ctor_body, m_to_report, reports, assigned, synthesized>>
  BY DEF IM!LeaveOther
<1>2. /\ IM!TraversalTypeOK(IM!Kinds)' /\ OpenIsOrdered' /\ next' = next
      /\ IM!Top(open) = open[Len(open)]
      /\ \A i \in 1..Len(open) :
           i = Len(open) \/ (i \in 1..Len(open') /\ open'[i] = open[i])
  BY <1>1, IMLeave
<1>3. /\ synthesized \subseteq IM!Nodes
      /\ \A s \in synthesized : s \in Int /\ s < next
      /\ IM!CurrentBodyIsOpen
      /\ m_curr_ctor_body \in IM!Nodes \cup {IM!Null}
  BY IMType DEF IMInv, IM!TypeOK
<1>4. IM!CurrentBodyIsOpen'
  <2>1. CASE m_curr_ctor_body = IM!Null \/ m_curr_ctor_body \in synthesized
    BY <1>1, <2>1 DEF IM!CurrentBodyIsOpen, IM!Null
  <2>2. CASE \E i \in 1..Len(open) : open[i] = [id |-> m_curr_ctor_body, kind |-> "ctor"]
    <3>1. PICK i \in 1..Len(open) : open[i] = [id |-> m_curr_ctor_body, kind |-> "ctor"]
      BY <2>2
    <3>2. i # Len(open)
      BY <1>1, <1>2, <3>1
    <3>3. i \in 1..Len(open') /\ open'[i] = [id |-> m_curr_ctor_body', kind |-> "ctor"]
      BY <1>1, <1>2, <3>1, <3>2
    <3> QED
      BY <3>3 DEF IM!CurrentBodyIsOpen
  <2> QED
    BY <1>3, <2>1, <2>2 DEF IM!CurrentBodyIsOpen
<1>5. \A s \in synthesized' : s \in IM!Nodes /\ s < next'
  BY <1>1, <1>2, <1>3
<1> QED
  BY <1>1, <1>2, <1>3, <1>4, <1>5, IMQuiet

LEMMA IMInit ==
  ASSUME IM!Init
  PROVE  IMInv
<1>1. FewNodes \in Nat /\ open = <<>> /\ next = 1 /\ m_curr_ctor_body = IM!Null
      /\ m_to_report = {} /\ reports = {} /\ assigned = {} /\ synthesized = {}
  BY VisitorsAssumption DEF IM!Init, IM!TraversalInit
<1>2. \A S : <<>> \in Seq(S)
  OBVIOUS
<1>3. IM!TypeOK
  <2>1. IM!TraversalTypeOK(IM!Kinds)
    BY <1>1, <1>2 DEF IM!TraversalTypeOK
  <2> QED
    BY <1>1, <2>1 DEF IM!TypeOK
<1> QED
  BY <1>1, <1>3 DEF IMInv, OpenIsOrdered, IM!CurrentBodyIsOpen, IM!NothingIsLeftOver,
     IM!MembersAreInitializable, IMWaitingAreInitializable

LEMMA IMNext ==
  ASSUME IMInv, IM!Next
  PROVE  IMInv'
BY IMEnterCtor, IMVisitDefaultedCtor, IMEnterFunction, IMAssign, IMLeaveCtor, IMLeaveOther
   DEF IM!Next

LEMMA IMStutter ==
  ASSUME IMInv, UNCHANGED IM!vars
  PROVE  IMInv'
<1>1. UNCHANGED <<open, next, m_curr_ctor_body, m_to_report, reports, assigned, synthesized>>
  BY DEF IM!vars
<1>2. IM!TypeOK'
  BY <1>1 DEF IMInv, IM!TypeOK, IM!TraversalTypeOK, IM!Nodes, IM!Null, IM!Assignment
<1>3. OpenIsOrdered' /\ IM!CurrentBodyIsOpen' /\ IM!NothingIsLeftOver'
  BY <1>1 DEF IMInv, OpenIsOrdered, IM!CurrentBodyIsOpen, IM!NothingIsLeftOver,
     IM!InsideOf, IM!Null
<1> QED
  BY <1>1, <1>2, <1>3 DEF IMInv, IM!MembersAreInitializable, IMWaitingAreInitializable, Null

-----------------------------------------------------------------------------
(* MoveStringStreamVisitor.                                                 *)

MSOneDeclaration == \A i \in 1..Len(open) : open[i].kind = "decl" <=> i = 1

(* All that is kept is older than the next node; the block around a stream  *)
(* is not the declaration.                                                  *)
MSNodesAreSeen ==
  /\ \A s \in streams : s.decl < next
  /\ \A s \in streams :
       MS!Top(s.scope).id \in 1..(next - 1) /\ MS!Top(s.scope).kind # "decl"
  /\ \A u \in uses : u.decl < next
  /\ \A u \in uses : u.ref < next
  /\ \A d \in DOMAIN m_all_references_to_string_streams : d < next
  /\ \A n \in reports : n < next

(* The references of a stream are the uses that the visitor was shown, and  *)
(* its call is one of str().                                                *)
MSReferencesAreUses ==
  /\ \A u, w \in uses : u.ref = w.ref => u = w
  /\ \A s \in MS!InScope : s.decl \in DOMAIN m_all_references_to_string_streams
  /\ \A d \in DOMAIN m_all_references_to_string_streams : \A n :
       (\E i \in 1..Len(m_all_references_to_string_streams[d]) :
          m_all_references_to_string_streams[d][i] = n)
       <=> (\E u \in uses : u.decl = d /\ u.ref = n /\ ~u.hidden)
  /\ \A d \in DOMAIN m_decl_refs_to_string_streams_on_str_calls :
       \E u \in uses :
         u.decl = d /\ u.ref = m_decl_refs_to_string_streams_on_str_calls[d] /\ u.str

(* A stream that was reported is out of scope, and stays so. *)
MSReportedIsOver ==
  \A u \in uses : u.ref \in reports => \A s \in MS!InScope : s.decl # u.decl

MSInv ==
  /\ MS!TypeOK /\ OpenIsOrdered /\ MS!StrCallsAreReferences /\ MS!ReportsAreLastSeen
  /\ MSOneDeclaration /\ MSNodesAreSeen /\ MSReferencesAreUses /\ MSReportedIsOver

(* What the types say. *)
LEMMA MSType ==
  ASSUME MSInv
  PROVE  /\ MaxNodes \in Nat /\ MS!Nodes = 1..MaxNodes
         /\ open \in Seq([id : 1..MaxNodes, kind : MS!Kinds])
         /\ next \in 1..(MaxNodes + 1) /\ Len(open) \in Nat
         /\ \A i \in 1..Len(open) : open[i].id \in 1..MaxNodes /\ open[i].kind \in MS!Kinds
         /\ \A s \in streams : s.decl \in 1..MaxNodes /\ s.decl < next
         /\ \A u \in uses : u.decl \in 1..MaxNodes /\ u.ref \in 1..MaxNodes
                            /\ u.decl < next /\ u.ref < next
         /\ DOMAIN m_all_references_to_string_streams \subseteq 1..MaxNodes
         /\ \A d \in DOMAIN m_all_references_to_string_streams : d < next
         /\ \A d \in DOMAIN m_all_references_to_string_streams :
              m_all_references_to_string_streams[d] \in Seq(1..MaxNodes)
         /\ \A n \in reports : n \in 1..MaxNodes /\ n < next
         /\ OpenIsOrdered /\ MSOneDeclaration /\ MSReferencesAreUses /\ MSReportedIsOver
<1>1. /\ MaxNodes \in Nat /\ MS!Nodes = 1..MaxNodes
      /\ open \in Seq([id : 1..MaxNodes, kind : MS!Kinds])
      /\ next \in 1..(MaxNodes + 1)
      /\ streams \subseteq MS!Stream /\ uses \subseteq MS!Use /\ reports \subseteq 1..MaxNodes
      /\ DOMAIN m_all_references_to_string_streams \subseteq 1..MaxNodes
  BY TraversalAssumption DEF MSInv, MS!TypeOK, MS!TraversalTypeOK, MS!Nodes
<1>2. /\ Len(open) \in Nat
      /\ \A i \in 1..Len(open) : open[i].id \in 1..MaxNodes /\ open[i].kind \in MS!Kinds
  BY <1>1, OpenNodes
<1>3. \A s \in streams : s.decl \in 1..MaxNodes
  BY <1>1 DEF MS!Stream
<1>4. \A u \in uses : u.decl \in 1..MaxNodes /\ u.ref \in 1..MaxNodes
  BY <1>1 DEF MS!Use
<1>5. \A d \in DOMAIN m_all_references_to_string_streams :
        m_all_references_to_string_streams[d] \in Seq(1..MaxNodes)
  BY <1>1 DEF MSInv, MS!TypeOK
<1>6. MSNodesAreSeen
  BY DEF MSInv
<1>7. /\ \A s \in streams : s.decl < next
      /\ \A u \in uses : u.decl < next /\ u.ref < next
      /\ \A d \in DOMAIN m_all_references_to_string_streams : d < next
      /\ \A n \in reports : n < next
  BY <1>6 DEF MSNodesAreSeen
<1>8. OpenIsOrdered /\ MSOneDeclaration /\ MSReferencesAreUses /\ MSReportedIsOver
  BY DEF MSInv
<1> QED
  BY <1>1, <1>2, <1>3, <1>4, <1>5, <1>7, <1>8

(* What is in scope was in scope, if the nodes that are new are a           *)
(* declaration or the next node.                                            *)
LEMMA MSScope ==
  ASSUME MSNodesAreSeen, next \in Int, streams' = streams,
         \A i \in 1..Len(open') :
           \/ i \in 1..Len(open) /\ open'[i] = open[i]
           \/ open'[i].id = next
           \/ open'[i].kind = "decl"
  PROVE  MS!InScope' \subseteq MS!InScope
<1>1. SUFFICES ASSUME NEW s \in streams, NEW i \in 1..Len(open'), open'[i] = MS!Top(s.scope)
               PROVE  s \in MS!InScope
  <2> HIDE DEF MS!Top
  <2> QED
    BY DEF MS!InScope, MS!Top
<1>2. MS!Top(s.scope).id < next /\ MS!Top(s.scope).kind # "decl"
  BY DEF MSNodesAreSeen
<1>3. open'[i].id # next
  BY <1>1, <1>2
<1> QED
  BY <1>1, <1>2, <1>3 DEF MS!InScope

(* No other node is as old as those that are kept. *)
LEMMA MSSeenLater ==
  ASSUME MSInv, next' \in {next, next + 1},
         UNCHANGED <<reports, streams, uses>>,
         DOMAIN m_all_references_to_string_streams' \subseteq
           DOMAIN m_all_references_to_string_streams
  PROVE  MSNodesAreSeen'
<1>1. next \in Int /\ next <= next'
  BY MSType
<1>2. /\ \A s \in streams : s.decl < next'
      /\ \A u \in uses : u.decl < next'
      /\ \A u \in uses : u.ref < next'
      /\ \A d \in DOMAIN m_all_references_to_string_streams : d < next'
      /\ \A n \in reports : n < next'
  BY <1>1, MSType, Later
<1>3. \A s \in streams : MS!Top(s.scope).id \in 1..(next' - 1) /\ MS!Top(s.scope).kind # "decl"
  <2>1. TAKE s \in streams
  <2>2. MS!Top(s.scope).id \in 1..(next - 1) /\ MS!Top(s.scope).kind # "decl"
    BY DEF MSInv, MSNodesAreSeen
  <2> QED
    BY <1>1, <2>2
<1> QED
  BY <1>2, <1>3 DEF MSNodesAreSeen, MS!Top

(* The nodes that are open after one more was entered. *)
LEMMA MSEnter ==
  ASSUME MSInv, MS!Visit, NEW k \in MS!Kinds,
         open' = Append(open, [id |-> next, kind |-> k]),
         k = "decl" <=> open = <<>>
  PROVE  /\ MS!TraversalTypeOK(MS!Kinds)' /\ OpenIsOrdered' /\ next' = next + 1
         /\ MSOneDeclaration'
         /\ \A i \in 1..Len(open') :
              \/ i \in 1..Len(open) /\ open'[i] = open[i]
              \/ open'[i].id = next
         /\ open = <<>> => \A i \in 1..Len(open') : open'[i].kind = "decl"
<1>1. next' = next + 1 /\ next <= MaxNodes /\ OpenIsOrdered /\ MSOneDeclaration
  BY DEF MSInv, MS!Visit
<1>2. /\ open' \in Seq([id : 1..MaxNodes, kind : MS!Kinds]) /\ next' \in 1..(MaxNodes + 1)
      /\ OpenIsOrdered' /\ Len(open) \in Nat
      /\ \A i \in 1..Len(open) : i \in 1..Len(open') /\ open'[i] = open[i] /\ i # Len(open')
      /\ open'[Len(open')].id = next /\ open'[Len(open')].kind = k
      /\ \A i \in 1..Len(open') : i \in 1..Len(open) \/ i = Len(open')
  <2>1. /\ MaxNodes \in Nat /\ open \in Seq([id : 1..MaxNodes, kind : MS!Kinds])
        /\ next \in 1..(MaxNodes + 1)
    BY MSType
  <2>2. open' = Append(open, [id |-> next, kind |-> k])
    OBVIOUS
  <2> QED
    BY <1>1, <2>1, <2>2, Pushed
<1>3. Len(open') = Len(open) + 1 /\ (open = <<>> <=> Len(open) = 0)
  BY <1>1, MSType
<1>4. MSOneDeclaration'
  BY <1>1, <1>2, <1>3 DEF MSOneDeclaration
<1>5. open = <<>> => \A i \in 1..Len(open') : open'[i].kind = "decl"
  BY <1>2, <1>3
<1> QED
  BY <1>1, <1>2, <1>4, <1>5 DEF MS!TraversalTypeOK, MS!Nodes

LEMMA MSLeave ==
  ASSUME MSInv, NEW k \in MS!Kinds, MS!LeaveStmt({k})
  PROVE  /\ MS!TraversalTypeOK(MS!Kinds)' /\ OpenIsOrdered' /\ next' = next
         /\ MSOneDeclaration'
         /\ \A i \in 1..Len(open') : i \in 1..Len(open) /\ open'[i] = open[i]
         /\ k = "decl" => Len(open') = 0
<1>1. /\ open # <<>> /\ next' = next /\ open' = SubSeq(open, 1, Len(open) - 1) /\ OpenIsOrdered
      /\ open[Len(open)].kind = k
  BY DEF MSInv, MS!LeaveStmt, MS!Pop, MS!Top
<1>2. /\ open' \in Seq([id : 1..MaxNodes, kind : MS!Kinds]) /\ next' \in 1..(MaxNodes + 1)
      /\ OpenIsOrdered'
      /\ \A i \in 1..Len(open') : i \in 1..Len(open) /\ open'[i] = open[i]
      /\ Len(open) \in 1..Len(open)
  BY <1>1, MSType, Popped
<1>3. MSOneDeclaration'
  BY <1>2, MSType DEF MSOneDeclaration
<1>4. k = "decl" => Len(open') = 0
  <2>1. SUFFICES ASSUME k = "decl" PROVE Len(open') = 0
    OBVIOUS
  <2>2. Len(open) = 1
    BY <1>1, <1>2, <2>1, MSType DEF MSOneDeclaration
  <2>3. Len(open') = Len(open) - 1 /\ Len(open) \in Nat
    BY <1>1, MSType, PopBack
  <2>4. 1 - 1 = 0
    OBVIOUS
  <2> QED
    BY <2>2, <2>3, <2>4
<1> QED
  BY <1>1, <1>2, <1>3, <1>4 DEF MS!TraversalTypeOK, MS!Nodes

LEMMA MSVisitLeaf ==
  ASSUME MSInv, MS!VisitLeaf
  PROVE  /\ MS!TraversalTypeOK(MS!Kinds)' /\ OpenIsOrdered' /\ MSOneDeclaration'
         /\ next' = next + 1 /\ next \in MS!Nodes /\ open' = open
<1>1. next' = next + 1 /\ next <= MaxNodes /\ open' = open
  BY DEF MS!Visit, MS!VisitLeaf
<1>2. /\ open \in Seq([id : 1..MaxNodes, kind : MS!Kinds]) /\ next \in 1..(MaxNodes + 1)
      /\ MaxNodes \in Nat /\ OpenIsOrdered /\ MSOneDeclaration
  BY MSType
<1>3. open' \in Seq([id : 1..MaxNodes, kind : MS!Kinds]) /\ OpenIsOrdered'
      /\ next' \in 1..(MaxNodes + 1)
  BY <1>1, <1>2, Stayed
<1>4. MSOneDeclaration' /\ next \in MS!Nodes
  BY <1>1, <1>2 DEF MSOneDeclaration, MS!Nodes
<1> QED
  BY <1>1, <1>3, <1>4 DEF MS!TraversalTypeOK, MS!Nodes

(* Nodes are entered or left, and the maps are kept or cleared. *)
LEMMA MSQuiet ==
  ASSUME MSInv, MS!TraversalTypeOK(MS!Kinds)', OpenIsOrdered', MSOneDeclaration',
         next' \in {next, next + 1}, UNCHANGED <<reports, streams, uses>>,
         \/ /\ m_all_references_to_string_streams' = m_all_references_to_string_streams
            /\ m_decl_refs_to_string_streams_on_str_calls' =
                 m_decl_refs_to_string_streams_on_str_calls
            /\ MS!InScope' \subseteq MS!InScope
         \/ /\ m_all_references_to_string_streams' = <<>>
            /\ m_decl_refs_to_string_streams_on_str_calls' = <<>>
            /\ MS!InScope' = {}
  PROVE  MSInv'
<1>a. /\ MS!TypeOK /\ MS!StrCallsAreReferences /\ MS!ReportsAreLastSeen
      /\ MSReferencesAreUses /\ MSReportedIsOver
  BY DEF MSInv
<1>1. MS!ReportsAreLastSeen'
  BY <1>a DEF MS!ReportsAreLastSeen
<1>2. MSReportedIsOver'
  <2>1. MS!InScope' \subseteq MS!InScope
    OBVIOUS
  <2> QED
    BY <1>a, <2>1 DEF MSReportedIsOver
<1>3. CASE /\ m_all_references_to_string_streams' = m_all_references_to_string_streams
           /\ m_decl_refs_to_string_streams_on_str_calls' =
                m_decl_refs_to_string_streams_on_str_calls
           /\ MS!InScope' \subseteq MS!InScope
  <2>1. MS!TypeOK'
    BY <1>3, <1>a DEF MS!TypeOK, MS!Nodes, MS!Stream, MS!Use
  <2>2. MS!StrCallsAreReferences'
    BY <1>3, <1>a DEF MS!StrCallsAreReferences
  <2>3. MSReferencesAreUses'
    BY <1>3, <1>a DEF MSReferencesAreUses
  <2>4. MSNodesAreSeen'
    BY <1>3, MSSeenLater
  <2> QED
    BY <1>1, <1>2, <2>1, <2>2, <2>3, <2>4 DEF MSInv
<1>4. CASE /\ m_all_references_to_string_streams' = <<>>
           /\ m_decl_refs_to_string_streams_on_str_calls' = <<>>
           /\ MS!InScope' = {}
  <2>1. /\ DOMAIN m_all_references_to_string_streams' = {}
        /\ DOMAIN m_decl_refs_to_string_streams_on_str_calls' = {}
    BY <1>4
  <2>2. MS!TypeOK'
    BY <1>a, <2>1 DEF MS!TypeOK, MS!Nodes, MS!Stream, MS!Use
  <2>3. MS!StrCallsAreReferences'
    BY <2>1 DEF MS!StrCallsAreReferences
  <2>4. MSReferencesAreUses'
    BY <1>4, <1>a, <2>1 DEF MSReferencesAreUses
  <2>5. MSNodesAreSeen'
    BY <2>1, MSSeenLater
  <2> QED
    BY <1>1, <1>2, <2>2, <2>3, <2>4, <2>5 DEF MSInv
<1> QED
  BY <1>3, <1>4

LEMMA MSBeginDeclaration ==
  ASSUME MSInv, MS!BeginDeclaration
  PROVE  MSInv'
<1>1. /\ open = <<>> /\ MS!Visit /\ open' = Append(open, [id |-> next, kind |-> "decl"])
      /\ m_all_references_to_string_streams' = <<>>
      /\ m_decl_refs_to_string_streams_on_str_calls' = <<>>
      /\ UNCHANGED <<reports, streams, uses>>
  BY DEF MS!BeginDeclaration, MS!Enter, MS!clear
<1>2. "decl" \in MS!Kinds
  BY DEF MS!Kinds
<1>3. /\ MS!TraversalTypeOK(MS!Kinds)' /\ OpenIsOrdered' /\ next' = next + 1
      /\ MSOneDeclaration' /\ \A i \in 1..Len(open') : open'[i].kind = "decl"
  BY <1>1, <1>2, MSEnter
<1>4. MS!InScope' = {}
  <2>1. \A s \in streams' : MS!Top(s.scope).kind # "decl"
    BY <1>1 DEF MSInv, MSNodesAreSeen
  <2> HIDE DEF MS!Top
  <2> QED
    BY <1>3, <2>1 DEF MS!InScope, MS!Top
<1> QED
  BY <1>1, <1>3, <1>4, MSQuiet

LEMMA MSEnterBlock ==
  ASSUME MSInv, MS!EnterBlock
  PROVE  MSInv'
<1>1. /\ open # <<>> /\ MS!Visit /\ open' = Append(open, [id |-> next, kind |-> "block"])
      /\ m_all_references_to_string_streams' = m_all_references_to_string_streams
      /\ m_decl_refs_to_string_streams_on_str_calls' =
           m_decl_refs_to_string_streams_on_str_calls
      /\ UNCHANGED <<reports, streams, uses>>
  BY DEF MS!EnterBlock, MS!Enter, MS!maps
<1>2. "block" \in MS!Kinds
  BY DEF MS!Kinds
<1>3. /\ MS!TraversalTypeOK(MS!Kinds)' /\ OpenIsOrdered' /\ next' = next + 1
      /\ MSOneDeclaration'
      /\ \A i \in 1..Len(open') :
           \/ i \in 1..Len(open) /\ open'[i] = open[i]
           \/ open'[i].id = next
  BY <1>1, <1>2, MSEnter
<1>4. MS!InScope' \subseteq MS!InScope
  <2>1. MSNodesAreSeen /\ next \in Int
    BY MSType DEF MSInv
  <2> QED
    BY <1>1, <1>3, <2>1, MSScope
<1> QED
  BY <1>1, <1>3, <1>4, MSQuiet

LEMMA MSLeaveBlock ==
  ASSUME MSInv, MS!LeaveBlock
  PROVE  MSInv'
<1>1. /\ MS!LeaveStmt({"block"})
      /\ m_all_references_to_string_streams' = m_all_references_to_string_streams
      /\ m_decl_refs_to_string_streams_on_str_calls' =
           m_decl_refs_to_string_streams_on_str_calls
      /\ UNCHANGED <<reports, streams, uses>>
  BY DEF MS!LeaveBlock, MS!maps
<1>2. "block" \in MS!Kinds
  BY DEF MS!Kinds
<1>3. /\ MS!TraversalTypeOK(MS!Kinds)' /\ OpenIsOrdered' /\ next' = next
      /\ MSOneDeclaration'
      /\ \A i \in 1..Len(open') : i \in 1..Len(open) /\ open'[i] = open[i]
  BY <1>1, <1>2, MSLeave
<1>4. MS!InScope' \subseteq MS!InScope
  <2>1. MSNodesAreSeen /\ next \in Int
    BY MSType DEF MSInv
  <2> QED
    BY <1>1, <1>3, <2>1, MSScope
<1> QED
  BY <1>1, <1>3, <1>4, MSQuiet

LEMMA MSVisitVarDecl ==
  ASSUME MSInv, MS!VisitVarDecl
  PROVE  MSInv'
<1> DEFINE all == m_all_references_to_string_streams
           calls == m_decl_refs_to_string_streams_on_str_calls
           new == [decl |-> next, scope |-> open]
<1>1. /\ open # <<>> /\ open[Len(open)].kind # "decl" /\ MS!VisitLeaf
      /\ all' = MS!Emplace(all, next, <<>>) /\ streams' = streams \cup {new}
      /\ UNCHANGED <<calls, reports, uses>>
  BY DEF MS!VisitVarDecl, MS!Top
<1>2. /\ MS!TraversalTypeOK(MS!Kinds)' /\ OpenIsOrdered' /\ MSOneDeclaration'
      /\ next' = next + 1 /\ next \in MS!Nodes /\ open' = open
  BY <1>1, MSVisitLeaf
<1>a. /\ MS!TypeOK /\ MS!StrCallsAreReferences /\ MS!ReportsAreLastSeen
      /\ MSReferencesAreUses /\ MSReportedIsOver /\ MSNodesAreSeen
  BY DEF MSInv
<1>b. /\ MS!Nodes = 1..MaxNodes /\ next \in Int /\ next < next'
      /\ \A s \in streams : s.decl \in Int /\ s.decl < next
      /\ \A u \in uses : u.decl \in Int /\ u.ref \in Int /\ u.decl < next /\ u.ref < next
      /\ \A d \in DOMAIN all : d \in Int /\ d < next
      /\ \A n \in reports : n \in Int /\ n < next
  BY <1>2, MSType
<1>3. new.decl = next /\ new.scope = open
  OBVIOUS
<1>4. /\ DOMAIN all' = DOMAIN all \cup {next} /\ next \notin DOMAIN all
      /\ \A d \in DOMAIN all : all'[d] = all[d]
      /\ all'[next] = <<>>
  <2>1. next \notin DOMAIN all
    BY <1>b
  <2> QED
    BY <1>1, <2>1 DEF MS!Emplace
<1>5. new \in MS!Stream
  BY <1>2, MSType DEF MS!Stream
<1> HIDE DEF new
<1>6. MS!TypeOK'
  <2>1. DOMAIN all' \subseteq MS!Nodes
    BY <1>2, <1>4, <1>a DEF MS!TypeOK
  <2>2. ASSUME NEW d \in DOMAIN all'
        PROVE  /\ all'[d] \in Seq(MS!Nodes)
               /\ \A i, j \in 1..Len(all'[d]) : i < j => all'[d][i] < all'[d][j]
    <3>1. CASE d = next
      BY <1>4, <3>1
    <3>2. CASE d \in DOMAIN all
      BY <1>4, <1>a, <3>2 DEF MS!TypeOK
    <3> QED
      BY <1>4, <3>1, <3>2
  <2>3. streams' \subseteq MS!Stream
    BY <1>1, <1>5, <1>a DEF MS!TypeOK
  <2>4. /\ DOMAIN calls' \subseteq MS!Nodes /\ \A d \in DOMAIN calls' : calls'[d] \in MS!Nodes
        /\ reports' \subseteq MS!Nodes /\ uses' \subseteq MS!Use
    BY <1>1, <1>a DEF MS!TypeOK
  <2> QED
    BY <1>2, <2>1, <2>2, <2>3, <2>4 DEF MS!TypeOK, MS!Nodes, MS!Stream, MS!Use
<1>7. MS!StrCallsAreReferences'
  <2>1. \A d \in DOMAIN calls : d \in DOMAIN all
    BY <1>a DEF MS!StrCallsAreReferences
  <2>2. \A d \in DOMAIN calls : \E i \in 1..Len(all[d]) : all[d][i] = calls[d]
    BY <1>a DEF MS!StrCallsAreReferences
  <2>3. \A d \in DOMAIN calls :
          d \in DOMAIN all' /\ \E i \in 1..Len(all'[d]) : all'[d][i] = calls[d]
    BY <1>4, <2>1, <2>2
  <2> QED
    BY <1>1, <2>3 DEF MS!StrCallsAreReferences
<1>8. MS!ReportsAreLastSeen'
  BY <1>1, <1>a DEF MS!ReportsAreLastSeen
<1>9. MSNodesAreSeen'
  <2>1. /\ \A s \in streams' : s.decl < next'
        /\ \A u \in uses : u.decl < next'
        /\ \A u \in uses : u.ref < next'
        /\ \A d \in DOMAIN all' : d < next'
        /\ \A n \in reports : n < next'
    BY <1>1, <1>2, <1>3, <1>4, <1>b, Later
  <2>2. open[Len(open)].id \in 1..(next' - 1)
    <3>1. /\ open \in Seq([id : 1..MaxNodes, kind : MS!Kinds])
          /\ Len(open) \in 1..Len(open) => /\ open[Len(open)].id \in 1..MaxNodes
                                           /\ open[Len(open)].id < next
      BY MSType DEF OpenIsOrdered
    <3>2. Len(open) \in 1..Len(open)
      BY <1>1, <3>1, Back
    <3> QED
      BY <1>2, <1>b, <3>1, <3>2
  <2>3. \A s \in streams : MS!Top(s.scope).id \in 1..(next' - 1) /\ MS!Top(s.scope).kind # "decl"
    <3>1. TAKE s \in streams
    <3>2. MS!Top(s.scope).id \in 1..(next - 1) /\ MS!Top(s.scope).kind # "decl"
      BY <1>a DEF MSNodesAreSeen
    <3> QED
      BY <1>2, <1>b, <3>2
  <2>4. MS!Top(new.scope).id \in 1..(next' - 1) /\ MS!Top(new.scope).kind # "decl"
    BY <1>1, <1>3, <2>2 DEF MS!Top
  <2> HIDE DEF MS!Top
  <2>5. \A s \in streams' : MS!Top(s.scope).id \in 1..(next' - 1) /\ MS!Top(s.scope).kind # "decl"
    BY <1>1, <2>3, <2>4
  <2> QED
    BY <1>1, <2>1, <2>5 DEF MSNodesAreSeen, MS!Top
<1>10. MS!InScope' \subseteq MS!InScope \cup {new}
  BY <1>1, <1>2 DEF MS!InScope, MS!Top
<1>11. MSReferencesAreUses'
  <2>1. \A u, w \in uses' : u.ref = w.ref => u = w
    BY <1>1, <1>a DEF MSReferencesAreUses
  <2>2. \A s \in MS!InScope' : s.decl \in DOMAIN all'
    <3>1. \A s \in MS!InScope : s.decl \in DOMAIN all
      BY <1>a DEF MSReferencesAreUses
    <3> QED
      BY <1>3, <1>4, <1>10, <3>1
  <2>3. ASSUME NEW d \in DOMAIN all', NEW n
        PROVE  (\E i \in 1..Len(all'[d]) : all'[d][i] = n)
               <=> (\E u \in uses' : u.decl = d /\ u.ref = n /\ ~u.hidden)
    <3>1. CASE d = next
      <4>1. ~ \E i \in 1..Len(all'[d]) : all'[d][i] = n
        BY <1>4, <3>1
      <4>2. \A u \in uses' : u.decl # d
        BY <1>1, <1>b, <3>1
      <4> QED
        BY <4>1, <4>2
    <3>2. CASE d \in DOMAIN all
      <4>1. all'[d] = all[d]
        BY <1>4, <3>2
      <4> QED
        BY <1>1, <1>a, <3>2, <4>1 DEF MSReferencesAreUses
    <3> QED
      BY <1>4, <3>1, <3>2
  <2>4. \A d \in DOMAIN calls' : \E u \in uses' : u.decl = d /\ u.ref = calls'[d] /\ u.str
    BY <1>1, <1>a DEF MSReferencesAreUses
  <2> QED
    BY <2>1, <2>2, <2>3, <2>4 DEF MSReferencesAreUses
<1>12. MSReportedIsOver'
  <2>1. \A u \in uses : u.decl # next
    BY <1>b
  <2> QED
    BY <1>1, <1>3, <1>10, <1>a, <2>1 DEF MSReportedIsOver
<1> QED
  BY <1>2, <1>6, <1>7, <1>8, <1>9, <1>11, <1>12 DEF MSInv

(* A reference to a stream in scope, which was not reported before.  The    *)
(* visitor is shown it, or it is hidden; it may be the first of str().      *)
LEMMA MSUse ==
  ASSUME MSInv, MS!VisitLeaf, NEW s \in MS!InScope,
         NEW str \in BOOLEAN, NEW hidden \in BOOLEAN,
         uses' = uses \cup {[decl |-> s.decl, ref |-> next, str |-> str, hidden |-> hidden]},
         UNCHANGED <<reports, streams>>,
         m_all_references_to_string_streams' =
           IF hidden THEN m_all_references_to_string_streams
           ELSE [m_all_references_to_string_streams EXCEPT ![s.decl] = Append(@, next)],
         \/ m_decl_refs_to_string_streams_on_str_calls' =
              m_decl_refs_to_string_streams_on_str_calls
         \/ /\ str /\ ~hidden
            /\ m_decl_refs_to_string_streams_on_str_calls' =
                 MS!Emplace(m_decl_refs_to_string_streams_on_str_calls, s.decl, next)
  PROVE  MSInv'
<1> DEFINE all == m_all_references_to_string_streams
           calls == m_decl_refs_to_string_streams_on_str_calls
           new == [decl |-> s.decl, ref |-> next, str |-> str, hidden |-> hidden]
<1>2. /\ MS!TraversalTypeOK(MS!Kinds)' /\ OpenIsOrdered' /\ MSOneDeclaration'
      /\ next' = next + 1 /\ next \in MS!Nodes /\ open' = open
  BY MSVisitLeaf
<1>a. /\ MS!TypeOK /\ MS!StrCallsAreReferences /\ MS!ReportsAreLastSeen
      /\ MSReferencesAreUses /\ MSReportedIsOver /\ MSNodesAreSeen
  BY DEF MSInv
<1>b. /\ MS!Nodes = 1..MaxNodes /\ next \in Int /\ next < next'
      /\ \A t \in streams : t.decl \in Int /\ t.decl \in MS!Nodes /\ t.decl < next
      /\ \A u \in uses : u.decl \in Int /\ u.ref \in Int /\ u.decl < next /\ u.ref < next
      /\ \A d \in DOMAIN all : d \in Int /\ d < next
      /\ \A d \in DOMAIN all : all[d] \in Seq(MS!Nodes)
      /\ \A n \in reports : n \in Int /\ n < next
  BY <1>2, MSType
<1>c. s \in streams /\ s.decl \in DOMAIN all
  BY <1>a DEF MS!InScope, MSReferencesAreUses
<1>3. new.decl = s.decl /\ new.ref = next /\ new.str = str /\ new.hidden = hidden
  OBVIOUS
<1>4. new \in MS!Use
  BY <1>2, <1>b, <1>c DEF MS!Use
<1>1. uses' = uses \cup {new}
  OBVIOUS
<1> HIDE DEF new
<1>5. /\ DOMAIN all' = DOMAIN all
      /\ \A d \in DOMAIN all : d # s.decl \/ hidden => all'[d] = all[d]
      /\ ~hidden => all'[s.decl] = Append(all[s.decl], next)
  BY <1>c
<1>6. /\ \A d \in DOMAIN all : all'[d] \in Seq(MS!Nodes)
      /\ \A d \in DOMAIN all :
           \A i \in 1..Len(all[d]) : i \in 1..Len(all'[d]) /\ all'[d][i] = all[d][i]
      /\ ~hidden => \E i \in 1..Len(all'[s.decl]) : all'[s.decl][i] = next
      /\ \A d \in DOMAIN all : \A i \in 1..Len(all'[d]) :
           \/ i \in 1..Len(all[d])
           \/ /\ i = Len(all'[d]) /\ all'[d][i] = next /\ d = s.decl /\ ~hidden
              /\ i \in Int
  <2>1. CASE hidden
    BY <1>5, <1>b, <2>1
  <2>2. CASE ~hidden
    <3>1. all[s.decl] \in Seq(MS!Nodes)
      BY <1>b, <1>c
    <3>2. /\ all'[s.decl] \in Seq(MS!Nodes)
          /\ \A i \in 1..Len(all[s.decl]) :
               i \in 1..Len(all'[s.decl]) /\ all'[s.decl][i] = all[s.decl][i]
          /\ Len(all'[s.decl]) \in 1..Len(all'[s.decl])
          /\ all'[s.decl][Len(all'[s.decl])] = next
          /\ \A i \in 1..Len(all'[s.decl]) : i \in 1..Len(all[s.decl]) \/ i = Len(all'[s.decl])
      BY <1>2, <1>5, <2>2, <3>1, Grown
    <3>3. \A d \in DOMAIN all : d # s.decl => all'[d] = all[d]
      BY <1>5
    <3> QED
      BY <1>b, <2>2, <3>2, <3>3
  <2> QED
    BY <2>1, <2>2
<1>7. /\ \/ calls' = calls
         \/ str /\ ~hidden
      /\ DOMAIN calls' \subseteq DOMAIN calls \cup {s.decl}
      /\ \A d \in DOMAIN calls' :
           \/ d \in DOMAIN calls /\ calls'[d] = calls[d]
           \/ d = s.decl /\ calls'[d] = next /\ str /\ ~hidden
  BY DEF MS!Emplace
<1>8. MS!TypeOK'
  <2>1. \A d \in DOMAIN all : \A i \in 1..Len(all[d]) : all[d][i] \in Int /\ all[d][i] < next
    <3>1. TAKE d \in DOMAIN all
    <3>2. TAKE i \in 1..Len(all[d])
    <3>3. PICK u \in uses : u.ref = all[d][i]
      <4> DEFINE n == all[d][i]
      <4>1. \E j \in 1..Len(all[d]) : all[d][j] = n
        OBVIOUS
      <4> HIDE DEF n
      <4>2. \E u \in uses : u.decl = d /\ u.ref = n /\ ~u.hidden
        BY <1>a, <4>1 DEF MSReferencesAreUses
      <4> QED
        BY <4>2 DEF n
    <3> QED
      BY <1>b, <3>3
  <2>2. ASSUME NEW d \in DOMAIN all'
        PROVE  \A i, j \in 1..Len(all'[d]) : i < j => all'[d][i] < all'[d][j]
    <3>1. TAKE i, j \in 1..Len(all'[d])
    <3>2. HAVE i < j
    <3>3. d \in DOMAIN all
      BY <1>5
    <3>4. CASE i \in 1..Len(all[d]) /\ j \in 1..Len(all[d])
      <4>1. all[d][i] < all[d][j]
        BY <1>a, <3>2, <3>3, <3>4 DEF MS!TypeOK
      <4> QED
        BY <1>6, <3>3, <3>4, <4>1
    <3>5. CASE i \in 1..Len(all[d]) /\ all'[d][j] = next
      <4>1. all[d][i] < next /\ all'[d][i] = all[d][i]
        BY <1>6, <2>1, <3>3, <3>5
      <4> QED
        BY <3>5, <4>1
    <3>6. CASE i = Len(all'[d])
      <4>1. Len(all'[d]) \in Nat
        BY <1>6, <3>3
      <4> QED
        BY <3>2, <3>6, <4>1
    <3> QED
      BY <1>6, <3>3, <3>4, <3>5, <3>6
  <2>3. \A d \in DOMAIN all' : all'[d] \in Seq(MS!Nodes)
    BY <1>5, <1>6
  <2>4. DOMAIN all' \subseteq MS!Nodes
    BY <1>5, <1>a DEF MS!TypeOK
  <2>5. DOMAIN calls' \subseteq MS!Nodes /\ \A d \in DOMAIN calls' : calls'[d] \in MS!Nodes
    <3>1. DOMAIN calls \subseteq MS!Nodes /\ \A d \in DOMAIN calls : calls[d] \in MS!Nodes
      BY <1>a DEF MS!TypeOK
    <3> QED
      BY <1>2, <1>7, <1>b, <1>c, <3>1
  <2>6. reports' \subseteq MS!Nodes /\ streams' \subseteq MS!Stream /\ uses' \subseteq MS!Use
    BY <1>1, <1>4, <1>a DEF MS!TypeOK
  <2> QED
    BY <1>2, <2>2, <2>3, <2>4, <2>5, <2>6 DEF MS!TypeOK, MS!Nodes, MS!Stream, MS!Use
<1>9. MS!StrCallsAreReferences'
  <2>1. ASSUME NEW d \in DOMAIN calls'
        PROVE  d \in DOMAIN all' /\ \E i \in 1..Len(all'[d]) : all'[d][i] = calls'[d]
    <3>1. CASE d \in DOMAIN calls /\ calls'[d] = calls[d]
      <4>1. d \in DOMAIN all
        BY <1>a, <3>1 DEF MS!StrCallsAreReferences
      <4>2. PICK i \in 1..Len(all[d]) : all[d][i] = calls[d]
        BY <1>a, <3>1 DEF MS!StrCallsAreReferences
      <4> QED
        BY <1>5, <1>6, <3>1, <4>1, <4>2
    <3>2. CASE d = s.decl /\ calls'[d] = next /\ str /\ ~hidden
      BY <1>5, <1>6, <1>c, <3>2
    <3> QED
      BY <1>7, <2>1, <3>1, <3>2
  <2> QED
    BY <2>1 DEF MS!StrCallsAreReferences
<1>10. next \notin reports
  BY <1>b
<1>11. MS!ReportsAreLastSeen'
  <2>1. ASSUME NEW u \in uses', u.ref \in reports
        PROVE  /\ u.str
               /\ \A w \in uses' : w.decl = u.decl /\ w.ref > u.ref => w.hidden
    <3>1. u \in uses
      BY <1>1, <1>3, <1>10, <2>1
    <3>2. u.decl # s.decl
      BY <1>a, <2>1, <3>1 DEF MSReportedIsOver
    <3>3. /\ u.str
          /\ \A w \in uses : w.decl = u.decl /\ w.ref > u.ref => w.hidden
      BY <1>a, <2>1, <3>1 DEF MS!ReportsAreLastSeen
    <3> QED
      BY <1>1, <1>3, <3>2, <3>3
  <2> QED
    BY <2>1 DEF MS!ReportsAreLastSeen
<1>12. MS!InScope' = MS!InScope
  BY <1>2 DEF MS!InScope, MS!Top
<1>13. MSNodesAreSeen'
  <2>1. /\ \A t \in streams : t.decl < next'
        /\ \A u \in uses : u.decl < next' /\ u.ref < next'
        /\ \A d \in DOMAIN all : d < next'
        /\ \A n \in reports : n < next'
    BY <1>2, <1>b, Later
  <2>2. \A u \in uses' : u.decl < next' /\ u.ref < next'
    <3>1. s.decl < next'
      BY <1>c, <2>1
    <3> QED
      BY <1>1, <1>3, <1>b, <2>1, <3>1
  <2>3. \A t \in streams : MS!Top(t.scope).id \in 1..(next' - 1) /\ MS!Top(t.scope).kind # "decl"
    <3>1. TAKE t \in streams
    <3>2. MS!Top(t.scope).id \in 1..(next - 1) /\ MS!Top(t.scope).kind # "decl"
      BY <1>a DEF MSNodesAreSeen
    <3> QED
      BY <1>2, <1>b, <3>2
  <2> QED
    BY <1>5, <2>1, <2>2, <2>3 DEF MSNodesAreSeen, MS!Top
<1>14. MSReferencesAreUses'
  <2>1. \A u, w \in uses' : u.ref = w.ref => u = w
    <3>1. \A u, w \in uses : u.ref = w.ref => u = w
      BY <1>a DEF MSReferencesAreUses
    <3>2. \A u \in uses : u.ref # next
      BY <1>b
    <3> QED
      BY <1>1, <1>3, <3>1, <3>2
  <2>2. \A t \in MS!InScope' : t.decl \in DOMAIN all'
    BY <1>5, <1>12, <1>a DEF MSReferencesAreUses
  <2>3. ASSUME NEW d \in DOMAIN all', NEW n
        PROVE  (\E i \in 1..Len(all'[d]) : all'[d][i] = n)
               <=> (\E u \in uses' : u.decl = d /\ u.ref = n /\ ~u.hidden)
    <3>1. d \in DOMAIN all
      BY <1>5
    <3>2. (\E i \in 1..Len(all[d]) : all[d][i] = n)
          <=> (\E u \in uses : u.decl = d /\ u.ref = n /\ ~u.hidden)
      BY <1>a, <3>1 DEF MSReferencesAreUses
    <3>3. (\E i \in 1..Len(all'[d]) : all'[d][i] = n)
          <=> \/ \E i \in 1..Len(all[d]) : all[d][i] = n
              \/ n = next /\ d = s.decl /\ ~hidden
      BY <1>6, <3>1
    <3>4. (\E u \in uses' : u.decl = d /\ u.ref = n /\ ~u.hidden)
          <=> \/ \E u \in uses : u.decl = d /\ u.ref = n /\ ~u.hidden
              \/ n = next /\ d = s.decl /\ ~hidden
      BY <1>1, <1>3
    <3> QED
      BY <3>2, <3>3, <3>4
  <2>4. ASSUME NEW d \in DOMAIN calls'
        PROVE  \E u \in uses' : u.decl = d /\ u.ref = calls'[d] /\ u.str
    <3>1. CASE d \in DOMAIN calls /\ calls'[d] = calls[d]
      BY <1>1, <1>a, <3>1 DEF MSReferencesAreUses
    <3>2. CASE d = s.decl /\ calls'[d] = next /\ str /\ ~hidden
      BY <1>1, <1>3, <3>2
    <3> QED
      BY <1>7, <2>4, <3>1, <3>2
  <2> QED
    BY <2>1, <2>2, <2>3, <2>4 DEF MSReferencesAreUses
<1>15. MSReportedIsOver'
  BY <1>1, <1>3, <1>10, <1>12, <1>a DEF MSReportedIsOver
<1> QED
  BY <1>2, <1>8, <1>9, <1>11, <1>13, <1>14, <1>15 DEF MSInv

LEMMA MSVisitReference ==
  ASSUME MSInv, NEW s \in MS!InScope, MS!VisitReference(s)
  PROVE  MSInv'
<1>1. /\ MS!VisitLeaf
      /\ uses' = uses \cup {[decl |-> s.decl, ref |-> next, str |-> FALSE, hidden |-> FALSE]}
      /\ UNCHANGED <<m_decl_refs_to_string_streams_on_str_calls, reports, streams>>
      /\ m_all_references_to_string_streams' =
           [m_all_references_to_string_streams EXCEPT ![s.decl] = Append(@, next)]
  BY DEF MS!VisitReference, MS!Remember, MS!AddReference
<1> QED
  BY <1>1, MSUse

LEMMA MSVisitStr ==
  ASSUME MSInv, NEW s \in MS!InScope, MS!VisitStr(s)
  PROVE  MSInv'
<1>1. /\ MS!VisitLeaf
      /\ uses' = uses \cup {[decl |-> s.decl, ref |-> next, str |-> TRUE, hidden |-> FALSE]}
      /\ UNCHANGED <<reports, streams>>
      /\ m_all_references_to_string_streams' =
           [m_all_references_to_string_streams EXCEPT ![s.decl] = Append(@, next)]
      /\ m_decl_refs_to_string_streams_on_str_calls' =
           MS!Emplace(m_decl_refs_to_string_streams_on_str_calls, s.decl, next)
  BY DEF MS!VisitStr, MS!Remember, MS!AddReference
<1> QED
  BY <1>1, MSUse

LEMMA MSVisitHidden ==
  ASSUME MSInv, NEW s \in MS!InScope, NEW str \in BOOLEAN, MS!VisitHidden(s, str)
  PROVE  MSInv'
<1>1. /\ MS!VisitLeaf
      /\ uses' = uses \cup {[decl |-> s.decl, ref |-> next, str |-> str, hidden |-> TRUE]}
      /\ UNCHANGED <<reports, streams>>
      /\ m_all_references_to_string_streams' = m_all_references_to_string_streams
      /\ m_decl_refs_to_string_streams_on_str_calls' =
           m_decl_refs_to_string_streams_on_str_calls
  BY DEF MS!VisitHidden, MS!Remember, MS!maps
<1> QED
  BY <1>1, MSUse

(* The last reference is reported if it is that of str(); those that come   *)
(* after it are hidden, since the references are all that were shown.       *)
LEMMA MSEndDeclaration ==
  ASSUME MSInv, MS!EndDeclaration
  PROVE  MSInv'
<1> DEFINE all == m_all_references_to_string_streams
           calls == m_decl_refs_to_string_streams_on_str_calls
<1>1. /\ MS!LeaveStmt({"decl"}) /\ UNCHANGED <<all, calls, streams, uses>>
      /\ reports' = reports \cup {MS!LastReference(d) : d \in MS!Reported}
  BY DEF MS!EndDeclaration, MS!maps
<1>2. /\ MS!TraversalTypeOK(MS!Kinds)' /\ OpenIsOrdered' /\ MSOneDeclaration'
      /\ next' = next /\ Len(open') = 0
  <2>1. "decl" \in MS!Kinds
    BY DEF MS!Kinds
  <2> QED
    BY <1>1, <2>1, MSLeave
<1>a. /\ MS!TypeOK /\ MS!StrCallsAreReferences /\ MS!ReportsAreLastSeen
      /\ MSReferencesAreUses /\ MSReportedIsOver /\ MSNodesAreSeen
  BY DEF MSInv
<1>b. \A u \in uses : u.ref \in MS!Nodes /\ u.ref \in Int /\ u.ref < next
  BY MSType
<1>3. MS!InScope' = {}
  BY <1>2 DEF MS!InScope
<1>4. ASSUME NEW d \in MS!Reported
      PROVE  /\ d \in DOMAIN calls /\ d \in DOMAIN all /\ calls[d] = MS!LastReference(d)
             /\ all[d] \in Seq(MS!Nodes) /\ Len(all[d]) \in 1..Len(all[d])
             /\ MS!LastReference(d) = all[d][Len(all[d])]
  <2>1. d \in DOMAIN calls /\ d \in DOMAIN all /\ calls[d] = MS!LastReference(d)
    BY DEF MS!Reported
  <2>2. all[d] \in Seq(MS!Nodes)
    BY <1>a, <2>1 DEF MS!TypeOK
  <2>3. PICK i \in 1..Len(all[d]) : TRUE
    BY <1>a, <2>1 DEF MS!StrCallsAreReferences
  <2>4. Len(all[d]) \in 1..Len(all[d])
    BY <2>2, <2>3
  <2>5. MS!LastReference(d) = all[d][Len(all[d])]
    BY DEF MS!LastReference, MS!Top
  <2> QED
    BY <2>1, <2>2, <2>4, <2>5
<1>5. ASSUME NEW d \in MS!Reported, NEW u \in uses, u.ref = MS!LastReference(d)
      PROVE  /\ u.str /\ u.decl = d
             /\ \A w \in uses : w.decl = u.decl /\ w.ref > u.ref => w.hidden
  <2>1. PICK v \in uses : v.decl = d /\ v.ref = calls[d] /\ v.str
    BY <1>4, <1>a DEF MSReferencesAreUses
  <2>2. v = u
    BY <1>4, <1>5, <1>a, <2>1 DEF MSReferencesAreUses
  <2>3. ASSUME NEW w \in uses, w.decl = d, w.ref > u.ref, ~w.hidden
        PROVE  FALSE
    <3>1. PICK i \in 1..Len(all[d]) : all[d][i] = w.ref
      <4> DEFINE n == w.ref
      <4>1. \E v1 \in uses : v1.decl = d /\ v1.ref = n /\ ~v1.hidden
        BY <2>3
      <4>2. d \in DOMAIN all
        BY <1>4
      <4> HIDE DEF n
      <4>3. \E i \in 1..Len(all[d]) : all[d][i] = n
        BY <1>a, <4>1, <4>2 DEF MSReferencesAreUses
      <4> QED
        BY <4>3 DEF n
    <3>2. i = Len(all[d]) \/ i < Len(all[d])
      BY <1>4
    <3>3. i < Len(all[d]) => all[d][i] < all[d][Len(all[d])]
      BY <1>4, <1>a DEF MS!TypeOK
    <3>4. w.ref = u.ref \/ w.ref < u.ref
      BY <1>4, <1>5, <3>1, <3>2, <3>3
    <3> QED
      BY <1>b, <2>3, <3>4
  <2> QED
    BY <2>1, <2>2, <2>3
<1>6. MS!ReportsAreLastSeen'
  <2>1. ASSUME NEW u \in uses, u.ref \in reports'
        PROVE  /\ u.str
               /\ \A w \in uses : w.decl = u.decl /\ w.ref > u.ref => w.hidden
    <3>1. CASE u.ref \in reports
      BY <1>a, <3>1 DEF MS!ReportsAreLastSeen
    <3>2. CASE \E d \in MS!Reported : u.ref = MS!LastReference(d)
      BY <1>5, <3>2
    <3> QED
      BY <1>1, <2>1, <3>1, <3>2
  <2> QED
    BY <1>1, <2>1 DEF MS!ReportsAreLastSeen
<1>7. \A n \in reports' : n \in MS!Nodes /\ n < next
  <2>1. \A n \in reports : n \in MS!Nodes /\ n < next
    BY MSType
  <2>2. ASSUME NEW d \in MS!Reported
        PROVE  MS!LastReference(d) \in MS!Nodes /\ MS!LastReference(d) < next
    <3>1. PICK v \in uses : v.ref = calls[d]
      BY <1>4, <1>a DEF MSReferencesAreUses
    <3> QED
      BY <1>4, <1>b, <3>1
  <2> QED
    BY <1>1, <2>1, <2>2
<1>8. MS!TypeOK'
  <2>1. reports' \subseteq MS!Nodes
    BY <1>7
  <2> QED
    BY <1>1, <1>2, <1>a, <2>1 DEF MS!TypeOK, MS!Nodes, MS!Stream, MS!Use
<1>9. MS!StrCallsAreReferences'
  BY <1>1, <1>a DEF MS!StrCallsAreReferences
<1>10. MSNodesAreSeen'
  BY <1>1, <1>2, <1>7, <1>a DEF MSNodesAreSeen, MS!Top
<1>11. MSReferencesAreUses'
  BY <1>1, <1>3, <1>a DEF MSReferencesAreUses
<1>12. MSReportedIsOver'
  BY <1>3 DEF MSReportedIsOver
<1> QED
  BY <1>2, <1>6, <1>8, <1>9, <1>10, <1>11, <1>12 DEF MSInv

LEMMA MSInit ==
  ASSUME MS!Init
  PROVE  MSInv
<1>1. /\ MaxNodes \in Nat /\ open = <<>> /\ next = 1
      /\ m_all_references_to_string_streams = <<>>
      /\ m_decl_refs_to_string_streams_on_str_calls = <<>>
      /\ reports = {} /\ streams = {} /\ uses = {}
  BY TraversalAssumption DEF MS!Init, MS!TraversalInit
<1>2. (\A S : <<>> \in Seq(S)) /\ DOMAIN <<>> = {} /\ Len(<<>>) = 0
  OBVIOUS
<1>3. /\ DOMAIN m_all_references_to_string_streams = {}
      /\ DOMAIN m_decl_refs_to_string_streams_on_str_calls = {}
  BY <1>1, <1>2
<1>4. MS!TypeOK
  <2>1. MS!TraversalTypeOK(MS!Kinds)
    BY <1>1, <1>2 DEF MS!TraversalTypeOK
  <2> QED
    BY <1>1, <1>3, <2>1 DEF MS!TypeOK
<1>5. MS!InScope = {}
  BY <1>1 DEF MS!InScope
<1> QED
  BY <1>1, <1>2, <1>3, <1>4, <1>5 DEF MSInv, OpenIsOrdered, MS!StrCallsAreReferences,
     MS!ReportsAreLastSeen, MSOneDeclaration, MSNodesAreSeen, MSReferencesAreUses,
     MSReportedIsOver

LEMMA MSNext ==
  ASSUME MSInv, MS!Next
  PROVE  MSInv'
BY MSBeginDeclaration, MSEnterBlock, MSLeaveBlock, MSVisitVarDecl, MSVisitReference,
   MSVisitStr, MSVisitHidden, MSEndDeclaration DEF MS!Next

LEMMA MSStutter ==
  ASSUME MSInv, UNCHANGED MS!vars
  PROVE  MSInv'
<1>1. UNCHANGED <<open, next, m_all_references_to_string_streams,
                  m_decl_refs_to_string_streams_on_str_calls, reports, streams, uses>>
  BY DEF MS!vars, MS!maps
<1>2. MS!TraversalTypeOK(MS!Kinds)' /\ OpenIsOrdered' /\ MSOneDeclaration'
  BY <1>1 DEF MSInv, MS!TypeOK, MS!TraversalTypeOK, MS!Nodes, OpenIsOrdered, MSOneDeclaration
<1>3. MS!InScope' = MS!InScope
  BY <1>1 DEF MS!InScope, MS!Top
<1> QED
  BY <1>1, <1>2, <1>3, MSQuiet

-----------------------------------------------------------------------------
(* MiscellaneousVisitor.                                                    *)

(* No two open nodes are one, and a body given to a declaration is not open *)
(* before its definition is reached.                                        *)
MINodesAreDistinct ==
  /\ \A i \in 1..Len(open) : open[i].id < next
  /\ \A i, j \in 1..Len(open) : open[i].id = open[j].id => i = j
  /\ \A d \in declared : d < next
  /\ \A d \in declared, i \in 1..Len(open) : open[i].id # d

(* A count is left over only where a reference was hidden. *)
MICountsAreHidden ==
  /\ \A v \in locals : v.decl < next
  /\ \A v, w \in locals : v.decl = w.decl => v = w
  /\ \A d \in DOMAIN m_last_assigned : d < next
  /\ \A v \in locals :
       v.decl \in DOMAIN m_last_assigned => (m_last_assigned[v.decl] = 1 => v.hidden)

MIInv ==
  /\ MI!TypeOK /\ MINodesAreDistinct /\ MI!BlocksAreStacked
  /\ MI!LastReferencesAreAssignments /\ MICountsAreHidden

(* What the types say. *)
LEMMA MIType ==
  ASSUME MIInv
  PROVE  /\ FewNodes \in Nat /\ MI!Nodes = 1..FewNodes /\ MI!Null = 0
         /\ open \in Seq([id : 1..FewNodes, kind : MI!Kinds])
         /\ next \in 1..(FewNodes + 1) /\ Len(open) \in Nat
         /\ \A i \in 1..Len(open) : open[i].id \in 1..FewNodes /\ open[i].kind \in MI!Kinds
         /\ \A i \in 1..Len(open) : open[i].id \in Int /\ open[i].id < next
         /\ declared \subseteq 1..FewNodes
         /\ \A d \in declared : d \in Int /\ d < next
         /\ m_comp_stmt_stack \in Seq(1..FewNodes) /\ Len(m_comp_stmt_stack) \in Nat
         /\ m_ctor_body_stack \in Seq(1..FewNodes \cup {0})
         /\ \A v \in locals : v \in MI!Local /\ v.decl \in 1..FewNodes
         /\ \A v \in locals : v.decl \in Int /\ v.decl < next
         /\ \A d \in DOMAIN m_last_assigned : d \in Int /\ d < next
         /\ \A d \in DOMAIN m_last_assigned : m_last_assigned[d] \in {0, 1}
         /\ MINodesAreDistinct /\ MI!BlocksAreStacked /\ MI!LastReferencesAreAssignments
         /\ MICountsAreHidden
<1>1. /\ FewNodes \in Nat /\ MI!Nodes = 1..FewNodes /\ MI!Null = 0
      /\ open \in Seq([id : 1..FewNodes, kind : MI!Kinds])
      /\ next \in 1..(FewNodes + 1)
      /\ declared \subseteq 1..FewNodes
      /\ m_comp_stmt_stack \in Seq(1..FewNodes)
      /\ m_ctor_body_stack \in Seq(1..FewNodes \cup {0})
      /\ locals \subseteq MI!Local /\ DOMAIN m_last_assigned \subseteq 1..FewNodes
  BY VisitorsAssumption DEF MIInv, MI!TypeOK, MI!TraversalTypeOK, MI!Nodes, MI!Null
<1>2. /\ Len(open) \in Nat
      /\ \A i \in 1..Len(open) : open[i].id \in 1..FewNodes /\ open[i].kind \in MI!Kinds
  BY <1>1, OpenNodes
<1>3. Len(m_comp_stmt_stack) \in Nat
  BY <1>1
<1>4. \A v \in locals : v \in MI!Local /\ v.decl \in 1..FewNodes
  BY <1>1 DEF MI!Local
<1>5. /\ MINodesAreDistinct /\ MI!BlocksAreStacked /\ MI!LastReferencesAreAssignments
      /\ MICountsAreHidden
  BY DEF MIInv
<1>6. /\ \A i \in 1..Len(open) : open[i].id < next
      /\ \A d \in declared : d < next
  BY <1>5 DEF MINodesAreDistinct
<1>7. /\ \A v \in locals : v.decl < next
      /\ \A d \in DOMAIN m_last_assigned : d < next
  BY <1>5 DEF MICountsAreHidden
<1>8. \A d \in DOMAIN m_last_assigned : m_last_assigned[d] \in {0, 1}
  BY DEF MIInv, MI!TypeOK
<1>9. /\ \A i \in 1..Len(open) : open[i].id \in Int /\ open[i].id < next
      /\ \A d \in declared : d \in Int /\ d < next
  BY <1>1, <1>2, <1>6
<1>10. /\ \A v \in locals : v.decl \in Int /\ v.decl < next
       /\ \A d \in DOMAIN m_last_assigned : d \in Int /\ d < next
  BY <1>1, <1>4, <1>7
<1> QED
  BY <1>1, <1>2, <1>3, <1>4, <1>5, <1>8, <1>9, <1>10

(* Blocks stay as they are. *)
LEMMA MIBlocksStay ==
  ASSUME MI!BlocksAreStacked, open' = open, checks' = checks,
         m_comp_stmt_stack' = m_comp_stmt_stack
  PROVE  MI!BlocksAreStacked'
<1>1. ASSUME "static-keyword" \in checks
      PROVE  {m_comp_stmt_stack'[k] : k \in 1..Len(m_comp_stmt_stack')} =
               {open'[i].id : i \in {j \in 1..Len(open') : open'[j].kind # "hidden"}}
  <2> DEFINE H == {j \in 1..Len(open) : open[j].kind # "hidden"}
             I == {j \in 1..Len(open') : open'[j].kind # "hidden"}
  <2>1. {m_comp_stmt_stack[k] : k \in 1..Len(m_comp_stmt_stack)} = {open[i].id : i \in H}
    BY <1>1 DEF MI!BlocksAreStacked
  <2>2. H = I
    OBVIOUS
  <2> HIDE DEF H, I
  <2>3. {m_comp_stmt_stack'[k] : k \in 1..Len(m_comp_stmt_stack')} =
          {m_comp_stmt_stack[k] : k \in 1..Len(m_comp_stmt_stack)}
    OBVIOUS
  <2>4. {open'[i].id : i \in I} = {open[i].id : i \in H}
    BY <2>2
  <2>5. {m_comp_stmt_stack'[k] : k \in 1..Len(m_comp_stmt_stack')} = {open'[i].id : i \in I}
    BY <2>1, <2>3, <2>4
  <2> QED
    BY <2>5 DEF I
<1>2. \A k, l \in 1..Len(m_comp_stmt_stack'), i, j \in 1..Len(open') :
        m_comp_stmt_stack'[k] = open'[i].id /\ m_comp_stmt_stack'[l] = open'[j].id =>
          (k < l <=> i < j)
  BY DEF MI!BlocksAreStacked
<1>3. "static-keyword" \notin checks => m_comp_stmt_stack' = <<>>
  BY DEF MI!BlocksAreStacked
<1> QED
  BY <1>1, <1>2, <1>3 DEF MI!BlocksAreStacked

(* Nothing happens to the locals. *)
LEMMA MIQuiet ==
  ASSUME MIInv, MI!TraversalTypeOK(MI!Kinds)', MINodesAreDistinct', MI!BlocksAreStacked',
         next' \in {next, next + 1}, UNCHANGED <<checks, m_last_assigned, locals>>,
         m_comp_stmt_stack' \in Seq(MI!Nodes),
         m_ctor_body_stack' \in Seq(MI!Nodes \cup {MI!Null}),
         declared' \subseteq MI!Nodes,
         reports' \subseteq [what : MI!Messages, node : MI!Nodes]
  PROVE  MIInv'
<1>1. MI!TypeOK'
  BY DEF MIInv, MI!TypeOK, MI!Nodes, MI!Null, MI!Local
<1>2. MI!LastReferencesAreAssignments'
  BY DEF MIInv, MI!LastReferencesAreAssignments
<1>3. MICountsAreHidden'
  <2>1. /\ \A v \in locals : v.decl < next'
        /\ \A d \in DOMAIN m_last_assigned : d < next'
    BY MIType, Later
  <2> QED
    BY <2>1 DEF MIInv, MICountsAreHidden
<1> QED
  BY <1>1, <1>2, <1>3 DEF MIInv

(* The two halves of BlocksAreStacked in terms of the open nodes.           *)
LEMMA MIStacked ==
  ASSUME "static-keyword" \in checks',
         \A l \in 1..Len(m_comp_stmt_stack') : \E i \in 1..Len(open') :
           m_comp_stmt_stack'[l] = open'[i].id /\ open'[i].kind # "hidden",
         \A i \in 1..Len(open') :
           open'[i].kind # "hidden" =>
             \E l \in 1..Len(m_comp_stmt_stack') : m_comp_stmt_stack'[l] = open'[i].id,
         \A l, m \in 1..Len(m_comp_stmt_stack'), i, j \in 1..Len(open') :
           m_comp_stmt_stack'[l] = open'[i].id /\ m_comp_stmt_stack'[m] = open'[j].id =>
             (l < m <=> i < j)
  PROVE  MI!BlocksAreStacked'
<1> DEFINE stack == m_comp_stmt_stack'
           H == {j \in 1..Len(open') : open'[j].kind # "hidden"}
<1>1. \A j : j \in H <=> j \in 1..Len(open') /\ open'[j].kind # "hidden"
  OBVIOUS
<1> HIDE DEF H
<1>2. \A l \in 1..Len(stack) : stack[l] \in {open'[i].id : i \in H}
  BY <1>1
<1>3. \A i \in H : open'[i].id \in {stack[l] : l \in 1..Len(stack)}
  <2> SUFFICES ASSUME NEW i \in H PROVE \E l \in 1..Len(stack) : stack[l] = open'[i].id
    BY Zenon
  <2> QED
    BY <1>1
<1> DEFINE A == {stack[l] : l \in 1..Len(stack)}
           B == {open'[i].id : i \in H}
<1>4. A = B
  <2>1. \A x \in A : x \in B
    BY <1>2
  <2>2. \A x \in B : x \in A
    BY <1>3
  <2> HIDE DEF A, B
  <2> QED
    BY <2>1, <2>2
<1> QED
  BY <1>4, Zenon DEF MI!BlocksAreStacked, A, B, H

(* A node is entered that was not open before; it is a block, which is      *)
(* pushed if the check is enabled, or hidden.                               *)
LEMMA MIEnter ==
  ASSUME MIInv, MI!Visit, NEW k \in MI!Kinds, NEW id \in declared \cup {next},
         open' = Append(open, [id |-> id, kind |-> k]),
         UNCHANGED checks, declared' = declared \ {id},
         m_comp_stmt_stack' = IF k # "hidden" /\ "static-keyword" \in checks
                                THEN Append(m_comp_stmt_stack, id) ELSE m_comp_stmt_stack
  PROVE  /\ MI!TraversalTypeOK(MI!Kinds)' /\ MINodesAreDistinct' /\ MI!BlocksAreStacked'
         /\ next' = next + 1 /\ m_comp_stmt_stack' \in Seq(MI!Nodes)
         /\ declared' \subseteq MI!Nodes /\ id \in MI!Nodes
<1> DEFINE stack == m_comp_stmt_stack
<1>1. next' = next + 1 /\ next <= FewNodes
  BY DEF MI!Visit
<1>a. /\ MINodesAreDistinct /\ MI!BlocksAreStacked
      /\ FewNodes \in Nat /\ MI!Nodes = 1..FewNodes /\ next \in 1..(FewNodes + 1)
      /\ declared \subseteq 1..FewNodes
      /\ open \in Seq([id : 1..FewNodes, kind : MI!Kinds]) /\ Len(open) \in Nat
      /\ \A i \in 1..Len(open) : open[i].id \in Int /\ open[i].id < next
      /\ \A d \in declared : d \in Int /\ d < next
      /\ stack \in Seq(1..FewNodes) /\ Len(stack) \in Nat
  BY MIType
<1>2. id \in 1..FewNodes /\ id \in Int /\ id < next'
  <2>1. next \in 1..FewNodes /\ next < next'
    BY <1>1, <1>a
  <2>2. \A d \in declared : d \in 1..FewNodes /\ d \in Int /\ d < next'
    BY <1>1, <1>a, Later
  <2> QED
    BY <2>1, <2>2
<1>3. \A i \in 1..Len(open) : open[i].id # id
  BY <1>a DEF MINodesAreDistinct
<1> DEFINE N == [id : 1..FewNodes, kind : MI!Kinds]
           new == [id |-> id, kind |-> k]
<1>4. new \in N /\ new.id = id /\ new.kind = k
  BY <1>2
<1> HIDE DEF N, new
<1>5. /\ open' \in Seq(N) /\ Len(open') = Len(open) + 1
      /\ \A i \in 1..Len(open) : i \in 1..Len(open') /\ open'[i] = open[i] /\ i # Len(open')
      /\ Len(open') \in 1..Len(open') /\ open'[Len(open')] = new
      /\ \A i \in 1..Len(open') : i \in 1..Len(open) \/ i = Len(open')
  <2>1. open \in Seq(N) /\ open' = Append(open, new)
    BY <1>a DEF N, new
  <2> QED
    BY <1>4, <2>1, Grown
<1>6. MI!TraversalTypeOK(MI!Kinds)'
  BY <1>1, <1>5, <1>a DEF MI!TraversalTypeOK, MI!Nodes, N
<1>7. MINodesAreDistinct'
  <2>1. \A i \in 1..Len(open') : open'[i].id < next'
    <3>1. \A i \in 1..Len(open) : open[i].id < next'
      BY <1>1, <1>a, Later
    <3> QED
      BY <1>2, <1>4, <1>5, <3>1
  <2>2. \A i, j \in 1..Len(open') : open'[i].id = open'[j].id => i = j
    <3>1. \A i, j \in 1..Len(open) : open[i].id = open[j].id => i = j
      BY <1>a DEF MINodesAreDistinct
    <3> QED
      BY <1>3, <1>4, <1>5, <3>1
  <2>3. \A d \in declared' : d < next'
    BY <1>1, <1>a, Later
  <2>4. \A d \in declared', i \in 1..Len(open') : open'[i].id # d
    <3>1. \A d \in declared, i \in 1..Len(open) : open[i].id # d
      BY <1>a DEF MINodesAreDistinct
    <3> QED
      BY <1>4, <1>5, <3>1
  <2> QED
    BY <2>1, <2>2, <2>3, <2>4 DEF MINodesAreDistinct
<1>8. CASE "static-keyword" \notin checks
  BY <1>1, <1>2, <1>6, <1>7, <1>8, <1>a DEF MI!BlocksAreStacked
<1>9. CASE "static-keyword" \in checks
  <2>1. {stack[l] : l \in 1..Len(stack)} =
          {open[i].id : i \in {j \in 1..Len(open) : open[j].kind # "hidden"}}
    BY <1>9, <1>a DEF MI!BlocksAreStacked
  <2>2. \A l \in 1..Len(stack) : \E i \in 1..Len(open) :
          stack[l] = open[i].id /\ open[i].kind # "hidden"
    BY <2>1
  <2>3. \A i \in 1..Len(open) : open[i].kind # "hidden" =>
          \E l \in 1..Len(stack) : stack[l] = open[i].id
    BY <2>1
  <2>4. \A l, m \in 1..Len(stack), i, j \in 1..Len(open) :
          stack[l] = open[i].id /\ stack[m] = open[j].id => (l < m <=> i < j)
    BY <1>a DEF MI!BlocksAreStacked
  <2>5. \A l \in 1..Len(stack) : stack[l] # id
    BY <1>3, <2>2
  <2>6. CASE k = "hidden"
    <3>1. stack' = stack
      BY <2>6
    <3>2. ASSUME NEW l \in 1..Len(stack)
          PROVE  \E i \in 1..Len(open') : stack[l] = open'[i].id /\ open'[i].kind # "hidden"
      BY <1>5, <2>2
    <3>3. ASSUME NEW i \in 1..Len(open'), open'[i].kind # "hidden"
          PROVE  \E l \in 1..Len(stack) : stack[l] = open'[i].id
      BY <1>4, <1>5, <2>3, <2>6, <3>3
    <3>5. \A l, m \in 1..Len(stack), i, j \in 1..Len(open') :
            stack[l] = open'[i].id /\ stack[m] = open'[j].id => (l < m <=> i < j)
      <4>1. \A l \in 1..Len(stack), i \in 1..Len(open') :
              stack[l] = open'[i].id => i \in 1..Len(open) /\ open'[i] = open[i]
        BY <1>4, <1>5, <2>5
      <4> QED
        BY <2>4, <4>1
    <3>6. MI!BlocksAreStacked'
      <4>1. \A l \in 1..Len(stack') :
              \E i \in 1..Len(open') : stack'[l] = open'[i].id /\ open'[i].kind # "hidden"
        BY <3>1, <3>2
      <4>2. \A i \in 1..Len(open') : open'[i].kind # "hidden" =>
              \E l \in 1..Len(stack') : stack'[l] = open'[i].id
        BY <3>1, <3>3
      <4>3. \A l, m \in 1..Len(stack'), i, j \in 1..Len(open') :
              stack'[l] = open'[i].id /\ stack'[m] = open'[j].id => (l < m <=> i < j)
        BY <3>1, <3>5
      <4> QED
        BY <1>9, <4>1, <4>2, <4>3, MIStacked
    <3> QED
      BY <1>1, <1>2, <1>6, <1>7, <1>a, <3>1, <3>6
  <2>7. CASE k # "hidden"
    <3>1. stack' = Append(stack, id)
      BY <1>9, <2>7
    <3>2. /\ stack' \in Seq(1..FewNodes) /\ Len(stack') = Len(stack) + 1
          /\ \A l \in 1..Len(stack) :
               l \in 1..Len(stack') /\ stack'[l] = stack[l] /\ l # Len(stack')
          /\ Len(stack') \in 1..Len(stack') /\ stack'[Len(stack')] = id
          /\ \A l \in 1..Len(stack') : l \in 1..Len(stack) \/ l = Len(stack')
      <4>1. id \in 1..FewNodes /\ stack \in Seq(1..FewNodes)
        BY <1>2, <1>a
      <4>2. \A t : t = Append(stack, id) =>
              /\ t \in Seq(1..FewNodes) /\ Len(t) = Len(stack) + 1
              /\ \A l \in 1..Len(stack) : l \in 1..Len(t) /\ t[l] = stack[l] /\ l # Len(t)
              /\ Len(t) \in 1..Len(t) /\ t[Len(t)] = id
              /\ \A l \in 1..Len(t) : l \in 1..Len(stack) \/ l = Len(t)
        BY <4>1, Grown
      <4> QED
        BY <3>1, <4>2
    <3>3. ASSUME NEW l \in 1..Len(stack')
          PROVE  \E i \in 1..Len(open') : stack'[l] = open'[i].id /\ open'[i].kind # "hidden"
      <4>1. CASE l = Len(stack')
        BY <1>4, <1>5, <2>7, <3>2, <4>1
      <4>2. CASE l \in 1..Len(stack)
        <5>1. PICK i \in 1..Len(open) : stack[l] = open[i].id /\ open[i].kind # "hidden"
          BY <2>2, <4>2
        <5> QED
          BY <1>5, <3>2, <4>2, <5>1
      <4> QED
        BY <3>2, <4>1, <4>2
    <3>4. ASSUME NEW i \in 1..Len(open'), open'[i].kind # "hidden"
          PROVE  \E l \in 1..Len(stack') : stack'[l] = open'[i].id
      <4>1. CASE i = Len(open')
        BY <1>4, <1>5, <3>2, <4>1
      <4>2. CASE i \in 1..Len(open)
        <5>1. PICK l \in 1..Len(stack) : stack[l] = open[i].id
          BY <1>5, <2>3, <3>4, <4>2
        <5> QED
          BY <1>5, <3>2, <4>2, <5>1
      <4> QED
        BY <1>5, <4>1, <4>2
    <3>6. \A l, m \in 1..Len(stack'), i, j \in 1..Len(open') :
            stack'[l] = open'[i].id /\ stack'[m] = open'[j].id => (l < m <=> i < j)
      <4> TAKE l, m \in 1..Len(stack'), i, j \in 1..Len(open')
      <4>0. HAVE stack'[l] = open'[i].id /\ stack'[m] = open'[j].id
      <4>1. \A n \in 1..Len(stack'), p \in 1..Len(open') :
              stack'[n] = open'[p].id =>
                \/ n = Len(stack') /\ p = Len(open')
                \/ /\ n \in 1..Len(stack) /\ p \in 1..Len(open)
                   /\ stack'[n] = stack[n] /\ open'[p] = open[p]
        BY <1>3, <1>4, <1>5, <2>5, <3>2
      <4>2. CASE l \in 1..Len(stack) /\ m \in 1..Len(stack)
        <5>1. /\ i \in 1..Len(open) /\ j \in 1..Len(open)
              /\ stack[l] = open[i].id /\ stack[m] = open[j].id
          BY <3>2, <4>0, <4>1, <4>2
        <5> QED
          BY <2>4, <4>2, <5>1
      <4>3. CASE l = Len(stack') /\ i = Len(open')
        BY <1>5, <1>a, <3>2, <4>3
      <4>4. CASE l \in 1..Len(stack) /\ i \in 1..Len(open) /\ m = Len(stack') /\ j = Len(open')
        BY <1>5, <1>a, <3>2, <4>4
      <4> QED
        BY <4>0, <4>1, <4>2, <4>3, <4>4
    <3>7. MI!BlocksAreStacked'
      BY <1>9, <3>3, <3>4, <3>6, MIStacked
    <3> QED
      BY <1>1, <1>2, <1>6, <1>7, <1>a, <3>2, <3>7
  <2> QED
    BY <2>6, <2>7
<1> QED
  BY <1>8, <1>9

(* A node is left; a block is the top of the stack, a hidden one is not on  *)
(* it.                                                                      *)
LEMMA MILeave ==
  ASSUME MIInv, MI!LeaveStmt(MI!Kinds), MI!PopCompound(MI!Top(open)),
         UNCHANGED <<checks, declared>>
  PROVE  /\ MI!TraversalTypeOK(MI!Kinds)' /\ MINodesAreDistinct' /\ MI!BlocksAreStacked'
         /\ next' = next /\ m_comp_stmt_stack' \in Seq(MI!Nodes)
         /\ MI!Top(open).id \in MI!Nodes
<1> DEFINE stack == m_comp_stmt_stack
           last == Len(open)
           N == [id : 1..FewNodes, kind : MI!Kinds]
<1>1. /\ open # <<>> /\ next' = next /\ open' = SubSeq(open, 1, last - 1)
      /\ MI!Top(open) = open[last]
      /\ stack' = IF stack # <<>> /\ stack[Len(stack)] = open[last].id
                    THEN SubSeq(stack, 1, Len(stack) - 1) ELSE stack
  BY DEF MI!LeaveStmt, MI!PopCompound, MI!Top, MI!Pop
<1>a. /\ MINodesAreDistinct /\ MI!BlocksAreStacked
      /\ FewNodes \in Nat /\ MI!Nodes = 1..FewNodes /\ next \in 1..(FewNodes + 1)
      /\ open \in Seq(N) /\ last \in Nat
      /\ stack \in Seq(1..FewNodes) /\ Len(stack) \in Nat
  BY MIType
<1>b. \A i \in 1..last : open[i].id \in 1..FewNodes
  BY MIType
<1> HIDE DEF N
<1>2. /\ open' \in Seq(N) /\ last \in Nat /\ last >= 1 /\ Len(open') = last - 1
      /\ \A i \in 1..(last - 1) : open'[i] = open[i]
  BY <1>1, <1>a, PopBack
<1>3. /\ \A i \in 1..Len(open') : i \in 1..last /\ open'[i] = open[i] /\ i < last
      /\ last \in 1..last
      /\ \A i \in 1..last : i \in 1..Len(open') \/ i = last
  BY <1>2
<1>4. MI!TraversalTypeOK(MI!Kinds)'
  BY <1>1, <1>2, <1>a DEF MI!TraversalTypeOK, MI!Nodes, N
<1>5. MINodesAreDistinct'
  BY <1>1, <1>3, <1>a DEF MINodesAreDistinct
<1>6. open[last].id \in MI!Nodes
  BY <1>3, <1>a, <1>b
<1>7. CASE "static-keyword" \notin checks
  <2>1. stack = <<>> /\ stack' = <<>>
    BY <1>1, <1>7, <1>a DEF MI!BlocksAreStacked
  <2>2. MI!BlocksAreStacked'
    BY <1>7, <2>1 DEF MI!BlocksAreStacked
  <2> QED
    BY <1>1, <1>4, <1>5, <1>6, <2>1, <2>2
<1>8. CASE "static-keyword" \in checks
  <2>1. {stack[l] : l \in 1..Len(stack)} =
          {open[i].id : i \in {j \in 1..last : open[j].kind # "hidden"}}
    BY <1>8, <1>a DEF MI!BlocksAreStacked
  <2>2. \A l \in 1..Len(stack) : \E i \in 1..last :
          stack[l] = open[i].id /\ open[i].kind # "hidden"
    BY <2>1
  <2>3. \A i \in 1..last : open[i].kind # "hidden" =>
          \E l \in 1..Len(stack) : stack[l] = open[i].id
    BY <2>1
  <2>4. \A l, m \in 1..Len(stack), i, j \in 1..last :
          stack[l] = open[i].id /\ stack[m] = open[j].id => (l < m <=> i < j)
    BY <1>a DEF MI!BlocksAreStacked
  <2>5. \A i, j \in 1..last : open[i].id = open[j].id => i = j
    BY <1>a DEF MINodesAreDistinct
  <2>6. CASE stack # <<>> /\ stack[Len(stack)] = open[last].id
    <3>1. stack' = SubSeq(stack, 1, Len(stack) - 1)
      BY <1>1, <2>6
    <3>2. /\ stack' \in Seq(1..FewNodes) /\ Len(stack) >= 1 /\ Len(stack') = Len(stack) - 1
          /\ \A l \in 1..(Len(stack) - 1) : stack'[l] = stack[l]
      <4>1. stack # <<>> /\ stack \in Seq(1..FewNodes)
        BY <1>a, <2>6
      <4> QED
        BY <3>1, <4>1, PopBack
    <3>3. /\ \A l \in 1..Len(stack') :
               l \in 1..Len(stack) /\ stack'[l] = stack[l] /\ l < Len(stack)
          /\ \A l \in 1..Len(stack) : l \in 1..Len(stack') \/ l = Len(stack)
          /\ Len(stack) \in 1..Len(stack)
      <4>1. Len(stack) \in Nat
        BY <1>a
      <4> QED
        BY <3>2, <4>1
    <3>4. ASSUME NEW l \in 1..Len(stack')
          PROVE  \E i \in 1..Len(open') : stack'[l] = open'[i].id /\ open'[i].kind # "hidden"
      <4>1. PICK i \in 1..last : stack[l] = open[i].id /\ open[i].kind # "hidden"
        BY <2>2, <3>3
      <4>2. i < last
        BY <1>3, <2>4, <2>6, <3>3, <4>1
      <4>3. i \in 1..Len(open') /\ open'[i] = open[i]
        BY <1>3, <4>2
      <4> QED
        BY <3>3, <4>1, <4>3
    <3>5. ASSUME NEW i \in 1..Len(open'), open'[i].kind # "hidden"
          PROVE  \E l \in 1..Len(stack') : stack'[l] = open'[i].id
      <4>1. i \in 1..last /\ open'[i] = open[i] /\ i < last
        BY <1>3
      <4>2. PICK l \in 1..Len(stack) : stack[l] = open[i].id
        BY <2>3, <3>5, <4>1
      <4>3. l # Len(stack)
        BY <1>3, <2>5, <2>6, <4>1, <4>2
      <4> QED
        BY <3>3, <4>1, <4>2, <4>3
    <3>7. \A l, m \in 1..Len(stack'), i, j \in 1..Len(open') :
            stack'[l] = open'[i].id /\ stack'[m] = open'[j].id => (l < m <=> i < j)
      BY <1>3, <2>4, <3>3
    <3>8. MI!BlocksAreStacked'
      BY <1>8, <3>4, <3>5, <3>7, MIStacked
    <3> QED
      BY <1>1, <1>4, <1>5, <1>6, <1>a, <3>2, <3>8
  <2>7. CASE ~(stack # <<>> /\ stack[Len(stack)] = open[last].id)
    <3>1. stack' = stack
      BY <1>1, <2>7
    <3>2. open[last].kind = "hidden"
      <4>1. SUFFICES ASSUME open[last].kind # "hidden" PROVE FALSE
        OBVIOUS
      <4>2. PICK l \in 1..Len(stack) : stack[l] = open[last].id
        BY <1>3, <2>3, <4>1
      <4>3. stack # <<>> /\ Len(stack) \in 1..Len(stack) /\ l \in Int
        BY <1>a, <4>2
      <4>4. l < Len(stack)
        BY <1>a, <2>7, <4>2, <4>3
      <4>5. PICK i \in 1..last : stack[Len(stack)] = open[i].id
        BY <2>2, <4>3
      <4>6. last < i
        BY <1>3, <2>4, <4>2, <4>3, <4>4, <4>5
      <4> QED
        BY <1>a, <4>5, <4>6
    <3>3. ASSUME NEW l \in 1..Len(stack)
          PROVE  \E i \in 1..Len(open') : stack[l] = open'[i].id /\ open'[i].kind # "hidden"
      <4>1. PICK i \in 1..last : stack[l] = open[i].id /\ open[i].kind # "hidden"
        BY <2>2
      <4> QED
        BY <1>3, <3>2, <4>1
    <3>4. ASSUME NEW i \in 1..Len(open'), open'[i].kind # "hidden"
          PROVE  \E l \in 1..Len(stack) : stack[l] = open'[i].id
      BY <1>3, <2>3, <3>4
    <3>6. \A l, m \in 1..Len(stack), i, j \in 1..Len(open') :
            stack[l] = open'[i].id /\ stack[m] = open'[j].id => (l < m <=> i < j)
      BY <1>3, <2>4
    <3>7. MI!BlocksAreStacked'
      <4>1. \A l \in 1..Len(stack') :
              \E i \in 1..Len(open') : stack'[l] = open'[i].id /\ open'[i].kind # "hidden"
        BY <3>1, <3>3
      <4>2. \A i \in 1..Len(open') : open'[i].kind # "hidden" =>
              \E l \in 1..Len(stack') : stack'[l] = open'[i].id
        BY <3>1, <3>4
      <4>3. \A l, m \in 1..Len(stack'), i, j \in 1..Len(open') :
              stack'[l] = open'[i].id /\ stack'[m] = open'[j].id => (l < m <=> i < j)
        BY <3>1, <3>6
      <4> QED
        BY <1>8, <4>1, <4>2, <4>3, MIStacked
    <3> QED
      BY <1>1, <1>4, <1>5, <1>6, <1>a, <3>1, <3>7
  <2> QED
    BY <2>6, <2>7
<1> QED
  BY <1>7, <1>8

(* A node without children is visited. *)
LEMMA MIVisitLeaf ==
  ASSUME MIInv, MI!VisitLeaf, UNCHANGED <<checks, m_comp_stmt_stack>>,
         declared' \subseteq declared \cup {next}
  PROVE  /\ MI!TraversalTypeOK(MI!Kinds)' /\ MINodesAreDistinct' /\ MI!BlocksAreStacked'
         /\ next' = next + 1 /\ next \in MI!Nodes /\ declared' \subseteq MI!Nodes
         /\ open' = open /\ m_comp_stmt_stack' \in Seq(MI!Nodes)
<1>1. next' = next + 1 /\ next <= FewNodes /\ open' = open
  BY DEF MI!VisitLeaf, MI!Visit
<1>a. /\ MINodesAreDistinct /\ MI!BlocksAreStacked
      /\ FewNodes \in Nat /\ MI!Nodes = 1..FewNodes /\ next \in 1..(FewNodes + 1)
      /\ declared \subseteq 1..FewNodes
      /\ open \in Seq([id : 1..FewNodes, kind : MI!Kinds])
      /\ \A i \in 1..Len(open) : open[i].id \in Int /\ open[i].id < next
      /\ \A d \in declared : d \in Int /\ d < next
      /\ m_comp_stmt_stack \in Seq(1..FewNodes)
  BY MIType
<1>2. next \in 1..FewNodes /\ next' \in 1..(FewNodes + 1) /\ next < next' /\ next \in Int
  BY <1>1, <1>a
<1>3. MI!TraversalTypeOK(MI!Kinds)'
  BY <1>1, <1>2, <1>a DEF MI!TraversalTypeOK, MI!Nodes
<1>4. MINodesAreDistinct'
  <2>1. \A i \in 1..Len(open') : open'[i].id < next' /\ open'[i].id # next
    BY <1>1, <1>2, <1>a, Later
  <2>2. \A d \in declared' : d < next'
    <3>1. \A d \in declared : d < next'
      BY <1>1, <1>2, <1>a, Later
    <3> QED
      BY <1>2, <3>1
  <2>3. \A d \in declared', i \in 1..Len(open') : open'[i].id # d
    BY <1>1, <1>a, <2>1 DEF MINodesAreDistinct
  <2> QED
    BY <1>1, <1>a, <2>1, <2>2, <2>3 DEF MINodesAreDistinct
<1>5. MI!BlocksAreStacked'
  <2>1. checks' = checks /\ m_comp_stmt_stack' = m_comp_stmt_stack
    OBVIOUS
  <2> QED
    BY <1>1, <1>a, <2>1, MIBlocksStay
<1> QED
  BY <1>1, <1>2, <1>3, <1>4, <1>5, <1>a

LEMMA MIEnterCtor ==
  ASSUME MIInv, MI!EnterCtor
  PROVE  MIInv'
<1>1. PICK body \in declared \cup {next} :
        /\ open' = Append(open, [id |-> body, kind |-> "ctor"])
        /\ m_ctor_body_stack' = Append(m_ctor_body_stack, body)
        /\ MI!PushCompound(body) /\ declared' = declared \ {body}
  BY DEF MI!EnterCtor
<1>2. /\ MI!Visit /\ checks' = checks /\ m_last_assigned' = m_last_assigned
      /\ reports' = reports /\ locals' = locals
      /\ m_comp_stmt_stack' = IF "ctor" # "hidden" /\ "static-keyword" \in checks
                                THEN Append(m_comp_stmt_stack, body) ELSE m_comp_stmt_stack
  BY <1>1 DEF MI!EnterCtor, MI!PushCompound
<1>3. "ctor" \in MI!Kinds
  BY DEF MI!Kinds
<1>4. /\ MI!TraversalTypeOK(MI!Kinds)' /\ MINodesAreDistinct' /\ MI!BlocksAreStacked'
      /\ next' = next + 1 /\ m_comp_stmt_stack' \in Seq(MI!Nodes)
      /\ declared' \subseteq MI!Nodes /\ body \in MI!Nodes
  BY <1>1, <1>2, <1>3, MIEnter
<1>5. m_ctor_body_stack' \in Seq(MI!Nodes \cup {MI!Null})
  <2>1. m_ctor_body_stack \in Seq(MI!Nodes \cup {MI!Null})
    BY DEF MIInv, MI!TypeOK
  <2>2. body \in MI!Nodes \cup {MI!Null}
    BY <1>4
  <2> HIDE DEF MI!Nodes
  <2> QED
    BY <1>1, <2>1, <2>2, PushBack
<1>6. reports' \subseteq [what : MI!Messages, node : MI!Nodes]
  BY <1>2 DEF MIInv, MI!TypeOK
<1> QED
  BY <1>2, <1>4, <1>5, <1>6, MIQuiet

LEMMA MIVisitCtorDeclaration ==
  ASSUME MIInv, NEW defined \in BOOLEAN, MI!VisitCtorDeclaration(defined)
  PROVE  MIInv'
<1>1. /\ MI!VisitLeaf /\ checks' = checks /\ m_last_assigned' = m_last_assigned
      /\ m_comp_stmt_stack' = m_comp_stmt_stack
      /\ reports' = reports /\ locals' = locals /\ declared' \subseteq declared \cup {next}
      /\ m_ctor_body_stack' = Append(m_ctor_body_stack, IF defined THEN next ELSE MI!Null)
  BY DEF MI!VisitCtorDeclaration
<1>2. /\ MI!TraversalTypeOK(MI!Kinds)' /\ MINodesAreDistinct' /\ MI!BlocksAreStacked'
      /\ next' = next + 1 /\ next \in MI!Nodes /\ declared' \subseteq MI!Nodes
      /\ m_comp_stmt_stack' \in Seq(MI!Nodes)
  BY <1>1, MIVisitLeaf
<1>3. m_ctor_body_stack' \in Seq(MI!Nodes \cup {MI!Null})
  <2>1. m_ctor_body_stack \in Seq(MI!Nodes \cup {MI!Null})
    BY DEF MIInv, MI!TypeOK
  <2>2. (IF defined THEN next ELSE MI!Null) \in MI!Nodes \cup {MI!Null}
    BY <1>2
  <2> QED
    BY <1>1, <2>1, <2>2, PushBack
<1>4. reports' \subseteq [what : MI!Messages, node : MI!Nodes]
  BY <1>1 DEF MIInv, MI!TypeOK
<1> QED
  BY <1>1, <1>2, <1>3, <1>4, MIQuiet

LEMMA MIEnterBlock ==
  ASSUME MIInv, MI!EnterBlock \/ MI!EnterHidden
  PROVE  MIInv'
<1>1. PICK k \in {"block", "hidden"} :
        /\ open' = Append(open, [id |-> next, kind |-> k])
        /\ m_comp_stmt_stack' = IF k # "hidden" /\ "static-keyword" \in checks
                                  THEN Append(m_comp_stmt_stack, next) ELSE m_comp_stmt_stack
  BY DEF MI!EnterBlock, MI!EnterHidden, MI!Enter, MI!PushCompound
<1>2. /\ MI!Visit /\ checks' = checks /\ m_last_assigned' = m_last_assigned
      /\ m_ctor_body_stack' = m_ctor_body_stack /\ declared' = declared
      /\ reports' = reports /\ locals' = locals
  BY DEF MI!EnterBlock, MI!EnterHidden, MI!Enter
<1>3. k \in MI!Kinds
  BY DEF MI!Kinds
<1>4. declared' = declared \ {next}
  <2>1. next \in Int /\ \A d \in declared : d \in Int /\ d < next
    BY MIType
  <2> QED
    BY <1>2, <2>1
<1>5. /\ MI!TraversalTypeOK(MI!Kinds)' /\ MINodesAreDistinct' /\ MI!BlocksAreStacked'
      /\ next' = next + 1 /\ m_comp_stmt_stack' \in Seq(MI!Nodes)
      /\ declared' \subseteq MI!Nodes
  BY <1>1, <1>2, <1>3, <1>4, MIEnter
<1>6. /\ reports' \subseteq [what : MI!Messages, node : MI!Nodes]
      /\ m_ctor_body_stack' \in Seq(MI!Nodes \cup {MI!Null})
  BY <1>2 DEF MIInv, MI!TypeOK
<1> QED
  BY <1>2, <1>5, <1>6, MIQuiet

(* A new local has no count. *)
LEMMA MIVisitVarDecl ==
  ASSUME MIInv, NEW global \in BOOLEAN, MI!VisitVarDecl(global)
  PROVE  MIInv'
<1> DEFINE new == [decl |-> next, scope |-> open, last |-> FALSE, hidden |-> FALSE]
<1>1. /\ MI!VisitLeaf /\ checks' = checks /\ m_last_assigned' = m_last_assigned
      /\ m_comp_stmt_stack' = m_comp_stmt_stack /\ m_ctor_body_stack' = m_ctor_body_stack
      /\ declared' = declared
      /\ reports' \subseteq reports \cup MI!Note("static-in-header", {next})
      /\ locals' = locals \/ locals' = locals \cup {new}
  BY DEF MI!VisitVarDecl
<1>2. /\ MI!TraversalTypeOK(MI!Kinds)' /\ MINodesAreDistinct' /\ MI!BlocksAreStacked'
      /\ next' = next + 1 /\ next \in MI!Nodes /\ declared' \subseteq MI!Nodes
      /\ open' = open /\ m_comp_stmt_stack' \in Seq(MI!Nodes)
  BY <1>1, MIVisitLeaf
<1>3. /\ MI!Nodes = 1..FewNodes /\ next \in Int
      /\ open \in Seq([id : 1..FewNodes, kind : MI!Kinds])
      /\ \A v \in locals : v.decl \in Int /\ v.decl < next
      /\ \A d \in DOMAIN m_last_assigned : d \in Int /\ d < next
      /\ MI!LastReferencesAreAssignments /\ MICountsAreHidden
  BY MIType
<1>4. new.decl = next
  OBVIOUS
<1>5. new \in MI!Local
  BY <1>2, <1>3 DEF MI!Local
<1> HIDE DEF new
<1>6. MI!TypeOK'
  <2>1. reports' \subseteq [what : MI!Messages, node : MI!Nodes]
    <3>1. MI!Note("static-in-header", {next}) \subseteq [what : MI!Messages, node : MI!Nodes]
      BY <1>2 DEF MI!Note, MI!Messages
    <3>2. reports \subseteq [what : MI!Messages, node : MI!Nodes]
      BY DEF MIInv, MI!TypeOK
    <3> QED
      BY <1>1, <3>1, <3>2
  <2>2. locals' \subseteq MI!Local
    BY <1>1, <1>5 DEF MIInv, MI!TypeOK
  <2>3. /\ checks' \subseteq {"temporary-in-ctor", "static-keyword"}
        /\ DOMAIN m_last_assigned' \subseteq MI!Nodes
        /\ \A d \in DOMAIN m_last_assigned' : m_last_assigned'[d] \in {0, 1}
        /\ m_ctor_body_stack' \in Seq(MI!Nodes \cup {MI!Null})
    BY <1>1 DEF MIInv, MI!TypeOK
  <2> QED
    BY <1>2, <2>1, <2>2, <2>3 DEF MI!TypeOK, MI!Nodes, MI!Null, MI!Local
<1>7. next \notin DOMAIN m_last_assigned
  BY <1>3
<1>8. MI!LastReferencesAreAssignments'
  BY <1>1, <1>3, <1>4, <1>7 DEF MI!LastReferencesAreAssignments
<1>9. MICountsAreHidden'
  <2>1. /\ next < next'
        /\ \A v \in locals : v.decl < next' /\ v.decl # next
        /\ \A d \in DOMAIN m_last_assigned : d < next'
    BY <1>2, <1>3, Later
  <2>2. \A v \in locals' : v.decl < next'
    BY <1>1, <1>4, <2>1
  <2>3. \A v, w \in locals' : v.decl = w.decl => v = w
    <3>1. \A v, w \in locals : v.decl = w.decl => v = w
      BY <1>3 DEF MICountsAreHidden
    <3> QED
      BY <1>1, <1>4, <2>1, <3>1
  <2>4. \A v \in locals' :
          v.decl \in DOMAIN m_last_assigned' => (m_last_assigned'[v.decl] = 1 => v.hidden)
    <3>1. \A v \in locals :
            v.decl \in DOMAIN m_last_assigned => (m_last_assigned[v.decl] = 1 => v.hidden)
      BY <1>3 DEF MICountsAreHidden
    <3> QED
      BY <1>1, <1>4, <1>7, <3>1
  <2> QED
    BY <1>1, <2>1, <2>2, <2>3, <2>4 DEF MICountsAreHidden
<1> QED
  BY <1>2, <1>6, <1>8, <1>9 DEF MIInv

(* What removeAssigned does to the counts.  *)
LEMMA MIremoveAssigned ==
  ASSUME NEW counts, NEW d, \A e \in DOMAIN counts : counts[e] \in {0, 1}
  PROVE  LET after == MI!removeAssigned(counts, d)
         IN  /\ DOMAIN after \subseteq DOMAIN counts
             /\ \A e \in DOMAIN after : after[e] \in {0, 1}
             /\ \A e \in DOMAIN after : e # d => after[e] = counts[e]
             /\ d \in DOMAIN after => counts[d] = 1 /\ after[d] = 0
<1> DEFINE after == MI!removeAssigned(counts, d)
<1>1. CASE d \notin DOMAIN counts
  <2>1. after = counts
    BY <1>1 DEF MI!removeAssigned
  <2> HIDE DEF after
  <2>2. /\ DOMAIN after \subseteq DOMAIN counts
        /\ \A e \in DOMAIN after : after[e] \in {0, 1}
        /\ \A e \in DOMAIN after : e # d => after[e] = counts[e]
        /\ d \in DOMAIN after => counts[d] = 1 /\ after[d] = 0
    BY <1>1, <2>1
  <2> QED
    BY <2>2 DEF after
<1>2. CASE d \in DOMAIN counts /\ counts[d] # 0
  <2>1. after = [counts EXCEPT ![d] = counts[d] - 1]
    BY <1>2 DEF MI!removeAssigned
  <2>2. counts[d] = 1 /\ 1 - 1 = 0
    BY <1>2
  <2> HIDE DEF after
  <2>3. /\ DOMAIN after = DOMAIN counts
        /\ \A e \in DOMAIN after : e # d => after[e] = counts[e]
        /\ after[d] = 0
    BY <1>2, <2>1, <2>2
  <2>4. \A e \in DOMAIN after : after[e] \in {0, 1}
    BY <2>3
  <2>5. /\ DOMAIN after \subseteq DOMAIN counts
        /\ \A e \in DOMAIN after : after[e] \in {0, 1}
        /\ \A e \in DOMAIN after : e # d => after[e] = counts[e]
        /\ d \in DOMAIN after => counts[d] = 1 /\ after[d] = 0
    BY <2>2, <2>3, <2>4
  <2> QED
    BY <2>5 DEF after
<1>3. CASE d \in DOMAIN counts /\ counts[d] = 0
  <2>1. after = [e \in DOMAIN counts \ {d} |-> counts[e]]
    BY <1>3 DEF MI!removeAssigned, MI!Without
  <2> HIDE DEF after
  <2>2. /\ DOMAIN after \subseteq DOMAIN counts
        /\ \A e \in DOMAIN after : after[e] \in {0, 1}
        /\ \A e \in DOMAIN after : e # d => after[e] = counts[e]
        /\ d \in DOMAIN after => counts[d] = 1 /\ after[d] = 0
    BY <2>1
  <2> QED
    BY <2>2 DEF after
<1> QED
  BY <1>1, <1>2, <1>3

(* A local is referred to, maybe with a count added before: what is left of *)
(* its count comes with a reference that was hidden or its assignment.      *)
LEMMA MIRefer ==
  ASSUME MIInv, MI!VisitLeaf, NEW v \in locals, NEW a \in BOOLEAN, NEW hidden \in BOOLEAN,
         NEW counts, m_last_assigned' = MI!Refer(counts, v.decl, hidden),
         \/ counts = m_last_assigned
         \/ /\ counts = MI!addAssigned(m_last_assigned, v.decl)
            /\ a,
         locals' = (locals \ {v}) \cup {[v EXCEPT !.last = a, !.hidden = @ \/ hidden]},
         UNCHANGED <<checks, m_ctor_body_stack, m_comp_stmt_stack, declared, reports>>
  PROVE  MIInv'
<1> DEFINE u == [v EXCEPT !.last = a, !.hidden = @ \/ hidden]
           was == m_last_assigned
           now == m_last_assigned'
           d == v.decl
<1>1. /\ MI!TraversalTypeOK(MI!Kinds)' /\ MINodesAreDistinct' /\ MI!BlocksAreStacked'
      /\ next' = next + 1 /\ declared' \subseteq MI!Nodes
      /\ open' = open /\ m_comp_stmt_stack' \in Seq(MI!Nodes)
  BY MIVisitLeaf
<1>2. /\ MI!Nodes = 1..FewNodes /\ next \in Int
      /\ \A w \in locals : w \in MI!Local /\ w.decl \in 1..FewNodes
      /\ \A w \in locals : w.decl \in Int /\ w.decl < next
      /\ \A e \in DOMAIN was : e \in Int /\ e < next
      /\ \A e \in DOMAIN was : was[e] \in {0, 1}
      /\ MI!LastReferencesAreAssignments /\ MICountsAreHidden
  BY MIType
<1>3. u \in MI!Local /\ u.decl = d /\ u.last = a /\ (u.hidden <=> v.hidden \/ hidden)
  BY <1>2 DEF MI!Local
<1>4. locals' = (locals \ {v}) \cup {u}
  OBVIOUS
<1> HIDE DEF u
<1>5. /\ DOMAIN was \subseteq DOMAIN counts /\ DOMAIN counts \subseteq DOMAIN was \cup {d}
      /\ \A e \in DOMAIN was : counts[e] = was[e]
      /\ \A e \in DOMAIN counts : e \in DOMAIN was \/ (e = d /\ a)
      /\ \A e \in DOMAIN counts : counts[e] \in {0, 1}
  <2>1. CASE counts = was
    BY <1>2, <2>1
  <2>2. CASE counts = MI!addAssigned(was, d) /\ a
    BY <1>2, <2>2 DEF MI!addAssigned
  <2> QED
    BY <2>1, <2>2
<1>6. /\ DOMAIN now \subseteq DOMAIN counts
      /\ \A e \in DOMAIN now : now[e] \in {0, 1}
      /\ \A e \in DOMAIN now : e # d => now[e] = counts[e]
      /\ hidden \/ (d \in DOMAIN now => counts[d] = 1 /\ now[d] = 0)
  <2>1. CASE hidden /\ now = counts
    BY <1>5, <2>1
  <2>2. CASE now = MI!removeAssigned(counts, d)
    BY <1>5, <2>2, MIremoveAssigned
  <2> QED
    BY <2>1, <2>2 DEF MI!Refer
<1>7. d \in DOMAIN now => u.last \/ u.hidden
  <2>1. CASE hidden
    BY <1>3, <2>1
  <2>2. CASE a
    BY <1>3, <2>2
  <2>3. CASE ~hidden /\ ~a /\ d \in DOMAIN now
    <3>1. d \in DOMAIN was /\ was[d] = 1
      BY <1>5, <1>6, <2>3
    <3>2. v.hidden
      BY <1>2, <3>1 DEF MICountsAreHidden
    <3> QED
      BY <1>3, <3>2
  <2> QED
    BY <2>1, <2>2, <2>3
<1>8. d \in DOMAIN now => (now[d] = 1 => u.hidden)
  BY <1>3, <1>6
<1>9. \A w \in locals \ {v} : w.decl # d
  BY <1>2 DEF MICountsAreHidden
<1>10. \A w \in locals \ {v} :
         w.decl \in DOMAIN now => w.decl \in DOMAIN was /\ now[w.decl] = was[w.decl]
  BY <1>5, <1>6, <1>9
<1>11. MI!TypeOK'
  <2>1. DOMAIN now \subseteq MI!Nodes
    <3>1. DOMAIN was \subseteq MI!Nodes /\ d \in MI!Nodes
      BY <1>2 DEF MIInv, MI!TypeOK
    <3> QED
      BY <1>5, <1>6, <3>1
  <2>2. locals' \subseteq MI!Local
    BY <1>2, <1>3, <1>4
  <2>3. /\ checks' \subseteq {"temporary-in-ctor", "static-keyword"}
        /\ m_ctor_body_stack' \in Seq(MI!Nodes \cup {MI!Null})
        /\ reports' \subseteq [what : MI!Messages, node : MI!Nodes]
    BY DEF MIInv, MI!TypeOK
  <2> HIDE DEF now
  <2> QED
    BY <1>1, <1>6, <2>1, <2>2, <2>3 DEF MI!TypeOK, MI!Nodes, MI!Null, MI!Local, now
<1>12. MI!LastReferencesAreAssignments'
  <2>1. \A w \in locals : w.decl \in DOMAIN was => w.last \/ w.hidden
    BY <1>2 DEF MI!LastReferencesAreAssignments
  <2>2. \A w \in locals' : w.decl \in DOMAIN now => w.last \/ w.hidden
    BY <1>3, <1>4, <1>7, <1>10, <2>1
  <2> QED
    BY <2>2 DEF MI!LastReferencesAreAssignments
<1>13. MICountsAreHidden'
  <2>1. /\ \A w \in locals : w.decl < next'
        /\ \A e \in DOMAIN was : e < next'
    BY <1>1, <1>2, Later
  <2>2. \A w \in locals' : w.decl < next'
    BY <1>3, <1>4, <2>1
  <2>3. \A e \in DOMAIN now : e < next'
    BY <1>5, <1>6, <2>1
  <2>4. \A w, x \in locals' : w.decl = x.decl => w = x
    <3>1. \A w, x \in locals : w.decl = x.decl => w = x
      BY <1>2 DEF MICountsAreHidden
    <3> QED
      BY <1>3, <1>4, <1>9, <3>1
  <2>5. \A w \in locals' : w.decl \in DOMAIN now => (now[w.decl] = 1 => w.hidden)
    <3>1. \A w \in locals : w.decl \in DOMAIN was => (was[w.decl] = 1 => w.hidden)
      BY <1>2 DEF MICountsAreHidden
    <3> QED
      BY <1>3, <1>4, <1>8, <1>10, <3>1
  <2> QED
    BY <2>2, <2>3, <2>4, <2>5 DEF MICountsAreHidden
<1> QED
  BY <1>1, <1>11, <1>12, <1>13 DEF MIInv

LEMMA MIVisitUse ==
  ASSUME MIInv, NEW v \in MI!InScope, NEW hidden \in BOOLEAN, MI!VisitUse(v, hidden)
  PROVE  MIInv'
<1>1. v \in locals
  BY DEF MI!InScope
<1>2. /\ MI!VisitLeaf /\ m_last_assigned' = MI!Refer(m_last_assigned, v.decl, hidden)
      /\ locals' = (locals \ {v}) \cup {[v EXCEPT !.last = FALSE, !.hidden = @ \/ hidden]}
      /\ UNCHANGED <<checks, m_ctor_body_stack, m_comp_stmt_stack, declared, reports>>
  BY DEF MI!VisitUse, MI!Remember
<1> QED
  BY <1>1, <1>2, MIRefer

LEMMA MIVisitAssignment ==
  ASSUME MIInv, NEW v \in MI!InScope, NEW hidden \in BOOLEAN, MI!VisitAssignment(v, hidden)
  PROVE  MIInv'
<1> DEFINE counts == IF ~hidden \/ MI!currCtor # MI!Null
                       THEN MI!addAssigned(m_last_assigned, v.decl) ELSE m_last_assigned
<1>1. v \in locals
  BY DEF MI!InScope
<1>2. /\ MI!VisitLeaf /\ m_last_assigned' = MI!Refer(counts, v.decl, hidden)
      /\ locals' = (locals \ {v}) \cup {[v EXCEPT !.last = TRUE, !.hidden = @ \/ hidden]}
      /\ UNCHANGED <<checks, m_ctor_body_stack, m_comp_stmt_stack, declared, reports>>
  BY DEF MI!VisitAssignment, MI!Remember
<1>3. counts = m_last_assigned \/ counts = MI!addAssigned(m_last_assigned, v.decl)
  OBVIOUS
<1> HIDE DEF counts
<1> QED
  BY <1>1, <1>2, <1>3, MIRefer

LEMMA MILeaveCtor ==
  ASSUME MIInv, MI!LeaveCtor
  PROVE  MIInv'
<1>1. /\ MI!LeaveStmt(MI!Kinds) /\ MI!PopCompound(MI!Top(open))
      /\ MI!EndsCtor(MI!Top(open)) /\ m_ctor_body_stack' = MI!Pop(m_ctor_body_stack)
      /\ reports' = reports \cup MI!Note("useless-temp", DOMAIN m_last_assigned)
      /\ m_last_assigned' = <<>>
      /\ checks' = checks /\ declared' = declared /\ locals' = locals
  BY DEF MI!LeaveCtor
<1>2. /\ MI!TraversalTypeOK(MI!Kinds)' /\ MINodesAreDistinct' /\ MI!BlocksAreStacked'
      /\ next' = next /\ m_comp_stmt_stack' \in Seq(MI!Nodes) /\ MI!Top(open).id \in MI!Nodes
  BY <1>1, MILeave
<1>3. m_ctor_body_stack # <<>>
  <2>1. MI!currCtor # MI!Null
    BY <1>1, <1>2, MIType DEF MI!EndsCtor
  <2> QED
    BY <2>1 DEF MI!currCtor
<1>4. m_ctor_body_stack' \in Seq(MI!Nodes \cup {MI!Null})
  <2>1. m_ctor_body_stack \in Seq(MI!Nodes \cup {MI!Null})
    BY DEF MIInv, MI!TypeOK
  <2> QED
    BY <1>1, <1>3, <2>1, PopBack DEF MI!Pop
<1>5. DOMAIN m_last_assigned' = {}
  BY <1>1
<1>6. reports' \subseteq [what : MI!Messages, node : MI!Nodes]
  <2>1. DOMAIN m_last_assigned \subseteq MI!Nodes
        /\ reports \subseteq [what : MI!Messages, node : MI!Nodes]
    BY DEF MIInv, MI!TypeOK
  <2>2. MI!Note("useless-temp", DOMAIN m_last_assigned)
          \subseteq [what : MI!Messages, node : MI!Nodes]
    BY <2>1 DEF MI!Note, MI!Messages
  <2> QED
    BY <1>1, <2>1, <2>2
<1>7. MI!TypeOK'
  <2>1. /\ checks' \subseteq {"temporary-in-ctor", "static-keyword"}
        /\ declared' \subseteq MI!Nodes /\ locals' \subseteq MI!Local
    BY <1>1 DEF MIInv, MI!TypeOK
  <2> QED
    BY <1>2, <1>4, <1>5, <1>6, <2>1 DEF MI!TypeOK, MI!Nodes, MI!Null, MI!Local
<1>8. MI!LastReferencesAreAssignments'
  BY <1>5 DEF MI!LastReferencesAreAssignments
<1>9. MICountsAreHidden'
  BY <1>1, <1>2, <1>5 DEF MIInv, MICountsAreHidden
<1> QED
  BY <1>2, <1>7, <1>8, <1>9 DEF MIInv

LEMMA MILeaveBlock ==
  ASSUME MIInv, MI!LeaveBlock
  PROVE  MIInv'
<1>1. /\ MI!LeaveStmt(MI!Kinds) /\ MI!PopCompound(MI!Top(open))
      /\ checks' = checks /\ m_last_assigned' = m_last_assigned
      /\ m_ctor_body_stack' = m_ctor_body_stack /\ declared' = declared
      /\ reports' = reports /\ locals' = locals
  BY DEF MI!LeaveBlock
<1>2. /\ MI!TraversalTypeOK(MI!Kinds)' /\ MINodesAreDistinct' /\ MI!BlocksAreStacked'
      /\ next' = next /\ m_comp_stmt_stack' \in Seq(MI!Nodes)
  BY <1>1, MILeave
<1>3. /\ reports' \subseteq [what : MI!Messages, node : MI!Nodes]
      /\ m_ctor_body_stack' \in Seq(MI!Nodes \cup {MI!Null})
      /\ declared' \subseteq MI!Nodes
  BY <1>1 DEF MIInv, MI!TypeOK
<1> QED
  BY <1>1, <1>2, <1>3, MIQuiet

LEMMA MIInit ==
  ASSUME MI!Init
  PROVE  MIInv
<1>1. /\ FewNodes \in Nat /\ open = <<>> /\ next = 1
      /\ checks \in SUBSET {"temporary-in-ctor", "static-keyword"}
      /\ m_last_assigned = <<>> /\ m_ctor_body_stack = <<>> /\ m_comp_stmt_stack = <<>>
      /\ declared = {} /\ reports = {} /\ locals = {}
  BY VisitorsAssumption DEF MI!Init, MI!TraversalInit
<1>2. (\A S : <<>> \in Seq(S)) /\ DOMAIN <<>> = {} /\ Len(<<>>) = 0
  OBVIOUS
<1>3. DOMAIN m_last_assigned = {} /\ Len(open) = 0 /\ Len(m_comp_stmt_stack) = 0
  BY <1>1, <1>2
<1>4. MI!TypeOK
  <2>1. MI!TraversalTypeOK(MI!Kinds)
    BY <1>1, <1>2 DEF MI!TraversalTypeOK
  <2> QED
    BY <1>1, <1>2, <1>3, <2>1 DEF MI!TypeOK
<1>5. MI!BlocksAreStacked
  BY <1>1, <1>3 DEF MI!BlocksAreStacked
<1> QED
  BY <1>1, <1>3, <1>4, <1>5 DEF MIInv, MINodesAreDistinct, MI!LastReferencesAreAssignments,
     MICountsAreHidden

LEMMA MINext ==
  ASSUME MIInv, MI!Next
  PROVE  MIInv'
BY MIEnterCtor, MIVisitCtorDeclaration, MIEnterBlock, MIVisitVarDecl, MIVisitUse,
   MIVisitAssignment, MILeaveCtor, MILeaveBlock DEF MI!Next

LEMMA MIStutter ==
  ASSUME MIInv, UNCHANGED MI!vars
  PROVE  MIInv'
<1>1. UNCHANGED <<open, next, checks, m_last_assigned, m_ctor_body_stack, m_comp_stmt_stack,
                  declared, reports, locals>>
  BY DEF MI!vars
<1>2. MI!TypeOK'
  BY <1>1 DEF MIInv, MI!TypeOK, MI!TraversalTypeOK, MI!Nodes, MI!Null, MI!Local
<1>3. MINodesAreDistinct' /\ MI!BlocksAreStacked'
  BY <1>1, MIBlocksStay DEF MIInv, MINodesAreDistinct
<1> QED
  BY <1>1, <1>2, <1>3 DEF MIInv, MI!LastReferencesAreAssignments, MICountsAreHidden

-----------------------------------------------------------------------------
(* BadRandVisitor.                                                          *)

(* What m_comp_stmt_stack holds: all of the open blocks, in their order,    *)
(* among blocks that were left; the null only at its bottom.                *)
BRStack ==
  /\ \A k \in 1..Len(rand_comp_stmt_stack) :
       /\ rand_comp_stmt_stack[k] < next
       /\ rand_comp_stmt_stack[k] = 0 <=> k = 1
       /\ \A i \in 1..Len(open) :
            open[i].id = rand_comp_stmt_stack[k] => open[i].kind = "compound"
  /\ \A k, l \in 1..Len(rand_comp_stmt_stack) : \A i, j \in 1..Len(open) :
       /\ k < l
       /\ open[i].id = rand_comp_stmt_stack[k] /\ open[j].id = rand_comp_stmt_stack[l]
       => rand_comp_stmt_stack[k] < rand_comp_stmt_stack[l]
  /\ \A i \in 1..Len(open) :
       open[i].kind = "compound" =>
         \E k \in 1..Len(rand_comp_stmt_stack) : rand_comp_stmt_stack[k] = open[i].id

(* What m_ctor_body_stack holds besides: nothing but bodies, and none that  *)
(* the compiler wrote is traversed.                                         *)
BRCtors ==
  /\ \A k \in 1..Len(m_ctor_body_stack) :
       /\ m_ctor_body_stack[k] < next
       /\ \A i \in 1..Len(open) :
            open[i].id = m_ctor_body_stack[k] => open[i].kind \in {"ctor", "compound", "try"}
  /\ \A s \in synthesized : s < next /\ ~BR!IsOpen(s)

(* An engine that is kept was neither moved from nor used in a loop, unless *)
(* by hidden code, and is kept with the block around it unless with one     *)
(* that was left before.                                                    *)
BREngines ==
  /\ \A e \in engines : e.decl < next
  /\ \A m \in m_rand_engns : m.engn_decl < next /\ m.comp_stmt < next
  /\ \A m \in m_rand_engns, e \in engines :
       e.decl = m.engn_decl =>
         ~e.busy /\ (m.comp_stmt = e.block \/ ~BR!IsOpen(m.comp_stmt))

BRInv ==
  /\ BR!TypeOK /\ OpenIsOrdered
  /\ BR!DepthIsOpenLoops /\ BR!SeedFlagIsSound
  /\ BRStack /\ BR!CtorsAreStacked /\ BRCtors /\ BREngines

(* What the types say. *)
LEMMA BRType ==
  ASSUME BRInv
  PROVE  /\ FewNodes - 1 \in Nat /\ BR!Nodes = 1..(FewNodes - 1)
         /\ open \in Seq([id : 1..(FewNodes - 1), kind : BR!Kinds])
         /\ next \in 1..(FewNodes - 1 + 1) /\ next \in Int /\ Len(open) \in Nat
         /\ \A i \in 1..Len(open) : open[i].id \in 1..(FewNodes - 1) /\ open[i].kind \in BR!Kinds
         /\ \A i \in 1..Len(open) : open[i].id \in Int /\ open[i].id # 0
         /\ Len(rand_comp_stmt_stack) \in Nat /\ Len(rand_comp_stmt_stack) >= 1
         /\ \A k \in 1..Len(rand_comp_stmt_stack) : rand_comp_stmt_stack[k] \in Int
         /\ Len(m_ctor_body_stack) \in Nat
         /\ \A k \in 1..Len(m_ctor_body_stack) : m_ctor_body_stack[k] \in Int
<1>1. /\ FewNodes - 1 \in Nat /\ BR!Nodes = 1..(FewNodes - 1)
      /\ open \in Seq([id : 1..(FewNodes - 1), kind : BR!Kinds])
      /\ next \in 1..(FewNodes - 1 + 1)
      /\ rand_comp_stmt_stack \in Seq(1..(FewNodes - 1) \cup {0})
      /\ rand_comp_stmt_stack # <<>>
      /\ m_ctor_body_stack \in Seq(1..(FewNodes - 1))
  BY VisitorsAssumption DEF BRInv, BR!TypeOK, BR!TraversalTypeOK, BR!Nodes, BR!Null
<1>2. /\ Len(open) \in Nat
      /\ \A i \in 1..Len(open) : open[i].id \in 1..(FewNodes - 1) /\ open[i].kind \in BR!Kinds
  BY <1>1, OpenNodes
<1>3. \A k \in 1..Len(rand_comp_stmt_stack) : rand_comp_stmt_stack[k] \in 1..(FewNodes - 1) \cup {0}
  BY <1>1, ElementOfSeq
<1>4. \A k \in 1..Len(m_ctor_body_stack) : m_ctor_body_stack[k] \in 1..(FewNodes - 1)
  BY <1>1, ElementOfSeq
<1>5. Len(rand_comp_stmt_stack) \in Nat /\ Len(rand_comp_stmt_stack) >= 1
  BY <1>1
<1>6. Len(m_ctor_body_stack) \in Nat
  BY <1>1
<1> QED
  BY <1>1, <1>2, <1>3, <1>4, <1>5, <1>6

(* What a step does to the open nodes. *)
LEMMA BREntered ==
  ASSUME BRInv, NEW k \in BR!Kinds, BR!Enter(k)
  PROVE  /\ next' = next + 1 /\ next \in BR!Nodes
         /\ BR!TraversalTypeOK(BR!Kinds)' /\ OpenIsOrdered'
         /\ Len(open) \in Nat /\ Len(open') \in Nat
         /\ \A i \in 1..Len(open) : i \in 1..Len(open') /\ open'[i] = open[i] /\ i # Len(open')
         /\ Len(open') \in 1..Len(open')
         /\ open'[Len(open')].id = next /\ open'[Len(open')].kind = k
         /\ \A i \in 1..Len(open') : i \in 1..Len(open) \/ i = Len(open')
         /\ \A n : BR!IsOpen(n)' <=> BR!IsOpen(n) \/ n = next
<1>1. /\ next' = next + 1 /\ next <= FewNodes - 1
      /\ open' = Append(open, [id |-> next, kind |-> k])
  BY DEF BR!Enter, BR!Visit
<1>2. /\ FewNodes - 1 \in Nat /\ BR!Nodes = 1..(FewNodes - 1)
      /\ open \in Seq([id : 1..(FewNodes - 1), kind : BR!Kinds])
      /\ next \in 1..(FewNodes - 1 + 1) /\ OpenIsOrdered
  BY BRType DEF BRInv
<1>3. /\ open' \in Seq([id : 1..(FewNodes - 1), kind : BR!Kinds])
      /\ next' \in 1..(FewNodes - 1 + 1) /\ OpenIsOrdered'
      /\ Len(open) \in Nat /\ Len(open') \in Nat
      /\ \A i \in 1..Len(open) : i \in 1..Len(open') /\ open'[i] = open[i] /\ i # Len(open')
      /\ Len(open') \in 1..Len(open')
      /\ open'[Len(open')].id = next /\ open'[Len(open')].kind = k
      /\ \A i \in 1..Len(open') : i \in 1..Len(open) \/ i = Len(open')
  BY <1>1, <1>2, Pushed
<1>4. \A n : BR!IsOpen(n)' <=> BR!IsOpen(n) \/ n = next
  BY <1>3 DEF BR!IsOpen
<1>5. next \in BR!Nodes /\ BR!TraversalTypeOK(BR!Kinds)'
  BY <1>1, <1>2, <1>3 DEF BR!TraversalTypeOK
<1> QED
  BY <1>1, <1>3, <1>4, <1>5

LEMMA BRLeft ==
  ASSUME BRInv, NEW K, BR!LeaveStmt(K)
  PROVE  /\ next' = next /\ BR!Top(open) = open[Len(open)] /\ open[Len(open)].kind \in K
         /\ open[Len(open)].id \in BR!Nodes
         /\ BR!TraversalTypeOK(BR!Kinds)' /\ OpenIsOrdered'
         /\ Len(open) \in Nat /\ Len(open') \in Nat /\ Len(open') < Len(open)
         /\ \A i \in 1..Len(open') : i \in 1..Len(open) /\ open'[i] = open[i] /\ i # Len(open)
         /\ Len(open) \in 1..Len(open)
         /\ \A i \in 1..Len(open) : i \in 1..Len(open') \/ i = Len(open)
         /\ \A i \in 1..Len(open') : open[i].id < open[Len(open)].id
         /\ \A n : BR!IsOpen(n)' <=> BR!IsOpen(n) /\ n # open[Len(open)].id
         /\ BR!IsOpen(open[Len(open)].id)
<1>1. /\ open # <<>> /\ next' = next /\ BR!Top(open) = open[Len(open)]
      /\ open[Len(open)].kind \in K
      /\ open' = SubSeq(open, 1, Len(open) - 1)
  BY DEF BR!LeaveStmt, BR!Top, BR!Pop, Top
<1>2. /\ FewNodes - 1 \in Nat /\ BR!Nodes = 1..(FewNodes - 1)
      /\ open \in Seq([id : 1..(FewNodes - 1), kind : BR!Kinds])
      /\ next \in 1..(FewNodes - 1 + 1) /\ OpenIsOrdered
      /\ \A i \in 1..Len(open) : open[i].id \in Int
  BY BRType DEF BRInv
<1>3. /\ open' \in Seq([id : 1..(FewNodes - 1), kind : BR!Kinds])
      /\ next' \in 1..(FewNodes - 1 + 1) /\ OpenIsOrdered'
      /\ Len(open) \in Nat /\ Len(open') \in Nat
      /\ \A i \in 1..Len(open') : i \in 1..Len(open) /\ open'[i] = open[i] /\ i # Len(open)
      /\ Len(open) \in 1..Len(open) /\ open[Len(open)].id \in 1..(FewNodes - 1)
      /\ \A i \in 1..Len(open) : i \in 1..Len(open') \/ i = Len(open)
      /\ \A i \in 1..Len(open') : open[i].id < open[Len(open)].id
  BY <1>1, <1>2, Popped
<1>4. \A i \in 1..Len(open') : open[i].id # open[Len(open)].id
  BY <1>2, <1>3
<1>5. \A n : BR!IsOpen(n)' <=> BR!IsOpen(n) /\ n # open[Len(open)].id
  BY <1>3, <1>4 DEF BR!IsOpen
<1>6. BR!TraversalTypeOK(BR!Kinds)'
  BY <1>1, <1>2, <1>3 DEF BR!TraversalTypeOK
<1>7. BR!IsOpen(open[Len(open)].id)
  BY <1>3 DEF BR!IsOpen
<1>8. Len(open') < Len(open)
  BY <1>3
<1> QED
  BY <1>1, <1>2, <1>3, <1>5, <1>6, <1>7, <1>8

LEMMA BRStayed ==
  ASSUME BRInv, BR!Visit, open' = open
  PROVE  /\ next' = next + 1 /\ next \in BR!Nodes
         /\ BR!TraversalTypeOK(BR!Kinds)' /\ OpenIsOrdered'
         /\ \A n : BR!IsOpen(n)' <=> BR!IsOpen(n)
<1>1. next' = next + 1 /\ next <= FewNodes - 1
  BY DEF BR!Visit
<1>2. /\ FewNodes - 1 \in Nat /\ BR!Nodes = 1..(FewNodes - 1)
      /\ open \in Seq([id : 1..(FewNodes - 1), kind : BR!Kinds])
      /\ next \in 1..(FewNodes - 1 + 1) /\ OpenIsOrdered
  BY BRType DEF BRInv
<1>3. /\ open' \in Seq([id : 1..(FewNodes - 1), kind : BR!Kinds])
      /\ next' \in 1..(FewNodes - 1 + 1) /\ OpenIsOrdered'
  BY <1>1, <1>2, Stayed
<1>4. BR!TraversalTypeOK(BR!Kinds)' /\ next \in BR!Nodes
  BY <1>1, <1>2, <1>3 DEF BR!TraversalTypeOK
<1> QED
  BY <1>1, <1>3, <1>4 DEF BR!IsOpen

(* The body of a constructor takes the place of the constructor. *)
LEMMA BRBodied ==
  ASSUME BRInv, NEW k \in BR!Kinds, BR!EnterCtorBody(k)
  PROVE  /\ next' = next /\ Len(open') = Len(open) /\ Len(open) \in 1..Len(open)
         /\ BR!TraversalTypeOK(BR!Kinds)' /\ OpenIsOrdered'
         /\ BR!Top(open) = open[Len(open)]
         /\ open[Len(open)].kind = "ctor" /\ open'[Len(open)].kind = k
         /\ open[Len(open)].id \in BR!Nodes
         /\ \A i \in 1..Len(open) : open'[i].id = open[i].id
         /\ \A i \in 1..Len(open) : i = Len(open) \/ open'[i] = open[i]
         /\ \A i \in 1..Len(open) : open[i].id <= open[Len(open)].id
         /\ \A n : BR!IsOpen(n)' <=> BR!IsOpen(n)
<1> DEFINE N == [id : 1..(FewNodes - 1), kind : BR!Kinds]
           new == [id |-> open[Len(open)].id, kind |-> k]
           rest == SubSeq(open, 1, Len(open) - 1)
<1>1. /\ open # <<>> /\ next' = next /\ BR!Top(open) = open[Len(open)]
      /\ open[Len(open)].kind = "ctor"
      /\ open' = Append(rest, new)
  BY DEF BR!EnterCtorBody, BR!Top, BR!Pop
<1>2. /\ FewNodes - 1 \in Nat /\ BR!Nodes = 1..(FewNodes - 1)
      /\ open \in Seq(N)
      /\ next \in 1..(FewNodes - 1 + 1) /\ OpenIsOrdered
      /\ \A i \in 1..Len(open) : open[i].id \in Int
  BY BRType DEF BRInv
<1>3. Len(open) \in 1..Len(open) /\ open[Len(open)] \in N
  BY <1>1, <1>2, Back
<1>4. new \in N /\ new.id = open[Len(open)].id /\ new.kind = k
  BY <1>3
<1> HIDE DEF N, new
<1>5. /\ rest \in Seq(N) /\ Len(open) \in Nat /\ Len(rest) \in Nat
      /\ Len(open) = Len(rest) + 1
      /\ \A i \in 1..Len(rest) : rest[i] = open[i]
  BY <1>1, <1>2, Shrunk
<1> HIDE DEF rest
<1>6. /\ open' \in Seq(N) /\ Len(open') = Len(rest) + 1
      /\ \A i \in 1..Len(rest) : open'[i] = rest[i]
      /\ open'[Len(open')] = new
  BY <1>1, <1>4, <1>5, Grown
<1>7. /\ Len(open') = Len(open) /\ open'[Len(open)] = new
      /\ \A i \in 1..Len(open) : i = Len(open) \/ open'[i] = open[i]
  BY <1>5, <1>6
<1>8. \A i \in 1..Len(open) : open'[i].id = open[i].id
  BY <1>4, <1>7
<1>9. OpenIsOrdered'
  BY <1>1, <1>2, <1>7, <1>8 DEF OpenIsOrdered
<1>10. BR!TraversalTypeOK(BR!Kinds)' /\ open[Len(open)].id \in BR!Nodes
  BY <1>1, <1>2, <1>3, <1>6 DEF BR!TraversalTypeOK, N
<1>11. \A i \in 1..Len(open) : open[i].id <= open[Len(open)].id
  BY <1>2, <1>3, <1>5 DEF OpenIsOrdered
<1>12. \A n : BR!IsOpen(n)' <=> BR!IsOpen(n)
  BY <1>7, <1>8 DEF BR!IsOpen
<1> QED
  BY <1>1, <1>3, <1>4, <1>7, <1>8, <1>9, <1>10, <1>11, <1>12

-----------------------------------------------------------------------------
(* m_cycle_depth and m_is_defining_seed. *)

(* BadRand takes its own instance of the library. *)
LEMMA BRCardinality == \A S : BR!Cardinality(S) = Cardinality(S)
BY DEF BR!Cardinality, Cardinality

LEMMA BRLoopsFinite ==
  ASSUME BRInv
  PROVE  IsFiniteSet(BR!OpenLoops)
<1>1. BR!OpenLoops \subseteq 1..Len(open) /\ Len(open) \in Nat
  BY BRType DEF BR!OpenLoops
<1>2. IsFiniteSet(1..Len(open))
  BY <1>1, FS_Interval
<1> QED
  BY <1>1, <1>2, FS_Subset

(* A step that leaves the depth alone keeps the loops that are open. *)
LEMMA BRDepthKept ==
  ASSUME BRInv, UNCHANGED m_cycle_depth, BR!OpenLoops' = BR!OpenLoops
  PROVE  BR!DepthIsOpenLoops'
BY DEF BRInv, BR!DepthIsOpenLoops

LEMMA BRLoopEntered ==
  ASSUME BRInv, BR!Enter("loop"), m_cycle_depth' = m_cycle_depth + 1
  PROVE  BR!DepthIsOpenLoops' /\ m_cycle_depth' \in Nat
<1>1. "loop" \in BR!Kinds
  BY DEF BR!Kinds
<1>2. /\ \A i \in 1..Len(open) : i \in 1..Len(open') /\ open'[i] = open[i] /\ i # Len(open')
      /\ Len(open') \in 1..Len(open')
      /\ open'[Len(open')].kind = "loop"
      /\ \A i \in 1..Len(open') : i \in 1..Len(open) \/ i = Len(open')
  BY <1>1, BREntered
<1>3. BR!OpenLoops' = BR!OpenLoops \cup {Len(open')} /\ Len(open') \notin BR!OpenLoops
  BY <1>2 DEF BR!OpenLoops
<1>4. /\ Cardinality(BR!OpenLoops \cup {Len(open')}) = Cardinality(BR!OpenLoops) + 1
      /\ Cardinality(BR!OpenLoops) \in Nat
  BY <1>3, BRLoopsFinite, FS_AddElement, FS_CardinalityType
<1>5. m_cycle_depth = Cardinality(BR!OpenLoops)
  BY BRCardinality DEF BRInv, BR!DepthIsOpenLoops
<1>6. m_cycle_depth' = Cardinality(BR!OpenLoops') /\ m_cycle_depth' \in Nat
  BY <1>3, <1>4, <1>5
<1> QED
  BY <1>6, BRCardinality DEF BR!DepthIsOpenLoops

LEMMA BRLoopLeft ==
  ASSUME BRInv, BR!LeaveStmt({"loop"}), m_cycle_depth' = m_cycle_depth - 1
  PROVE  BR!DepthIsOpenLoops' /\ m_cycle_depth' \in Nat
<1>1. /\ open[Len(open)].kind \in {"loop"}
      /\ \A i \in 1..Len(open') : i \in 1..Len(open) /\ open'[i] = open[i] /\ i # Len(open)
      /\ Len(open) \in 1..Len(open)
      /\ \A i \in 1..Len(open) : i \in 1..Len(open') \/ i = Len(open)
  BY BRLeft
<1>2. BR!OpenLoops' = BR!OpenLoops \ {Len(open)} /\ Len(open) \in BR!OpenLoops
  BY <1>1 DEF BR!OpenLoops
<1>3. IsFiniteSet(BR!OpenLoops \ {Len(open)})
  BY BRLoopsFinite, FS_Subset
<1>4. /\ Cardinality(BR!OpenLoops \ {Len(open)}) = Cardinality(BR!OpenLoops) - 1
      /\ Cardinality(BR!OpenLoops \ {Len(open)}) \in Nat
  BY <1>2, <1>3, BRLoopsFinite, FS_RemoveElement, FS_CardinalityType
<1>5. m_cycle_depth = Cardinality(BR!OpenLoops)
  BY BRCardinality DEF BRInv, BR!DepthIsOpenLoops
<1>6. m_cycle_depth' = Cardinality(BR!OpenLoops') /\ m_cycle_depth' \in Nat
  BY <1>2, <1>4, <1>5
<1> QED
  BY <1>6, BRCardinality DEF BR!DepthIsOpenLoops

(* Inside of a loop, the depth says so. *)
LEMMA BRDepthInLoops ==
  ASSUME BRInv, BR!InsideOf({"loop"})
  PROVE  m_cycle_depth > 0
<1>1. BR!OpenLoops # {}
  BY DEF BR!InsideOf, BR!OpenLoops
<1>2. Cardinality(BR!OpenLoops) \in Nat /\ Cardinality(BR!OpenLoops) # 0
  BY <1>1, BRLoopsFinite, FS_CardinalityType, FS_EmptySet
<1>3. m_cycle_depth = Cardinality(BR!OpenLoops)
  BY BRCardinality DEF BRInv, BR!DepthIsOpenLoops
<1> QED
  BY <1>2, <1>3

(* Steps that neither open nor end a loop, nor a seed expression. *)
LEMMA BREnteredOther ==
  ASSUME BRInv, NEW k \in BR!Kinds, k # "loop", BR!Enter(k), UNCHANGED m_cycle_depth,
         m_is_defining_seed' => m_is_defining_seed \/ k = "seed"
  PROVE  BR!DepthIsOpenLoops' /\ BR!SeedFlagIsSound'
<1>1. /\ \A i \in 1..Len(open) : i \in 1..Len(open') /\ open'[i] = open[i] /\ i # Len(open')
      /\ Len(open') \in 1..Len(open')
      /\ open'[Len(open')].kind = k
      /\ \A i \in 1..Len(open') : i \in 1..Len(open) \/ i = Len(open')
  BY BREntered
<1>2. BR!OpenLoops' = BR!OpenLoops
  BY <1>1 DEF BR!OpenLoops
<1>3. BR!SeedFlagIsSound'
  BY <1>1 DEF BRInv, BR!SeedFlagIsSound
<1> QED
  BY <1>2, <1>3, BRDepthKept

LEMMA BRLeftOther ==
  ASSUME BRInv, NEW K, "loop" \notin K, BR!LeaveStmt(K), UNCHANGED m_cycle_depth,
         \/ m_is_defining_seed' = m_is_defining_seed /\ "seed" \notin K
         \/ m_is_defining_seed' = FALSE
  PROVE  BR!DepthIsOpenLoops' /\ BR!SeedFlagIsSound'
<1>1. /\ open[Len(open)].kind \in K
      /\ \A i \in 1..Len(open') : i \in 1..Len(open) /\ open'[i] = open[i] /\ i # Len(open)
      /\ Len(open) \in 1..Len(open)
      /\ \A i \in 1..Len(open) : i \in 1..Len(open') \/ i = Len(open)
  BY BRLeft
<1>2. BR!OpenLoops' = BR!OpenLoops
  BY <1>1 DEF BR!OpenLoops
<1>3. BR!SeedFlagIsSound'
  BY <1>1 DEF BRInv, BR!SeedFlagIsSound
<1> QED
  BY <1>2, <1>3, BRDepthKept

LEMMA BRStayedOther ==
  ASSUME BRInv, open' = open, UNCHANGED <<m_cycle_depth, m_is_defining_seed>>
  PROVE  BR!DepthIsOpenLoops' /\ BR!SeedFlagIsSound'
BY DEF BRInv, BR!DepthIsOpenLoops, BR!OpenLoops, BR!SeedFlagIsSound

LEMMA BRBodiedOther ==
  ASSUME BRInv, NEW k \in {"compound", "try"}, BR!EnterCtorBody(k)
  PROVE  BR!DepthIsOpenLoops' /\ BR!SeedFlagIsSound'
<1>1. k \in BR!Kinds
  BY DEF BR!Kinds
<1>2. /\ Len(open') = Len(open)
      /\ open[Len(open)].kind = "ctor" /\ open'[Len(open)].kind = k
      /\ \A i \in 1..Len(open) : i = Len(open) \/ open'[i] = open[i]
  BY <1>1, BRBodied
<1>3. UNCHANGED <<m_cycle_depth, m_is_defining_seed>>
  BY DEF BR!EnterCtorBody
<1>4. BR!OpenLoops' = BR!OpenLoops
  BY <1>2 DEF BR!OpenLoops
<1>5. BR!SeedFlagIsSound'
  BY <1>2, <1>3 DEF BRInv, BR!SeedFlagIsSound
<1> QED
  BY <1>3, <1>4, <1>5, BRDepthKept

-----------------------------------------------------------------------------
(* The engines. *)

(* Engines are kept as long as no block that was left is opened again. *)
LEMMA BREnginesKept ==
  ASSUME BRInv, next' \in {next, next + 1},
         \A n : BR!IsOpen(n)' => BR!IsOpen(n) \/ n = next,
         UNCHANGED engines, m_rand_engns' \subseteq m_rand_engns
  PROVE  BREngines'
<1>1. /\ next \in Int /\ m_rand_engns \subseteq [engn_decl : BR!Nodes, comp_stmt : BR!Nodes \cup {0}]
      /\ engines \subseteq BR!Engine /\ BR!Nodes = 1..(FewNodes - 1) /\ BREngines
  BY BRType DEF BRInv, BR!TypeOK, BR!Null
<1>2. /\ \A e \in engines : e.decl \in Int
      /\ \A m \in m_rand_engns : m.engn_decl \in Int /\ m.comp_stmt \in Int
  BY <1>1 DEF BR!Engine
<1> QED
  BY <1>1, <1>2 DEF BREngines

(* The same when an engine is moved from or used in a loop. *)
LEMMA BREnginesUsed ==
  ASSUME BRInv, next' = next + 1, open' = open, NEW decl,
         BR!EraseEngine(decl), BR!MarkBusy(decl)
  PROVE  /\ BREngines' /\ engines' \subseteq BR!Engine
         /\ m_rand_engns' \subseteq m_rand_engns
<1>1. /\ next \in Int /\ m_rand_engns \subseteq [engn_decl : BR!Nodes, comp_stmt : BR!Nodes \cup {0}]
      /\ engines \subseteq BR!Engine /\ BR!Nodes = 1..(FewNodes - 1) /\ BREngines
  BY BRType DEF BRInv, BR!TypeOK, BR!Null
<1>2. /\ \A e \in engines : e.decl \in Int
      /\ \A m \in m_rand_engns : m.engn_decl \in Int /\ m.comp_stmt \in Int
  BY <1>1 DEF BR!Engine
<1>3. m_rand_engns' = {m \in m_rand_engns : m.engn_decl # decl}
  BY DEF BR!EraseEngine
<1>4. \A e \in BR!Engine :
        /\ [e EXCEPT !.busy = TRUE] \in BR!Engine
        /\ [e EXCEPT !.busy = TRUE].decl = e.decl
  BY DEF BR!Engine
<1>5. \A f \in engines' : \E e \in engines :
        IF e.decl = decl THEN f = [e EXCEPT !.busy = TRUE] ELSE f = e
  BY DEF BR!MarkBusy
<1>6. \A f \in engines' : \/ f \in engines
                          \/ f \in BR!Engine /\ f.decl = decl /\ \E e \in engines : f.decl = e.decl
  BY <1>1, <1>4, <1>5
<1>7. engines' \subseteq BR!Engine
  BY <1>1, <1>6
<1>8. \A f \in engines' : f.decl < next'
  BY <1>1, <1>2, <1>6 DEF BREngines
<1>9. BREngines'
  BY <1>1, <1>2, <1>3, <1>6, <1>8 DEF BREngines, BR!IsOpen
<1> QED
  BY <1>3, <1>7, <1>9

-----------------------------------------------------------------------------
(* m_comp_stmt_stack. *)

BRStackTyped ==
  /\ rand_comp_stmt_stack \in Seq(BR!Nodes \cup {0})
  /\ rand_comp_stmt_stack # <<>>

LEMMA BRStackKept ==
  ASSUME BRInv, next' \in {next, next + 1}, UNCHANGED rand_comp_stmt_stack,
         \A i \in 1..Len(open') : \/ \E j \in 1..Len(open) : open'[i] = open[j]
                                  \/ open'[i].id = next /\ open'[i].kind # "compound"
  PROVE  BRStack' /\ BRStackTyped'
<1>1. /\ BRStack /\ BRStackTyped /\ next \in Int
      /\ \A k \in 1..Len(rand_comp_stmt_stack) : rand_comp_stmt_stack[k] \in Int
  BY BRType DEF BRInv, BR!TypeOK, BRStackTyped, BR!Null
<1>2. \A k \in 1..Len(rand_comp_stmt_stack) :
        rand_comp_stmt_stack[k] < next' /\ rand_comp_stmt_stack[k] # next
  BY <1>1 DEF BRStack
<1>3. \A k \in 1..Len(rand_comp_stmt_stack) : \A i \in 1..Len(open') :
        open'[i].id = rand_comp_stmt_stack[k] => \E j \in 1..Len(open) : open'[i] = open[j]
  BY <1>2
<1>4. \A i \in 1..Len(open') :
        open'[i].kind = "compound" => \E j \in 1..Len(open) : open'[i] = open[j]
  OBVIOUS
<1>5. /\ \A k \in 1..Len(rand_comp_stmt_stack) : \A i \in 1..Len(open) :
           open[i].id = rand_comp_stmt_stack[k] => open[i].kind = "compound"
      /\ \A i \in 1..Len(open) :
           open[i].kind = "compound" =>
             \E k \in 1..Len(rand_comp_stmt_stack) : rand_comp_stmt_stack[k] = open[i].id
      /\ \A k \in 1..Len(rand_comp_stmt_stack) : rand_comp_stmt_stack[k] = 0 <=> k = 1
      /\ \A k, l \in 1..Len(rand_comp_stmt_stack) : \A i, j \in 1..Len(open) :
           /\ k < l
           /\ open[i].id = rand_comp_stmt_stack[k] /\ open[j].id = rand_comp_stmt_stack[l]
           => rand_comp_stmt_stack[k] < rand_comp_stmt_stack[l]
  BY <1>1 DEF BRStack
<1>6. \A k \in 1..Len(rand_comp_stmt_stack) : \A i \in 1..Len(open') :
        open'[i].id = rand_comp_stmt_stack[k] => open'[i].kind = "compound"
  BY <1>3, <1>5
<1>7. \A i \in 1..Len(open') :
        open'[i].kind = "compound" =>
          \E k \in 1..Len(rand_comp_stmt_stack) : rand_comp_stmt_stack[k] = open'[i].id
  BY <1>4, <1>5
<1>8. \A k, l \in 1..Len(rand_comp_stmt_stack) : \A i, j \in 1..Len(open') :
        /\ k < l
        /\ open'[i].id = rand_comp_stmt_stack[k] /\ open'[j].id = rand_comp_stmt_stack[l]
        => rand_comp_stmt_stack[k] < rand_comp_stmt_stack[l]
  <2> TAKE k, l \in 1..Len(rand_comp_stmt_stack)
  <2> TAKE i, j \in 1..Len(open')
  <2>1. HAVE /\ k < l
             /\ open'[i].id = rand_comp_stmt_stack[k] /\ open'[j].id = rand_comp_stmt_stack[l]
  <2>2. PICK m \in 1..Len(open) : open'[i] = open[m]
    BY <1>3, <2>1
  <2>3. PICK n \in 1..Len(open) : open'[j] = open[n]
    BY <1>3, <2>1
  <2> QED
    BY <1>5, <2>1, <2>2, <2>3
<1>9. BRStack'
  <2>1. \A k \in 1..Len(rand_comp_stmt_stack) :
          /\ rand_comp_stmt_stack[k] < next'
          /\ rand_comp_stmt_stack[k] = 0 <=> k = 1
          /\ \A i \in 1..Len(open') :
               open'[i].id = rand_comp_stmt_stack[k] => open'[i].kind = "compound"
    BY <1>2, <1>5, <1>6
  <2> QED
    BY <1>7, <1>8, <2>1 DEF BRStack
<1> QED
  BY <1>1, <1>9 DEF BRStackTyped

(* BRStack of the next state, a conjunct at a time.                         *)
LEMMA BRStackParts ==
  ASSUME \A k \in 1..Len(rand_comp_stmt_stack') :
           rand_comp_stmt_stack'[k] < next' /\ (rand_comp_stmt_stack'[k] = 0 <=> k = 1),
         \A k \in 1..Len(rand_comp_stmt_stack') : \A i \in 1..Len(open') :
           open'[i].id = rand_comp_stmt_stack'[k] => open'[i].kind = "compound",
         \A k, l \in 1..Len(rand_comp_stmt_stack') : \A i, j \in 1..Len(open') :
           /\ k < l
           /\ open'[i].id = rand_comp_stmt_stack'[k] /\ open'[j].id = rand_comp_stmt_stack'[l]
           => rand_comp_stmt_stack'[k] < rand_comp_stmt_stack'[l],
         \A i \in 1..Len(open') :
           open'[i].kind = "compound" =>
             \E k \in 1..Len(rand_comp_stmt_stack') : rand_comp_stmt_stack'[k] = open'[i].id
  PROVE  BRStack'
BY DEF BRStack

(* A block follows those around it. *)
LEMMA BRStackPushed ==
  ASSUME BRInv, BR!Enter("compound"),
         rand_comp_stmt_stack' = Append(rand_comp_stmt_stack, next)
  PROVE  BRStack' /\ BRStackTyped'
<1> DEFINE s == rand_comp_stmt_stack
<1>1. /\ BRStack /\ s \in Seq(BR!Nodes \cup {0}) /\ BR!Nodes = 1..(FewNodes - 1)
      /\ next \in Int
      /\ \A k \in 1..Len(s) : s[k] \in Int
      /\ \A i \in 1..Len(open) : open[i].id \in Int /\ open[i].id < next
      /\ Len(s) \in Nat /\ Len(s) >= 1
  BY BRType DEF BRInv, BR!TypeOK, BR!Null, OpenIsOrdered
<1>2. "compound" \in BR!Kinds
  BY DEF BR!Kinds
<1>3. /\ next' = next + 1 /\ next \in BR!Nodes
      /\ \A i \in 1..Len(open) : i \in 1..Len(open') /\ open'[i] = open[i] /\ i # Len(open')
      /\ Len(open') \in 1..Len(open')
      /\ open'[Len(open')].id = next /\ open'[Len(open')].kind = "compound"
      /\ \A i \in 1..Len(open') : i \in 1..Len(open) \/ i = Len(open')
      /\ \A n : BR!IsOpen(n)' <=> BR!IsOpen(n) \/ n = next
  BY <1>2, BREntered
<1>4. /\ s' \in Seq(BR!Nodes \cup {0}) /\ Len(s') \in Nat /\ Len(s') = Len(s) + 1
      /\ \A k \in 1..Len(s) : k \in 1..Len(s') /\ s'[k] = s[k] /\ k # Len(s')
      /\ Len(s') \in 1..Len(s') /\ s'[Len(s')] = next
      /\ \A k \in 1..Len(s') : k \in 1..Len(s) \/ k = Len(s')
  BY <1>1, <1>3, Grown
<1>5. /\ \A k \in 1..Len(s) : s[k] < next /\ s[k] # next /\ (s[k] = 0 <=> k = 1)
      /\ \A k \in 1..Len(s) : \A i \in 1..Len(open) :
           open[i].id = s[k] => open[i].kind = "compound"
      /\ \A k, l \in 1..Len(s) : \A i, j \in 1..Len(open) :
           k < l /\ open[i].id = s[k] /\ open[j].id = s[l] => s[k] < s[l]
      /\ \A i \in 1..Len(open) :
           open[i].kind = "compound" => \E k \in 1..Len(s) : s[k] = open[i].id
  BY <1>1 DEF BRStack
<1> HIDE DEF s
<1>6. /\ next' > next /\ next > 0 /\ Len(s') # 1
      /\ \A i \in 1..Len(open') : open'[i].id = next => i = Len(open')
  <2>1. next' > next /\ next > 0 /\ Len(s') # 1
    BY <1>1, <1>3, <1>4
  <2>2. \A i \in 1..Len(open) : open'[i].id # next
    BY <1>1, <1>3
  <2> QED
    BY <1>3, <2>1, <2>2
<1>12. \A k \in 1..Len(s') : s'[k] < next' /\ (s'[k] = 0 <=> k = 1)
  <2>1. ASSUME NEW k \in 1..Len(s)
        PROVE  s'[k] < next' /\ (s'[k] = 0 <=> k = 1)
    <3>1. s'[k] = s[k] /\ s[k] \in Int /\ s[k] < next /\ (s[k] = 0 <=> k = 1)
      BY <1>1, <1>4, <1>5
    <3>2. next' = next + 1 /\ next \in Int
      BY <1>1, <1>3
    <3> QED
      BY <3>1, <3>2
  <2>2. s'[Len(s')] < next' /\ s'[Len(s')] # 0
    BY <1>1, <1>3, <1>4, <1>6
  <2> QED
    BY <1>4, <1>6, <2>1, <2>2
<1>13. \A k \in 1..Len(s') :
         \A i \in 1..Len(open') : open'[i].id = s'[k] => open'[i].kind = "compound"
  <2> SUFFICES ASSUME NEW k \in 1..Len(s'), NEW i \in 1..Len(open'), open'[i].id = s'[k]
               PROVE  open'[i].kind = "compound"
    OBVIOUS
  <2>1. CASE k = Len(s')
    BY <1>3, <1>4, <1>6, <2>1
  <2>2. CASE k \in 1..Len(s)
    <3>1. s'[k] = s[k] /\ s[k] # next
      BY <1>4, <1>5, <2>2
    <3>2. i \in 1..Len(open) /\ open'[i] = open[i]
      BY <1>3, <3>1
    <3> QED
      BY <1>5, <2>2, <3>1, <3>2
  <2> QED
    BY <1>4, <2>1, <2>2
<1>7. \A k \in 1..Len(s) : \A i \in 1..Len(open') :
        open'[i].id = s[k] => i \in 1..Len(open) /\ open'[i] = open[i]
  BY <1>3, <1>5
<1>8. \A k, l \in 1..Len(s') : \A i, j \in 1..Len(open') :
        k < l /\ open'[i].id = s'[k] /\ open'[j].id = s'[l] => s'[k] < s'[l]
  <2> SUFFICES ASSUME NEW k \in 1..Len(s'), NEW l \in 1..Len(s'),
                      NEW i \in 1..Len(open'), NEW j \in 1..Len(open'),
                      k < l, open'[i].id = s'[k], open'[j].id = s'[l]
               PROVE  s'[k] < s'[l]
    OBVIOUS
  <2>1. k \in 1..Len(s) /\ s'[k] = s[k]
    BY <1>4
  <2>2. CASE l = Len(s')
    BY <1>4, <1>5, <2>1, <2>2
  <2>3. CASE l \in 1..Len(s)
    <3>1. s'[l] = s[l]
      BY <1>4, <2>3
    <3>2. open'[i].id = s[k] /\ open'[j].id = s[l]
      BY <2>1, <3>1
    <3>3. /\ i \in 1..Len(open) /\ open'[i] = open[i]
          /\ j \in 1..Len(open) /\ open'[j] = open[j]
      BY <1>7, <2>1, <2>3, <3>2
    <3>4. s[k] < s[l]
      BY <1>5, <2>1, <2>3, <3>2, <3>3
    <3> QED
      BY <2>1, <3>1, <3>4
  <2> QED
    BY <1>4, <2>2, <2>3
<1>9. \A i \in 1..Len(open') :
        open'[i].kind = "compound" => \E k \in 1..Len(s') : s'[k] = open'[i].id
  BY <1>3, <1>4, <1>5
<1>10. BRStack'
  <2>1. \A k \in 1..Len(rand_comp_stmt_stack') :
          rand_comp_stmt_stack'[k] < next' /\ (rand_comp_stmt_stack'[k] = 0 <=> k = 1)
    BY <1>12 DEF s
  <2>2. \A k \in 1..Len(rand_comp_stmt_stack') : \A i \in 1..Len(open') :
          open'[i].id = rand_comp_stmt_stack'[k] => open'[i].kind = "compound"
    BY <1>13 DEF s
  <2>3. \A k, l \in 1..Len(rand_comp_stmt_stack') : \A i, j \in 1..Len(open') :
          /\ k < l
          /\ open'[i].id = rand_comp_stmt_stack'[k] /\ open'[j].id = rand_comp_stmt_stack'[l]
          => rand_comp_stmt_stack'[k] < rand_comp_stmt_stack'[l]
    BY <1>8 DEF s
  <2>4. \A i \in 1..Len(open') :
          open'[i].kind = "compound" =>
            \E k \in 1..Len(rand_comp_stmt_stack') : rand_comp_stmt_stack'[k] = open'[i].id
    BY <1>9 DEF s
  <2> QED
    BY <2>1, <2>2, <2>3, <2>4, BRStackParts
<1>11. BRStackTyped'
  <2>1. s' # <<>>
    BY <1>4
  <2> QED
    BY <1>4, <2>1 DEF BRStackTyped, s, BR!Nodes
<1> QED
  BY <1>10, <1>11

(* The body of a constructor too, though blocks of the initialisers that    *)
(* were left may be between them; it is the innermost, so that its number   *)
(* is greater than that of all that are open.                               *)
LEMMA BRStackBodied ==
  ASSUME BRInv, NEW kind \in {"compound", "try"}, BR!EnterCtorBody(kind)
  PROVE  BRStack' /\ BRStackTyped'
<1> DEFINE s == rand_comp_stmt_stack
           n == open[Len(open)].id
<1>1. /\ BRStack /\ s \in Seq(BR!Nodes \cup {0}) /\ s # <<>> /\ BR!Nodes = 1..(FewNodes - 1)
      /\ next \in Int
      /\ \A k \in 1..Len(s) : s[k] \in Int
      /\ \A i \in 1..Len(open) : open[i].id \in Int /\ open[i].id < next
      /\ Len(s) \in Nat /\ Len(s) >= 1
  BY BRType DEF BRInv, BR!TypeOK, BR!Null, OpenIsOrdered
<1>2. kind \in BR!Kinds
  BY DEF BR!Kinds
<1>3. /\ next' = next /\ Len(open') = Len(open) /\ Len(open) \in 1..Len(open)
      /\ BR!Top(open) = open[Len(open)]
      /\ open[Len(open)].kind = "ctor" /\ open'[Len(open)].kind = kind
      /\ n \in BR!Nodes
      /\ \A i \in 1..Len(open) : open'[i].id = open[i].id
      /\ \A i \in 1..Len(open) : i = Len(open) \/ open'[i] = open[i]
      /\ \A i \in 1..Len(open) : open[i].id <= n
      /\ \A m : BR!IsOpen(m)' <=> BR!IsOpen(m)
  BY <1>2, BRBodied
<1>4. s' = IF kind = "compound" THEN Append(s, n) ELSE s
  BY <1>3 DEF BR!EnterCtorBody
<1>5. /\ \A k \in 1..Len(s) : s[k] < next /\ s[k] # n /\ (s[k] = 0 <=> k = 1)
      /\ \A k \in 1..Len(s) : \A i \in 1..Len(open) :
           open[i].id = s[k] => open[i].kind = "compound"
      /\ \A k, l \in 1..Len(s) : \A i, j \in 1..Len(open) :
           k < l /\ open[i].id = s[k] /\ open[j].id = s[l] => s[k] < s[l]
      /\ \A i \in 1..Len(open) :
           open[i].kind = "compound" => \E k \in 1..Len(s) : s[k] = open[i].id
  BY <1>1, <1>3 DEF BRStack
<1>6. n \in Int
  BY <1>1, <1>3
<1>7. \A k \in 1..Len(s) : \A i \in 1..Len(open) : open[i].id = s[k] => s[k] < n
  BY <1>1, <1>3, <1>5, <1>6
<1>8. n < next /\ n # 0 /\ n \in Int
  BY <1>1, <1>3
<1>9. \A i \in 1..Len(open) : i # Len(open) => open'[i].kind = open[i].kind
  BY <1>3
<1>12. \A i \in 1..Len(open) : i # Len(open) => open[i].id < n
  BY <1>1, <1>3 DEF BRInv, OpenIsOrdered
<1> HIDE DEF s, n
<1>10. CASE kind = "compound"
  <2>1. /\ s' \in Seq(BR!Nodes \cup {0}) /\ Len(s') \in Nat /\ Len(s') = Len(s) + 1
        /\ \A k \in 1..Len(s) : k \in 1..Len(s') /\ s'[k] = s[k] /\ k # Len(s')
        /\ Len(s') \in 1..Len(s') /\ s'[Len(s')] = n
        /\ \A k \in 1..Len(s') : k \in 1..Len(s) \/ k = Len(s')
    <3>1. s \in Seq(BR!Nodes \cup {0}) /\ n \in BR!Nodes \cup {0} /\ s' = Append(s, n)
      BY <1>1, <1>3, <1>4, <1>10
    <3> QED
      BY <3>1, Grown
  <2>2. \A k \in 1..Len(s') : s'[k] < next' /\ (s'[k] = 0 <=> k = 1)
    <3>1. \A k \in 1..Len(s) : s'[k] < next' /\ (s'[k] = 0 <=> k = 1)
      BY <1>3, <1>5, <2>1
    <3>2. s'[Len(s')] < next' /\ s'[Len(s')] # 0 /\ Len(s') # 1
      BY <1>1, <1>3, <1>8, <2>1
    <3> QED
      BY <2>1, <3>1, <3>2
  <2>3. \A k \in 1..Len(s') :
          \A i \in 1..Len(open') : open'[i].id = s'[k] => open'[i].kind = "compound"
    <3>1. \A k \in 1..Len(s) :
            \A i \in 1..Len(open) : open[i].id = s[k] => open'[i].kind = "compound"
      BY <1>3, <1>5, <1>9, <1>10
    <3>2. \A i \in 1..Len(open) : open[i].id = n => i = Len(open)
      BY <1>8, <1>12
    <3> QED
      BY <1>3, <1>10, <2>1, <3>1, <3>2
  <2>4. \A k, l \in 1..Len(s') : \A i, j \in 1..Len(open') :
          k < l /\ open'[i].id = s'[k] /\ open'[j].id = s'[l] => s'[k] < s'[l]
    <3> SUFFICES ASSUME NEW k \in 1..Len(s'), NEW l \in 1..Len(s'),
                        NEW i \in 1..Len(open'), NEW j \in 1..Len(open'),
                        k < l, open'[i].id = s'[k], open'[j].id = s'[l]
                 PROVE  s'[k] < s'[l]
      OBVIOUS
    <3>1. /\ k \in 1..Len(s) /\ s'[k] = s[k]
          /\ i \in 1..Len(open) /\ j \in 1..Len(open)
          /\ open[i].id = s[k] /\ open[j].id = s'[l]
      BY <1>3, <2>1
    <3>2. CASE l = Len(s')
      BY <1>7, <2>1, <3>1, <3>2
    <3>3. CASE l \in 1..Len(s)
      <4>1. s'[l] = s[l]
        BY <2>1, <3>3
      <4> QED
        BY <1>5, <3>1, <3>3, <4>1
    <3> QED
      BY <2>1, <3>2, <3>3
  <2>5. \A i \in 1..Len(open') :
          open'[i].kind = "compound" => \E k \in 1..Len(s') : s'[k] = open'[i].id
    BY <1>3, <1>5, <1>9, <2>1 DEF n
  <2>6. BRStack'
    BY <2>2, <2>3, <2>4, <2>5 DEF BRStack, s
  <2>7. s' # <<>>
    BY <2>1
  <2> QED
    BY <2>1, <2>6, <2>7 DEF BRStackTyped, s, BR!Nodes
<1>11. CASE kind = "try"
  <2>1. s' = s
    BY <1>4, <1>11
  <2>2. \A k \in 1..Len(s') :
          \A i \in 1..Len(open') : open'[i].id = s'[k] => open'[i].kind = "compound"
    BY <1>3, <1>5, <1>9, <2>1 DEF n
  <2>3. \A i \in 1..Len(open') :
          open'[i].kind = "compound" => \E k \in 1..Len(s') : s'[k] = open'[i].id
    BY <1>3, <1>5, <1>9, <1>11, <2>1
  <2>4. \A k, l \in 1..Len(s') : \A i, j \in 1..Len(open') :
          k < l /\ open'[i].id = s'[k] /\ open'[j].id = s'[l] => s'[k] < s'[l]
    BY <1>3, <1>5, <2>1
  <2>5. \A k \in 1..Len(s') : s'[k] < next' /\ (s'[k] = 0 <=> k = 1)
    BY <1>3, <1>5, <2>1
  <2>6. BRStack'
    BY <2>2, <2>3, <2>4, <2>5 DEF BRStack, s
  <2> QED
    BY <1>1, <2>1, <2>6 DEF BRStackTyped, s, BR!Nodes
<1> QED
  BY <1>10, <1>11

(* What is popped is the block that is left, or one that was left before. *)
LEMMA BRStackPopped ==
  ASSUME BRInv, BR!LeaveStmt({"compound"}),
         rand_comp_stmt_stack' = BR!Pop(rand_comp_stmt_stack)
  PROVE  BRStack' /\ BRStackTyped'
<1> DEFINE s == rand_comp_stmt_stack
           n == open[Len(open)].id
<1>1. /\ BRStack /\ s \in Seq(BR!Nodes \cup {0}) /\ s # <<>> /\ BR!Nodes = 1..(FewNodes - 1)
      /\ next \in Int
      /\ \A k \in 1..Len(s) : s[k] \in Int
      /\ \A i \in 1..Len(open) : open[i].id \in Int
  BY BRType DEF BRInv, BR!TypeOK, BR!Null
<1>2. /\ next' = next /\ open[Len(open)].kind = "compound"
      /\ n \in BR!Nodes
      /\ \A i \in 1..Len(open') : i \in 1..Len(open) /\ open'[i] = open[i] /\ i # Len(open)
      /\ Len(open) \in 1..Len(open)
      /\ \A i \in 1..Len(open) : i \in 1..Len(open') \/ i = Len(open)
      /\ \A i \in 1..Len(open') : open[i].id < n
      /\ \A m : BR!IsOpen(m)' <=> BR!IsOpen(m) /\ m # n
      /\ BR!IsOpen(n)
  BY BRLeft
<1>3. s' = SubSeq(s, 1, Len(s) - 1)
  BY DEF BR!Pop
<1>4. /\ s' \in Seq(BR!Nodes \cup {0}) /\ Len(s) \in Nat /\ Len(s') \in Nat
      /\ Len(s) = Len(s') + 1
      /\ \A k \in 1..Len(s') : k \in 1..Len(s) /\ s'[k] = s[k] /\ k # Len(s)
      /\ Len(s) \in 1..Len(s)
      /\ \A k \in 1..Len(s) : k \in 1..Len(s') \/ k = Len(s)
  BY <1>1, <1>3, Shrunk
<1>5. /\ \A k \in 1..Len(s) : s[k] < next /\ (s[k] = 0 <=> k = 1)
      /\ \A k \in 1..Len(s) : \A i \in 1..Len(open) :
           open[i].id = s[k] => open[i].kind = "compound"
      /\ \A k, l \in 1..Len(s) : \A i, j \in 1..Len(open) :
           k < l /\ open[i].id = s[k] /\ open[j].id = s[l] => s[k] < s[l]
      /\ \A i \in 1..Len(open) :
           open[i].kind = "compound" => \E k \in 1..Len(s) : s[k] = open[i].id
  BY <1>1 DEF BRStack
<1>6. PICK p \in 1..Len(s) : s[p] = n
  BY <1>2, <1>5
<1>7. s' # <<>>
  <2>1. p # 1
    BY <1>1, <1>2, <1>5, <1>6
  <2> QED
    BY <1>4, <1>6, <2>1
<1>8. \A i \in 1..Len(open') :
        open'[i].kind = "compound" => \E k \in 1..Len(s') : s'[k] = open'[i].id
  <2> SUFFICES ASSUME NEW i \in 1..Len(open'), open'[i].kind = "compound"
               PROVE  \E k \in 1..Len(s') : s'[k] = open'[i].id
    OBVIOUS
  <2>1. /\ i \in 1..Len(open) /\ open'[i] = open[i] /\ open[i].id < n
        /\ BR!IsOpen(open[i].id) /\ open[i].id \in Int /\ n \in Int
    BY <1>1, <1>2 DEF BR!IsOpen
  <2>2. PICK k \in 1..Len(s) : s[k] = open[i].id
    BY <1>5, <2>1
  <2>3. k # Len(s)
    <3> SUFFICES ASSUME k = Len(s) PROVE FALSE
      OBVIOUS
    <3>1. p # k
      BY <1>6, <2>1, <2>2
    <3>2. p < k
      BY <1>4, <1>6, <3>1
    <3>3. s[p] < s[k]
      BY <1>1, <1>2, <1>5, <1>6, <2>1, <2>2, <3>2
    <3> QED
      BY <1>6, <2>1, <2>2, <3>3
  <2> QED
    BY <1>4, <2>1, <2>2, <2>3
<1> HIDE DEF s, n
<1>9. \A k \in 1..Len(s') : s'[k] < next' /\ (s'[k] = 0 <=> k = 1)
  BY <1>2, <1>4, <1>5
<1>12. \A k \in 1..Len(s') :
        \A i \in 1..Len(open') : open'[i].id = s'[k] => open'[i].kind = "compound"
  <2>1. \A i \in 1..Len(open') : open'[i].id = open[i].id /\ open'[i].kind = open[i].kind
    BY <1>2
  <2> QED
    BY <1>2, <1>4, <1>5, <2>1
<1>10. \A k, l \in 1..Len(s') : \A i, j \in 1..Len(open') :
        k < l /\ open'[i].id = s'[k] /\ open'[j].id = s'[l] => s'[k] < s'[l]
  <2> SUFFICES ASSUME NEW k \in 1..Len(s'), NEW l \in 1..Len(s'),
                      NEW i \in 1..Len(open'), NEW j \in 1..Len(open'),
                      k < l, open'[i].id = s'[k], open'[j].id = s'[l]
               PROVE  s'[k] < s'[l]
    OBVIOUS
  <2>1. /\ k \in 1..Len(s) /\ s'[k] = s[k] /\ l \in 1..Len(s) /\ s'[l] = s[l]
        /\ i \in 1..Len(open) /\ j \in 1..Len(open)
        /\ open'[i].id = open[i].id /\ open'[j].id = open[j].id
    BY <1>2, <1>4
  <2> QED
    BY <1>5, <2>1
<1>11. BRStack'
  BY <1>8, <1>9, <1>10, <1>12 DEF BRStack, s
<1> QED
  BY <1>4, <1>7, <1>11 DEF BRStackTyped, s, BR!Nodes

-----------------------------------------------------------------------------
(* m_ctor_body_stack. *)

(* What the invariants say of it, in terms of the open nodes. *)
LEMMA BRCtorFacts ==
  ASSUME BRInv
  PROVE  /\ next \in Int /\ m_ctor_body_stack \in Seq(BR!Nodes) /\ synthesized \subseteq BR!Nodes
         /\ Len(m_ctor_body_stack) \in Nat
         /\ BR!Nodes = 1..(FewNodes - 1)
         /\ \A k \in 1..Len(m_ctor_body_stack) :
              m_ctor_body_stack[k] \in Int /\ m_ctor_body_stack[k] < next
         /\ \A k \in 1..Len(m_ctor_body_stack) :
              \/ \E i \in 1..Len(open) : open[i].id = m_ctor_body_stack[k]
              \/ \E l \in k..Len(m_ctor_body_stack) : m_ctor_body_stack[l] \in synthesized
         /\ \A k, l \in 1..Len(m_ctor_body_stack) :
              k < l => m_ctor_body_stack[k] < m_ctor_body_stack[l]
         /\ \A i \in 1..Len(open) :
              open[i].kind \in {"ctor", "try"} =>
                \E k \in 1..Len(m_ctor_body_stack) : m_ctor_body_stack[k] = open[i].id
         /\ \A k \in 1..Len(m_ctor_body_stack) : \A i \in 1..Len(open) :
              open[i].id = m_ctor_body_stack[k] => open[i].kind \in {"ctor", "compound", "try"}
         /\ \A s \in synthesized : s \in Int /\ s < next
         /\ \A s \in synthesized : \A i \in 1..Len(open) : open[i].id # s
<1>1. /\ BR!CtorsAreStacked /\ BRCtors /\ m_ctor_body_stack \in Seq(BR!Nodes)
      /\ synthesized \subseteq BR!Nodes
  BY DEF BRInv, BR!TypeOK
<1>2. /\ next \in Int /\ Len(m_ctor_body_stack) \in Nat /\ BR!Nodes = 1..(FewNodes - 1)
      /\ \A k \in 1..Len(m_ctor_body_stack) : m_ctor_body_stack[k] \in Int
  BY BRType
<1>3. \A s \in synthesized : s \in Int
  BY <1>1, <1>2
<1> QED
  BY <1>1, <1>2, <1>3 DEF BR!CtorsAreStacked, BRCtors, BR!IsOpen

(* Nothing was left, and what was entered is no constructor. *)
LEMMA BRCtorsKept ==
  ASSUME BRInv, next' \in {next, next + 1}, UNCHANGED <<m_ctor_body_stack, synthesized>>,
         \A i \in 1..Len(open) : \E j \in 1..Len(open') : open'[j].id = open[i].id,
         \A i \in 1..Len(open') :
           \/ open'[i].id = next /\ open'[i].kind \notin {"ctor", "try"}
           \/ \E j \in 1..Len(open) :
                /\ open'[i].id = open[j].id
                /\ \/ open'[i].kind = open[j].kind
                   \/ open[j].kind = "ctor" /\ open'[i].kind \in {"compound", "try"}
  PROVE  BR!CtorsAreStacked' /\ BRCtors'
<1> DEFINE s == m_ctor_body_stack
<1>1. s' = s /\ synthesized' = synthesized
  OBVIOUS
<1>2. /\ next \in Int
      /\ \A k \in 1..Len(s) : s[k] \in Int /\ s[k] < next
      /\ \A k \in 1..Len(s) : \/ \E i \in 1..Len(open) : open[i].id = s[k]
                              \/ \E l \in k..Len(s) : s[l] \in synthesized
      /\ \A k, l \in 1..Len(s) : k < l => s[k] < s[l]
      /\ \A i \in 1..Len(open) :
           open[i].kind \in {"ctor", "try"} => \E k \in 1..Len(s) : s[k] = open[i].id
      /\ \A k \in 1..Len(s) : \A i \in 1..Len(open) :
           open[i].id = s[k] => open[i].kind \in {"ctor", "compound", "try"}
      /\ \A n \in synthesized : n \in Int /\ n < next
      /\ \A n \in synthesized : \A i \in 1..Len(open) : open[i].id # n
  BY BRCtorFacts
<1> HIDE DEF s
<1>3. /\ \A k \in 1..Len(s) : s[k] < next' /\ s[k] # next
      /\ \A n \in synthesized : n < next' /\ n # next
  BY <1>2
<1>4. \A k \in 1..Len(s) : \/ \E i \in 1..Len(open') : open'[i].id = s[k]
                           \/ \E l \in k..Len(s) : s[l] \in synthesized
  BY <1>2
<1>5. \A i \in 1..Len(open') :
        open'[i].kind \in {"ctor", "try"} => \E k \in 1..Len(s) : s[k] = open'[i].id
  BY <1>2
<1>6. \A k \in 1..Len(s) : \A i \in 1..Len(open') :
        open'[i].id = s[k] => open'[i].kind \in {"ctor", "compound", "try"}
  <2> SUFFICES ASSUME NEW k \in 1..Len(s), NEW i \in 1..Len(open'), open'[i].id = s[k]
               PROVE  open'[i].kind \in {"ctor", "compound", "try"}
    OBVIOUS
  <2>1. open'[i].id # next
    BY <1>3
  <2>2. PICK j \in 1..Len(open) :
          /\ open'[i].id = open[j].id
          /\ \/ open'[i].kind = open[j].kind
             \/ open[j].kind = "ctor" /\ open'[i].kind \in {"compound", "try"}
    BY <2>1
  <2>3. open[j].kind \in {"ctor", "compound", "try"}
    <3>1. open[j].id = s[k]
      BY <2>2
    <3>2. \A l \in 1..Len(s) : \A m \in 1..Len(open) :
            open[m].id = s[l] => open[m].kind \in {"ctor", "compound", "try"}
      BY <1>2
    <3> QED
      BY <3>1, <3>2
  <2> QED
    BY <2>2, <2>3
<1>7. \A n \in synthesized : \A i \in 1..Len(open') : open'[i].id # n
  BY <1>2, <1>3
<1>8. BR!CtorsAreStacked'
  BY <1>1, <1>2, <1>4, <1>5 DEF BR!CtorsAreStacked, BR!IsOpen, s
<1>9. BRCtors'
  BY <1>1, <1>3, <1>6, <1>7 DEF BRCtors, BR!IsOpen, s
<1> QED
  BY <1>8, <1>9

(* A constructor follows; its body is traversed or synthesized. *)
LEMMA BRCtorsPushed ==
  ASSUME BRInv, next' = next + 1, next \in BR!Nodes,
         m_ctor_body_stack' = Append(m_ctor_body_stack, next),
         \A i \in 1..Len(open) : i \in 1..Len(open') /\ open'[i] = open[i],
         \A i \in 1..Len(open') : \/ i \in 1..Len(open)
                                  \/ open'[i].id = next /\ open'[i].kind = "ctor",
         \/ /\ synthesized' = synthesized
            /\ \E i \in 1..Len(open') : open'[i].id = next
         \/ synthesized' = synthesized \cup {next} /\ open' = open
  PROVE  /\ BR!CtorsAreStacked' /\ BRCtors'
         /\ m_ctor_body_stack' \in Seq(BR!Nodes) /\ synthesized' \subseteq BR!Nodes
<1> DEFINE s == m_ctor_body_stack
<1>1. /\ next \in Int /\ s \in Seq(BR!Nodes) /\ synthesized \subseteq BR!Nodes
      /\ \A k \in 1..Len(s) : s[k] \in Int /\ s[k] < next
      /\ \A k \in 1..Len(s) : \/ \E i \in 1..Len(open) : open[i].id = s[k]
                              \/ \E l \in k..Len(s) : s[l] \in synthesized
      /\ \A k, l \in 1..Len(s) : k < l => s[k] < s[l]
      /\ \A i \in 1..Len(open) :
           open[i].kind \in {"ctor", "try"} => \E k \in 1..Len(s) : s[k] = open[i].id
      /\ \A k \in 1..Len(s) : \A i \in 1..Len(open) :
           open[i].id = s[k] => open[i].kind \in {"ctor", "compound", "try"}
      /\ \A n \in synthesized : n \in Int /\ n < next
      /\ \A n \in synthesized : \A i \in 1..Len(open) : open[i].id # n
      /\ BR!Nodes = 1..(FewNodes - 1)
  BY BRCtorFacts
<1>2. /\ s' \in Seq(BR!Nodes) /\ Len(s) \in Nat /\ Len(s') = Len(s) + 1
      /\ \A k \in 1..Len(s) : k \in 1..Len(s') /\ s'[k] = s[k] /\ k # Len(s')
      /\ Len(s') \in 1..Len(s') /\ s'[Len(s')] = next
      /\ \A k \in 1..Len(s') : k \in 1..Len(s) \/ k = Len(s')
  BY <1>1, Grown
<1>3. \A i \in 1..Len(open) : open[i].id \in Int /\ open[i].id < next
  BY BRType DEF BRInv, OpenIsOrdered
<1> HIDE DEF s
<1>4. \A i \in 1..Len(open') : open'[i].id = next => i \notin 1..Len(open)
  BY <1>3
<1>5. \A k \in 1..Len(s') : s'[k] < next'
  BY <1>1, <1>2
<1>6. \A k \in 1..Len(s') : \/ \E i \in 1..Len(open') : open'[i].id = s'[k]
                            \/ \E l \in k..Len(s') : s'[l] \in synthesized'
  <2>1. \A k \in 1..Len(s) : \/ \E i \in 1..Len(open') : open'[i].id = s'[k]
                             \/ \E l \in k..Len(s') : s'[l] \in synthesized'
    <3> SUFFICES ASSUME NEW k \in 1..Len(s)
                 PROVE  \/ \E i \in 1..Len(open') : open'[i].id = s'[k]
                        \/ \E l \in k..Len(s') : s'[l] \in synthesized'
      OBVIOUS
    <3>1. s'[k] = s[k]
      BY <1>2
    <3>2. CASE \E i \in 1..Len(open) : open[i].id = s[k]
      BY <3>1, <3>2
    <3>3. CASE \E l \in k..Len(s) : s[l] \in synthesized
      <4>1. PICK l \in k..Len(s) : s[l] \in synthesized
        BY <3>3
      <4>2. l \in 1..Len(s) /\ l \in k..Len(s')
        BY <1>2
      <4>3. s'[l] \in synthesized'
        BY <1>2, <4>1, <4>2
      <4> QED
        BY <4>2, <4>3
    <3> QED
      BY <1>1, <3>2, <3>3
  <2>2. \/ \E i \in 1..Len(open') : open'[i].id = s'[Len(s')]
        \/ \E l \in Len(s')..Len(s') : s'[l] \in synthesized'
    <3>1. Len(s') \in Len(s')..Len(s')
      BY <1>2
    <3> QED
      BY <1>2, <3>1
  <2> QED
    BY <1>2, <2>1, <2>2
<1>7. \A k, l \in 1..Len(s') : k < l => s'[k] < s'[l]
  <2> SUFFICES ASSUME NEW k \in 1..Len(s'), NEW l \in 1..Len(s'), k < l PROVE s'[k] < s'[l]
    OBVIOUS
  <2>1. k \in 1..Len(s) /\ s'[k] = s[k]
    BY <1>2
  <2> QED
    BY <1>1, <1>2, <2>1
<1>8. \A i \in 1..Len(open') :
        open'[i].kind \in {"ctor", "try"} => \E k \in 1..Len(s') : s'[k] = open'[i].id
  <2> SUFFICES ASSUME NEW i \in 1..Len(open'), open'[i].kind \in {"ctor", "try"}
               PROVE  \E k \in 1..Len(s') : s'[k] = open'[i].id
    OBVIOUS
  <2>1. CASE i \in 1..Len(open)
    <3>1. open'[i] = open[i]
      BY <2>1
    <3>2. PICK k \in 1..Len(s) : s[k] = open[i].id
      BY <1>1, <2>1, <3>1
    <3> QED
      BY <1>2, <3>1, <3>2
  <2>2. CASE open'[i].id = next
    BY <1>2, <2>2
  <2> QED
    BY <2>1, <2>2
<1>9. \A k \in 1..Len(s') : \A i \in 1..Len(open') :
        open'[i].id = s'[k] => open'[i].kind \in {"ctor", "compound", "try"}
  <2>1. \A k \in 1..Len(s) : \A i \in 1..Len(open') :
          open'[i].id = s[k] => i \in 1..Len(open)
    <3>1. \A k \in 1..Len(s) : s[k] # next
      BY <1>1
    <3> QED
      BY <3>1
  <2>2. \A k \in 1..Len(s) : \A i \in 1..Len(open') :
          open'[i].id = s'[k] => open'[i].kind \in {"ctor", "compound", "try"}
    <3> SUFFICES ASSUME NEW k \in 1..Len(s), NEW i \in 1..Len(open'), open'[i].id = s'[k]
                 PROVE  open'[i].kind \in {"ctor", "compound", "try"}
      OBVIOUS
    <3>1. open'[i].id = s[k]
      BY <1>2
    <3>2. i \in 1..Len(open) /\ open'[i] = open[i]
      BY <2>1, <3>1
    <3>3. open[i].id = s[k]
      BY <3>1, <3>2
    <3>4. open[i].kind \in {"ctor", "compound", "try"}
      BY <1>1, <3>2, <3>3
    <3> QED
      BY <3>2, <3>4
  <2>3. \A i \in 1..Len(open') : open'[i].id = next => open'[i].kind = "ctor"
    BY <1>4
  <2> QED
    BY <1>2, <2>2, <2>3
<1>10. \A n \in synthesized' : n < next' /\ \A i \in 1..Len(open') : open'[i].id # n
  <2>1. \A n \in synthesized : n < next'
    BY <1>1
  <2>2. \A n \in synthesized : \A i \in 1..Len(open') : open'[i].id # n
    BY <1>1
  <2>3. next < next' /\ (open' = open => \A i \in 1..Len(open') : open'[i].id # next)
    BY <1>1, <1>4
  <2> QED
    BY <2>1, <2>2, <2>3
<1>11. BR!CtorsAreStacked'
  BY <1>6, <1>7, <1>8 DEF BR!CtorsAreStacked, BR!IsOpen, s
<1>12. BRCtors'
  BY <1>5, <1>9, <1>10 DEF BRCtors, BR!IsOpen, s
<1>13. s' \in Seq(1..(FewNodes - 1)) /\ synthesized' \subseteq 1..(FewNodes - 1)
  BY <1>1, <1>2
<1> QED
  BY <1>11, <1>12, <1>13 DEF s, BR!Nodes

(* The body of the innermost constructor is left; those around it are older.*)
LEMMA BRCtorsPopped ==
  ASSUME BRInv, NEW K, BR!LeaveStmt(K), BR!IsCtorBody(BR!Top(open)),
         m_ctor_body_stack' = BR!Pop(m_ctor_body_stack), UNCHANGED synthesized
  PROVE  BR!CtorsAreStacked' /\ BRCtors' /\ m_ctor_body_stack' \in Seq(BR!Nodes)
<1> DEFINE s == m_ctor_body_stack
           n == open[Len(open)].id
<1>1. /\ next \in Int /\ s \in Seq(BR!Nodes)
      /\ \A k \in 1..Len(s) : s[k] \in Int /\ s[k] < next
      /\ \A k \in 1..Len(s) : \/ \E i \in 1..Len(open) : open[i].id = s[k]
                              \/ \E l \in k..Len(s) : s[l] \in synthesized
      /\ \A k, l \in 1..Len(s) : k < l => s[k] < s[l]
      /\ \A i \in 1..Len(open) :
           open[i].kind \in {"ctor", "try"} => \E k \in 1..Len(s) : s[k] = open[i].id
      /\ \A k \in 1..Len(s) : \A i \in 1..Len(open) :
           open[i].id = s[k] => open[i].kind \in {"ctor", "compound", "try"}
      /\ \A m \in synthesized : m \in Int /\ m < next
      /\ \A m \in synthesized : \A i \in 1..Len(open) : open[i].id # m
  BY BRCtorFacts
<1>2. /\ next' = next /\ BR!Top(open) = open[Len(open)]
      /\ \A i \in 1..Len(open') : i \in 1..Len(open) /\ open'[i] = open[i] /\ i # Len(open)
      /\ Len(open) \in 1..Len(open)
      /\ \A i \in 1..Len(open) : i \in 1..Len(open') \/ i = Len(open)
      /\ \A i \in 1..Len(open') : open[i].id < n
  BY BRLeft
<1>3. s # <<>> /\ s[Len(s)] = n /\ s' = SubSeq(s, 1, Len(s) - 1)
  BY <1>2 DEF BR!IsCtorBody, BR!Top, BR!Pop
<1>4. /\ s' \in Seq(BR!Nodes) /\ Len(s) \in Nat /\ Len(s') \in Nat
      /\ Len(s) = Len(s') + 1
      /\ \A k \in 1..Len(s') : k \in 1..Len(s) /\ s'[k] = s[k] /\ k # Len(s)
      /\ Len(s) \in 1..Len(s)
      /\ \A k \in 1..Len(s) : k \in 1..Len(s') \/ k = Len(s)
  <2>1. s \in Seq(BR!Nodes) /\ s # <<>> /\ s' = SubSeq(s, 1, Len(s) - 1)
    BY <1>1, <1>3
  <2> HIDE DEF s
  <2> QED
    BY <2>1, Shrunk
<1>5. \A k \in 1..Len(s') : s[k] # n
  <2>1. \A k \in 1..Len(s') : s[k] < s[Len(s)] /\ s[k] \in Int
    BY <1>1, <1>4
  <2>2. s[Len(s)] = n
    BY <1>3
  <2>3. n \in Int
    BY <1>1, <1>4, <2>2
  <2> HIDE DEF s, n
  <2> QED
    BY <2>1, <2>2, <2>3
<1>6. \A i \in 1..Len(open') : open'[i].id # n /\ open'[i].id = open[i].id
                               /\ open'[i].kind = open[i].kind
  <2>1. \A i \in 1..Len(open) : open[i].id \in Int
    BY BRType
  <2> QED
    BY <1>2, <2>1
<1>7. n \notin synthesized
  BY <1>1, <1>2
<1> HIDE DEF s
<1>8. \A k \in 1..Len(s') : \/ \E i \in 1..Len(open') : open'[i].id = s'[k]
                            \/ \E l \in k..Len(s') : s'[l] \in synthesized
  <2> SUFFICES ASSUME NEW k \in 1..Len(s')
               PROVE  \/ \E i \in 1..Len(open') : open'[i].id = s'[k]
                      \/ \E l \in k..Len(s') : s'[l] \in synthesized
    OBVIOUS
  <2>1. CASE \E i \in 1..Len(open) : open[i].id = s[k]
    <3>1. PICK i \in 1..Len(open) : open[i].id = s[k]
      BY <2>1
    <3>2. i # Len(open)
      BY <1>5, <3>1
    <3>3. i \in 1..Len(open') /\ open'[i].id = s[k]
      BY <1>2, <3>1, <3>2
    <3> QED
      BY <1>4, <3>3
  <2>2. CASE \E l \in k..Len(s) : s[l] \in synthesized
    <3>1. PICK l \in k..Len(s) : s[l] \in synthesized
      BY <2>2
    <3>2. l # Len(s)
      BY <1>3, <1>7, <3>1
    <3>3. l \in k..Len(s') /\ l \in 1..Len(s')
      BY <1>4, <3>2
    <3> QED
      BY <1>4, <3>1, <3>3
  <2> QED
    BY <1>1, <1>4, <2>1, <2>2
<1>9. \A k, l \in 1..Len(s') : k < l => s'[k] < s'[l]
  BY <1>1, <1>4
<1>10. \A i \in 1..Len(open') :
        open'[i].kind \in {"ctor", "try"} => \E k \in 1..Len(s') : s'[k] = open'[i].id
  <2> SUFFICES ASSUME NEW i \in 1..Len(open'), open'[i].kind \in {"ctor", "try"}
               PROVE  \E k \in 1..Len(s') : s'[k] = open'[i].id
    OBVIOUS
  <2>1. PICK k \in 1..Len(s) : s[k] = open[i].id
    BY <1>1, <1>2, <1>6
  <2>2. k # Len(s)
    BY <1>3, <1>6, <2>1
  <2> QED
    BY <1>4, <1>6, <2>1, <2>2
<1>11. \A k \in 1..Len(s') : s'[k] < next' /\ \A i \in 1..Len(open') :
         open'[i].id = s'[k] => open'[i].kind \in {"ctor", "compound", "try"}
  BY <1>1, <1>2, <1>4, <1>6
<1>12. \A m \in synthesized' : m < next' /\ \A i \in 1..Len(open') : open'[i].id # m
  BY <1>1, <1>2, <1>6
<1>13. BR!CtorsAreStacked'
  BY <1>8, <1>9, <1>10 DEF BR!CtorsAreStacked, BR!IsOpen, s
<1>14. BRCtors'
  BY <1>11, <1>12 DEF BRCtors, BR!IsOpen, s
<1> QED
  BY <1>4, <1>13, <1>14 DEF s

(* A statement is left that is not the body on top: if it is a body at all, *)
(* one that the compiler wrote has buried it.                               *)
LEMMA BRCtorsLeft ==
  ASSUME BRInv, NEW K, BR!LeaveStmt(K), ~BR!IsCtorBody(BR!Top(open)),
         UNCHANGED <<m_ctor_body_stack, synthesized>>
  PROVE  BR!CtorsAreStacked' /\ BRCtors'
<1> DEFINE s == m_ctor_body_stack
           n == open[Len(open)].id
<1>1. /\ next \in Int /\ s \in Seq(BR!Nodes) /\ Len(s) \in Nat
      /\ \A k \in 1..Len(s) : s[k] \in Int /\ s[k] < next
      /\ \A k \in 1..Len(s) : \/ \E i \in 1..Len(open) : open[i].id = s[k]
                              \/ \E l \in k..Len(s) : s[l] \in synthesized
      /\ \A k, l \in 1..Len(s) : k < l => s[k] < s[l]
      /\ \A i \in 1..Len(open) :
           open[i].kind \in {"ctor", "try"} => \E k \in 1..Len(s) : s[k] = open[i].id
      /\ \A k \in 1..Len(s) : \A i \in 1..Len(open) :
           open[i].id = s[k] => open[i].kind \in {"ctor", "compound", "try"}
      /\ \A m \in synthesized : m \in Int /\ m < next
      /\ \A m \in synthesized : \A i \in 1..Len(open) : open[i].id # m
  BY BRCtorFacts
<1>2. /\ next' = next /\ BR!Top(open) = open[Len(open)]
      /\ \A i \in 1..Len(open') : i \in 1..Len(open) /\ open'[i] = open[i] /\ i # Len(open)
      /\ Len(open) \in 1..Len(open)
      /\ \A i \in 1..Len(open) : i \in 1..Len(open') \/ i = Len(open)
      /\ \A i \in 1..Len(open') : open[i].id < n
      /\ \A i \in 1..Len(open) : open[i].id \in Int
  BY BRLeft, BRType
<1>3. s = <<>> \/ s[Len(s)] # n
  BY <1>2 DEF BR!IsCtorBody, BR!Top
<1>4. \A i \in 1..Len(open) : open[i].id <= n
  BY <1>2
<1>5. s' = s /\ synthesized' = synthesized
  OBVIOUS
<1>6. \A k \in 1..Len(s) : s[k] = n => \E l \in k..Len(s) : s[l] \in synthesized
  <2> SUFFICES ASSUME NEW k \in 1..Len(s), s[k] = n
               PROVE  \E l \in k..Len(s) : s[l] \in synthesized
    OBVIOUS
  <2>1. Len(s) \in 1..Len(s) /\ k < Len(s)
    <3>1. Len(s) \in 1..Len(s) /\ s # <<>> /\ k <= Len(s)
      BY <1>1
    <3>2. k # Len(s)
      BY <1>3, <3>1
    <3> QED
      BY <1>1, <3>1, <3>2
  <2>2. s[Len(s)] > n
    BY <1>1, <2>1
  <2>3. ~\E i \in 1..Len(open) : open[i].id = s[Len(s)]
    BY <1>1, <1>2, <1>4, <2>1, <2>2
  <2>4. PICK l \in Len(s)..Len(s) : s[l] \in synthesized
    BY <1>1, <2>1, <2>3
  <2>5. l \in k..Len(s)
    BY <1>1, <2>1
  <2> QED
    BY <2>4, <2>5
<1>7. \A i \in 1..Len(open') : open'[i].id = open[i].id /\ open'[i].kind = open[i].kind
  BY <1>2
<1>8. \A i \in 1..Len(open) : open[i].id # n => i \in 1..Len(open') /\ open'[i] = open[i]
  BY <1>2
<1> HIDE DEF s, n
<1>9. \A k \in 1..Len(s) : \/ \E i \in 1..Len(open') : open'[i].id = s[k]
                           \/ \E l \in k..Len(s) : s[l] \in synthesized
  <2> SUFFICES ASSUME NEW k \in 1..Len(s), NEW i \in 1..Len(open), open[i].id = s[k]
               PROVE  \/ \E j \in 1..Len(open') : open'[j].id = s[k]
                      \/ \E l \in k..Len(s) : s[l] \in synthesized
    BY <1>1
  <2>1. CASE s[k] = n
    BY <1>6, <2>1
  <2>2. CASE s[k] # n
    BY <1>8, <2>2
  <2> QED
    BY <2>1, <2>2
<1>10. \A i \in 1..Len(open') :
        open'[i].kind \in {"ctor", "try"} => \E k \in 1..Len(s) : s[k] = open'[i].id
  BY <1>1, <1>2, <1>7
<1>11. \A k \in 1..Len(s) : s[k] < next' /\ \A i \in 1..Len(open') :
         open'[i].id = s[k] => open'[i].kind \in {"ctor", "compound", "try"}
  BY <1>1, <1>2, <1>7
<1>12. \A m \in synthesized : m < next' /\ \A i \in 1..Len(open') : open'[i].id # m
  BY <1>1, <1>2, <1>7
<1>13. BR!CtorsAreStacked'
  BY <1>1, <1>5, <1>9, <1>10 DEF BR!CtorsAreStacked, BR!IsOpen, s
<1>14. BRCtors'
  BY <1>5, <1>11, <1>12 DEF BRCtors, BR!IsOpen, s
<1> QED
  BY <1>13, <1>14

-----------------------------------------------------------------------------
(* The steps of BadRandVisitor. *)

BRKept == [engn_decl : BR!Nodes, comp_stmt : BR!Nodes \cup {0}]
BRReports == [what : BR!Messages, node : BR!Nodes]

LEMMA BRParts ==
  ASSUME BRInv
  PROVE  /\ m_rand_engns \subseteq BRKept /\ engines \subseteq BR!Engine
         /\ reports \subseteq BRReports /\ m_cycle_depth \in Nat
         /\ m_is_defining_seed \in BOOLEAN
         /\ m_ctor_body_stack \in Seq(BR!Nodes) /\ synthesized \subseteq BR!Nodes
BY DEF BRInv, BR!TypeOK, BRKept, BRReports, BR!Null

(* The parts of the invariant together. *)
LEMMA BRWhole ==
  ASSUME BR!TraversalTypeOK(BR!Kinds)', OpenIsOrdered',
         BR!DepthIsOpenLoops', BR!SeedFlagIsSound', BRStack', BRStackTyped',
         BR!CtorsAreStacked', BRCtors', BREngines',
         m_rand_engns' \subseteq BRKept, engines' \subseteq BR!Engine,
         reports' \subseteq BRReports, m_cycle_depth' \in Nat,
         m_is_defining_seed' \in BOOLEAN,
         m_ctor_body_stack' \in Seq(BR!Nodes), synthesized' \subseteq BR!Nodes
  PROVE  BRInv'
<1>1. BR!TypeOK'
  BY DEF BR!TypeOK, BRStackTyped, BRKept, BRReports, BR!Null, BR!Nodes, BR!Engine
<1> QED
  BY <1>1 DEF BRInv

(* Diagnostics other than those of a block that is left. *)
LEMMA BRReported ==
  ASSUME BRInv, next \in BR!Nodes, NEW w \in BR!Messages,
         reports' \in {reports, BR!Note(w, next)}
  PROVE  reports' \subseteq BRReports /\ BR!OneShotsAreSound
<1>1. [what |-> w, node |-> next] \in BRReports
  BY DEF BRReports
<1>2. reports' \subseteq BRReports
  BY <1>1, BRParts DEF BR!Note
<1>3. next \in Int /\ \A e \in engines : e.decl \in Int /\ e.decl < next
  BY BRParts, BRType DEF BRInv, BREngines, BR!Engine
<1>4. \A e \in engines : BR!OneShot(e) # [what |-> w, node |-> next]
  <2> SUFFICES ASSUME NEW e \in engines PROVE BR!OneShot(e) # [what |-> w, node |-> next]
    OBVIOUS
  <2>1. BR!OneShot(e).node = e.decl /\ [what |-> w, node |-> next].node = next
    BY DEF BR!OneShot
  <2>2. e.decl # next
    BY <1>3
  <2> QED
    BY <2>1, <2>2
<1>5. BR!OneShotsAreSound
  BY <1>4 DEF BR!OneShotsAreSound, BR!Note
<1> QED
  BY <1>2, <1>5

LEMMA BRSilent ==
  ASSUME BRInv, reports' = reports
  PROVE  reports' \subseteq BRReports /\ BR!OneShotsAreSound
BY BRParts DEF BR!OneShotsAreSound

(* A node without children that matter, and not of a constructor. *)
LEMMA BRVisitedInv ==
  ASSUME BRInv, BR!Visit, open' = open,
         UNCHANGED <<rand_comp_stmt_stack, m_ctor_body_stack, m_cycle_depth,
                     m_is_defining_seed, synthesized>>,
         BREngines', m_rand_engns' \subseteq BRKept, engines' \subseteq BR!Engine,
         reports' \subseteq BRReports
  PROVE  BRInv'
<1>1. /\ next' = next + 1 /\ BR!TraversalTypeOK(BR!Kinds)' /\ OpenIsOrdered'
  BY BRStayed
<1>2. BR!DepthIsOpenLoops' /\ BR!SeedFlagIsSound'
  BY BRStayedOther
<1>3. BRStack' /\ BRStackTyped'
  BY <1>1, BRStackKept
<1>4. BR!CtorsAreStacked' /\ BRCtors'
  BY <1>1, BRCtorsKept
<1> QED
  BY <1>1, <1>2, <1>3, <1>4, BRParts, BRWhole

(* A node is entered that is neither a block nor a constructor. *)
LEMMA BREnteredInv ==
  ASSUME BRInv, NEW k \in {"loop", "seed", "call"}, BR!Enter(k),
         UNCHANGED <<m_rand_engns, rand_comp_stmt_stack, m_ctor_body_stack,
                     engines, synthesized>>,
         BR!DepthIsOpenLoops', BR!SeedFlagIsSound', m_cycle_depth' \in Nat,
         m_is_defining_seed' \in BOOLEAN, reports' \subseteq BRReports
  PROVE  BRInv'
<1>1. k \in BR!Kinds /\ k \notin {"compound", "ctor", "try"}
  BY DEF BR!Kinds
<1>2. /\ next' = next + 1 /\ BR!TraversalTypeOK(BR!Kinds)' /\ OpenIsOrdered'
      /\ \A i \in 1..Len(open) : i \in 1..Len(open') /\ open'[i] = open[i] /\ i # Len(open')
      /\ open'[Len(open')].id = next /\ open'[Len(open')].kind = k
      /\ \A i \in 1..Len(open') : i \in 1..Len(open) \/ i = Len(open')
      /\ \A n : BR!IsOpen(n)' <=> BR!IsOpen(n) \/ n = next
  BY <1>1, BREntered
<1>3. BRStack' /\ BRStackTyped'
  BY <1>1, <1>2, BRStackKept
<1>4. BR!CtorsAreStacked' /\ BRCtors'
  BY <1>1, <1>2, BRCtorsKept
<1>5. BREngines'
  BY <1>2, BREnginesKept
<1> QED
  BY <1>2, <1>3, <1>4, <1>5, BRParts, BRWhole

(* A node is left that is not the body of the innermost constructor. *)
LEMMA BRLeftInv ==
  ASSUME BRInv, NEW K, BR!LeaveStmt(K), ~BR!IsCtorBody(BR!Top(open)),
         UNCHANGED <<m_ctor_body_stack, engines, synthesized>>,
         m_rand_engns' \subseteq m_rand_engns,
         BRStack', BRStackTyped',
         BR!DepthIsOpenLoops', BR!SeedFlagIsSound', m_cycle_depth' \in Nat,
         m_is_defining_seed' \in BOOLEAN, reports' \subseteq BRReports
  PROVE  BRInv'
<1>1. /\ next' = next /\ BR!TraversalTypeOK(BR!Kinds)' /\ OpenIsOrdered'
      /\ \A n : BR!IsOpen(n)' <=> BR!IsOpen(n) /\ n # open[Len(open)].id
  BY BRLeft
<1>2. BR!CtorsAreStacked' /\ BRCtors'
  BY BRCtorsLeft
<1>3. BREngines'
  BY <1>1, BREnginesKept
<1> QED
  BY <1>1, <1>2, <1>3, BRParts, BRWhole

(* The stack of blocks stays when a node other than a block is left. *)
LEMMA BRStackStays ==
  ASSUME BRInv, NEW K, BR!LeaveStmt(K), UNCHANGED rand_comp_stmt_stack
  PROVE  BRStack' /\ BRStackTyped'
<1>1. /\ next' = next
      /\ \A i \in 1..Len(open') : i \in 1..Len(open) /\ open'[i] = open[i] /\ i # Len(open)
  BY BRLeft
<1> QED
  BY <1>1, BRStackKept

(* The bodies of constructors are compounds or function-try blocks. *)
LEMMA BRNoBody ==
  ASSUME BRInv, NEW K, BR!LeaveStmt(K), K \cap {"ctor", "compound", "try"} = {}
  PROVE  ~BR!IsCtorBody(BR!Top(open))
<1> SUFFICES ASSUME BR!IsCtorBody(BR!Top(open)) PROVE FALSE
  OBVIOUS
<1>1. /\ BR!Top(open) = open[Len(open)] /\ open[Len(open)].kind \in K
      /\ Len(open) \in 1..Len(open)
  BY BRLeft
<1>2. m_ctor_body_stack # <<>> /\ m_ctor_body_stack[Len(m_ctor_body_stack)] = open[Len(open)].id
  BY <1>1 DEF BR!IsCtorBody, BR!Top
<1>3. Len(m_ctor_body_stack) \in 1..Len(m_ctor_body_stack)
  BY <1>2, BRParts
<1>4. open[Len(open)].kind \in {"ctor", "compound", "try"}
  BY <1>1, <1>2, <1>3 DEF BRInv, BRCtors
<1> QED
  BY <1>1, <1>4

(* The block that an engine is kept with is the innermost, unless it was    *)
(* left before: then none of its engines is ever reported.                  *)
LEMMA BRInnermost ==
  ASSUME BRInv, NEW c \in BR!Nodes \cup {0}, BR!IsInnermost(c)
  PROVE  LET t == BR!Top(rand_comp_stmt_stack)
         IN  t \in BR!Nodes \cup {0} /\ t < next /\ (t = c \/ ~BR!IsOpen(t))
<1> DEFINE s == rand_comp_stmt_stack
           t == s[Len(s)]
<1>1. /\ BRStack /\ s \in Seq(BR!Nodes \cup {0}) /\ s # <<>>
      /\ \A k \in 1..Len(s) : s[k] \in Int
      /\ \A i \in 1..Len(open) : open[i].id \in Int /\ open[i].id # 0
      /\ Len(s) \in Nat /\ Len(open) \in Nat
  BY BRType DEF BRInv, BR!TypeOK, BR!Null
<1>2. Len(s) \in 1..Len(s) /\ t \in BR!Nodes \cup {0}
  BY <1>1, Back
<1>3. t < next
  BY <1>1, <1>2 DEF BRStack
<1>4. ASSUME BR!IsOpen(t)
      PROVE  t = c
  <2>1. PICK i \in 1..Len(open) : open[i].id = t
    BY <1>4 DEF BR!IsOpen
  <2>2. open[i].kind = "compound"
    BY <1>1, <1>2, <2>1 DEF BRStack
  <2>3. PICK j \in 1..Len(open) :
          /\ open[j] = [id |-> c, kind |-> "compound"]
          /\ \A l \in (j + 1)..Len(open) : open[l].kind # "compound"
    BY <2>2 DEF BR!IsInnermost
  <2>4. open[j].id = c /\ open[j].kind = "compound"
    BY <2>3
  <2>5. i <= j
    BY <1>1, <2>2, <2>3
  <2>6. CASE i < j
    <3>1. t < c
      BY <2>1, <2>4, <2>6 DEF BRInv, OpenIsOrdered
    <3>2. PICK k \in 1..Len(s) : s[k] = c
      BY <1>1, <2>4 DEF BRStack
    <3>3. t \in Int /\ c \in Int
      BY <1>1, <2>1, <2>4
    <3>4. k < Len(s)
      BY <1>1, <3>1, <3>2, <3>3
    <3>5. s[k] < s[Len(s)]
      BY <1>1, <1>2, <2>1, <2>4, <3>2, <3>4 DEF BRStack
    <3> QED
      BY <3>1, <3>2, <3>3, <3>5
  <2>7. CASE i = j
    BY <2>1, <2>4, <2>7
  <2> QED
    BY <1>1, <2>5, <2>6, <2>7
<1> QED
  BY <1>2, <1>3, <1>4 DEF BR!Top

LEMMA BRDeclared ==
  ASSUME BRInv, BR!VisitVarDecl
  PROVE  BREngines' /\ m_rand_engns' \subseteq BRKept /\ engines' \subseteq BR!Engine
<1>1. next' = next + 1 /\ next \in BR!Nodes /\ \A n : BR!IsOpen(n)' <=> BR!IsOpen(n)
  BY BRStayed DEF BR!VisitVarDecl
<1>2. CASE m_ctor_body_stack # <<>>
  <2>1. UNCHANGED <<m_rand_engns, engines>>
    BY <1>2 DEF BR!VisitVarDecl
  <2> QED
    BY <1>1, <2>1, BREnginesKept, BRParts
<1>3. CASE m_ctor_body_stack = <<>>
  <2> DEFINE t == BR!Top(rand_comp_stmt_stack)
             new == [engn_decl |-> next, comp_stmt |-> t]
  <2>1. PICK c \in BR!Nodes \cup {0} :
          BR!IsInnermost(c) /\ engines' = engines \cup
            {[decl |-> next, block |-> c, busy |-> FALSE]}
    BY <1>3 DEF BR!VisitVarDecl, BR!Null
  <2> DEFINE engine == [decl |-> next, block |-> c, busy |-> FALSE]
  <2>2. m_rand_engns' = m_rand_engns \cup {new}
    BY <1>3 DEF BR!VisitVarDecl
  <2>3. t \in BR!Nodes \cup {0} /\ t < next /\ (t = c \/ ~BR!IsOpen(t))
    BY <2>1, BRInnermost
  <2>4. new \in BRKept /\ new.engn_decl = next /\ new.comp_stmt = t
    BY <1>1, <2>3 DEF BRKept
  <2>5. /\ engine \in BR!Engine /\ engine.decl = next /\ engine.block = c
        /\ engine.busy = FALSE
    BY <1>1 DEF BR!Engine, BR!Null
  <2>6. engines' = engines \cup {engine}
    BY <2>1
  <2>7. /\ next \in Int /\ BR!Nodes = 1..(FewNodes - 1)
        /\ m_rand_engns \subseteq BRKept /\ engines \subseteq BR!Engine /\ BREngines
    BY BRType, BRParts DEF BRInv
  <2>8. /\ \A e \in engines : e.decl \in Int /\ e.decl < next
        /\ \A m \in m_rand_engns : m.engn_decl \in Int /\ m.comp_stmt \in Int
                                   /\ m.engn_decl < next /\ m.comp_stmt < next
    BY <2>7 DEF BRKept, BR!Engine, BREngines
  <2>9. t \in Int
    BY <2>3, <2>7
  <2> HIDE DEF t, new, engine
  <2>10. \A e \in engines' : e.decl < next'
    BY <1>1, <2>5, <2>6, <2>7, <2>8
  <2>11. \A m \in m_rand_engns' : m.engn_decl < next' /\ m.comp_stmt < next'
    BY <1>1, <2>2, <2>3, <2>4, <2>7, <2>8, <2>9
  <2>12. \A m \in m_rand_engns', e \in engines' :
           e.decl = m.engn_decl =>
             ~e.busy /\ (m.comp_stmt = e.block \/ ~BR!IsOpen(m.comp_stmt))
    <3> SUFFICES ASSUME NEW m \in m_rand_engns', NEW e \in engines', e.decl = m.engn_decl
                 PROVE  ~e.busy /\ (m.comp_stmt = e.block \/ ~BR!IsOpen(m.comp_stmt))
      OBVIOUS
    <3>1. CASE m = new
      <4>1. e = engine
        BY <2>4, <2>6, <2>7, <2>8, <3>1
      <4> QED
        BY <2>3, <2>4, <2>5, <3>1, <4>1
    <3>2. CASE m \in m_rand_engns
      <4>1. e \in engines
        BY <2>5, <2>6, <2>7, <2>8, <3>2
      <4> QED
        BY <2>7, <3>2, <4>1 DEF BREngines
    <3> QED
      BY <2>2, <3>1, <3>2
  <2>13. BREngines'
    BY <1>1, <2>10, <2>11, <2>12 DEF BREngines
  <2> QED
    BY <2>2, <2>4, <2>5, <2>6, <2>7, <2>13 DEF BRKept, BR!Engine
<1> QED
  BY <1>2, <1>3

(* The block that is left reports its engines, and no others. *)
LEMMA BRLeftBlock ==
  ASSUME BRInv, BR!LeaveCompound
  PROVE  reports' \subseteq BRReports /\ BR!OneShotsAreSound
<1>1. /\ BR!Top(open) = open[Len(open)] /\ BR!IsOpen(open[Len(open)].id)
      /\ Len(open') < Len(open)
  BY BRLeft DEF BR!LeaveCompound
<1> DEFINE b == open[Len(open)].id
           here == {e \in m_rand_engns : e.comp_stmt = b}
<1>2. reports' = reports \cup {[what |-> "one-shot", node |-> e.engn_decl] : e \in here}
  BY <1>1 DEF BR!LeaveCompound
<1>3. \A m \in here : m \in m_rand_engns /\ m.comp_stmt = b
  OBVIOUS
<1> HIDE DEF b, here
<1>4. \A m \in here : [what |-> "one-shot", node |-> m.engn_decl] \in BRReports
  BY <1>3, BRParts DEF BRKept, BRReports, BR!Messages
<1>5. reports' \subseteq BRReports
  BY <1>2, <1>4, BRParts
<1>6. ASSUME NEW e \in engines, BR!OneShot(e) \in reports' \ reports
      PROVE  ~e.busy /\ e.block = b
  <2>1. PICK m \in here : BR!OneShot(e) = [what |-> "one-shot", node |-> m.engn_decl]
    BY <1>2, <1>6
  <2>2. e.decl = m.engn_decl
    <3>1. BR!OneShot(e).node = e.decl
      BY DEF BR!OneShot
    <3> QED
      BY <2>1, <3>1
  <2>3. BR!IsOpen(m.comp_stmt)
    BY <1>1, <1>3 DEF b
  <2>4. \A x \in m_rand_engns, y \in engines :
          y.decl = x.engn_decl =>
            ~y.busy /\ (x.comp_stmt = y.block \/ ~BR!IsOpen(x.comp_stmt))
    BY DEF BRInv, BREngines
  <2> QED
    BY <1>3, <2>2, <2>3, <2>4
<1>7. BR!OneShotsAreSound
  BY <1>1, <1>6 DEF BR!OneShotsAreSound, b
<1> QED
  BY <1>5, <1>7

-----------------------------------------------------------------------------
(* Every action keeps BRInv and reports only engines as OneShotsAreSound     *)
(* says.                                                                     *)

LEMMA BREnterCtor ==
  ASSUME BRInv, BR!EnterCtor
  PROVE  BRInv' /\ BR!OneShotsAreSound
<1>1. /\ BR!Enter("ctor") /\ "ctor" \in BR!Kinds
      /\ m_ctor_body_stack' = Append(m_ctor_body_stack, next)
      /\ UNCHANGED <<m_rand_engns, rand_comp_stmt_stack, m_cycle_depth, m_is_defining_seed,
                     reports, engines, synthesized>>
  BY DEF BR!EnterCtor, BR!Kinds
<1>2. /\ next' = next + 1 /\ next \in BR!Nodes
      /\ BR!TraversalTypeOK(BR!Kinds)' /\ OpenIsOrdered'
      /\ \A i \in 1..Len(open) : i \in 1..Len(open') /\ open'[i] = open[i] /\ i # Len(open')
      /\ Len(open') \in 1..Len(open')
      /\ open'[Len(open')].id = next /\ open'[Len(open')].kind = "ctor"
      /\ \A i \in 1..Len(open') : i \in 1..Len(open) \/ i = Len(open')
      /\ \A n : BR!IsOpen(n)' <=> BR!IsOpen(n) \/ n = next
  BY <1>1, BREntered
<1>3. BR!DepthIsOpenLoops' /\ BR!SeedFlagIsSound'
  BY <1>1, BREnteredOther
<1>4. BRStack' /\ BRStackTyped'
  BY <1>1, <1>2, BRStackKept
<1>5. /\ BR!CtorsAreStacked' /\ BRCtors'
      /\ m_ctor_body_stack' \in Seq(BR!Nodes) /\ synthesized' \subseteq BR!Nodes
  <2>1. \A i \in 1..Len(open') : \/ i \in 1..Len(open)
                                 \/ open'[i].id = next /\ open'[i].kind = "ctor"
    BY <1>2
  <2>2. \E i \in 1..Len(open') : open'[i].id = next
    BY <1>2
  <2> QED
    BY <1>1, <1>2, <2>1, <2>2, BRCtorsPushed
<1>6. BREngines'
  BY <1>1, <1>2, BREnginesKept
<1> QED
  BY <1>1, <1>2, <1>3, <1>4, <1>5, <1>6, BRParts, BRSilent, BRWhole

LEMMA BRVisitDefaultedCtor ==
  ASSUME BRInv, BR!VisitDefaultedCtor
  PROVE  BRInv' /\ BR!OneShotsAreSound
<1>1. /\ BR!Visit /\ open' = open
      /\ m_ctor_body_stack' = Append(m_ctor_body_stack, next)
      /\ synthesized' = synthesized \cup {next}
      /\ UNCHANGED <<m_rand_engns, rand_comp_stmt_stack, m_cycle_depth, m_is_defining_seed,
                     reports, engines>>
  BY DEF BR!VisitDefaultedCtor, BR!VisitLeaf
<1>2. /\ next' = next + 1 /\ next \in BR!Nodes
      /\ BR!TraversalTypeOK(BR!Kinds)' /\ OpenIsOrdered'
      /\ \A n : BR!IsOpen(n)' <=> BR!IsOpen(n)
  BY <1>1, BRStayed
<1>3. BR!DepthIsOpenLoops' /\ BR!SeedFlagIsSound'
  BY <1>1, BRStayedOther
<1>4. BRStack' /\ BRStackTyped'
  BY <1>1, <1>2, BRStackKept
<1>5. /\ BR!CtorsAreStacked' /\ BRCtors'
      /\ m_ctor_body_stack' \in Seq(BR!Nodes) /\ synthesized' \subseteq BR!Nodes
  BY <1>1, <1>2, BRCtorsPushed
<1>6. BREngines'
  BY <1>1, <1>2, BREnginesKept
<1> QED
  BY <1>1, <1>2, <1>3, <1>4, <1>5, <1>6, BRParts, BRSilent, BRWhole

LEMMA BRVisitCtorDeclaration ==
  ASSUME BRInv, BR!VisitCtorDeclaration
  PROVE  BRInv' /\ BR!OneShotsAreSound
<1>1. /\ BR!Visit /\ open' = open
      /\ UNCHANGED <<m_rand_engns, rand_comp_stmt_stack, m_ctor_body_stack, m_cycle_depth,
                     m_is_defining_seed, reports, engines, synthesized>>
  BY DEF BR!VisitCtorDeclaration, BR!blocks
<1>2. next' = next + 1 /\ \A n : BR!IsOpen(n)' <=> BR!IsOpen(n)
  BY <1>1, BRStayed
<1>3. BREngines'
  BY <1>1, <1>2, BREnginesKept
<1> QED
  BY <1>1, <1>3, BRParts, BRSilent, BRVisitedInv

LEMMA BREnterCtorBody ==
  ASSUME BRInv, NEW kind \in {"compound", "try"}, BR!EnterCtorBody(kind)
  PROVE  BRInv' /\ BR!OneShotsAreSound
<1>1. /\ kind \in BR!Kinds
      /\ UNCHANGED <<m_rand_engns, m_ctor_body_stack, m_cycle_depth, m_is_defining_seed,
                     reports, engines, synthesized>>
  BY DEF BR!EnterCtorBody, BR!Kinds
<1>2. /\ next' = next /\ Len(open') = Len(open) /\ Len(open) \in 1..Len(open)
      /\ BR!TraversalTypeOK(BR!Kinds)' /\ OpenIsOrdered'
      /\ open[Len(open)].kind = "ctor" /\ open'[Len(open)].kind = kind
      /\ \A i \in 1..Len(open) : open'[i].id = open[i].id
      /\ \A i \in 1..Len(open) : i = Len(open) \/ open'[i] = open[i]
      /\ \A n : BR!IsOpen(n)' <=> BR!IsOpen(n)
  BY <1>1, BRBodied
<1>3. BR!DepthIsOpenLoops' /\ BR!SeedFlagIsSound'
  BY BRBodiedOther
<1>4. BRStack' /\ BRStackTyped'
  BY BRStackBodied
<1>5. BR!CtorsAreStacked' /\ BRCtors'
  <2>1. \A i \in 1..Len(open') : \E j \in 1..Len(open) :
          /\ open'[i].id = open[j].id
          /\ \/ open'[i].kind = open[j].kind
             \/ open[j].kind = "ctor" /\ open'[i].kind \in {"compound", "try"}
    BY <1>2
  <2>2. \A i \in 1..Len(open) : \E j \in 1..Len(open') : open'[j].id = open[i].id
    BY <1>2
  <2> QED
    BY <1>1, <1>2, <2>1, <2>2, BRCtorsKept
<1>6. BREngines'
  BY <1>1, <1>2, BREnginesKept
<1> QED
  BY <1>1, <1>2, <1>3, <1>4, <1>5, <1>6, BRParts, BRSilent, BRWhole

LEMMA BREnterCompound ==
  ASSUME BRInv, BR!EnterCompound
  PROVE  BRInv' /\ BR!OneShotsAreSound
<1>1. /\ BR!Enter("compound") /\ "compound" \in BR!Kinds
      /\ rand_comp_stmt_stack' = Append(rand_comp_stmt_stack, next)
      /\ UNCHANGED <<m_rand_engns, m_ctor_body_stack, m_cycle_depth, m_is_defining_seed,
                     reports, engines, synthesized>>
  BY DEF BR!EnterCompound, BR!Kinds
<1>2. /\ next' = next + 1
      /\ BR!TraversalTypeOK(BR!Kinds)' /\ OpenIsOrdered'
      /\ \A i \in 1..Len(open) : i \in 1..Len(open') /\ open'[i] = open[i] /\ i # Len(open')
      /\ open'[Len(open')].id = next /\ open'[Len(open')].kind = "compound"
      /\ \A i \in 1..Len(open') : i \in 1..Len(open) \/ i = Len(open')
      /\ \A n : BR!IsOpen(n)' <=> BR!IsOpen(n) \/ n = next
  BY <1>1, BREntered
<1>3. BR!DepthIsOpenLoops' /\ BR!SeedFlagIsSound'
  BY <1>1, BREnteredOther
<1>4. BRStack' /\ BRStackTyped'
  BY <1>1, BRStackPushed
<1>5. BR!CtorsAreStacked' /\ BRCtors'
  <2>1. \A i \in 1..Len(open') :
          \/ open'[i].id = next /\ open'[i].kind \notin {"ctor", "try"}
          \/ \E j \in 1..Len(open) : open'[i] = open[j]
    BY <1>2
  <2>2. \A i \in 1..Len(open) : \E j \in 1..Len(open') : open'[j].id = open[i].id
    BY <1>2
  <2> QED
    BY <1>1, <1>2, <2>1, <2>2, BRCtorsKept
<1>6. BREngines'
  BY <1>1, <1>2, BREnginesKept
<1> QED
  BY <1>1, <1>2, <1>3, <1>4, <1>5, <1>6, BRParts, BRSilent, BRWhole

LEMMA BREnterLoop ==
  ASSUME BRInv, BR!EnterLoop
  PROVE  BRInv' /\ BR!OneShotsAreSound
<1>1. /\ BR!Enter("loop") /\ m_cycle_depth' = m_cycle_depth + 1 /\ "loop" \in BR!Kinds
      /\ UNCHANGED <<m_rand_engns, rand_comp_stmt_stack, m_ctor_body_stack,
                     m_is_defining_seed, reports, engines, synthesized>>
  BY DEF BR!EnterLoop, BR!blocks, BR!Kinds
<1>2. BR!DepthIsOpenLoops' /\ m_cycle_depth' \in Nat
  BY <1>1, BRLoopEntered
<1>3. BR!SeedFlagIsSound'
  <2>1. \A i \in 1..Len(open) : i \in 1..Len(open') /\ open'[i] = open[i]
    BY <1>1, BREntered
  <2> QED
    BY <1>1, <2>1 DEF BRInv, BR!SeedFlagIsSound
<1> QED
  BY <1>1, <1>2, <1>3, BRParts, BRSilent, BREnteredInv

LEMMA BREnterSeed ==
  ASSUME BRInv, NEW constant \in BOOLEAN, BR!EnterSeed(constant)
  PROVE  BRInv' /\ BR!OneShotsAreSound
<1>1. /\ BR!Enter("seed") /\ m_is_defining_seed' = TRUE
      /\ reports' \in {reports, BR!Note("same-seed", next)}
      /\ "seed" \in BR!Kinds /\ "same-seed" \in BR!Messages
      /\ UNCHANGED <<m_rand_engns, rand_comp_stmt_stack, m_ctor_body_stack, m_cycle_depth,
                     engines, synthesized>>
  BY DEF BR!EnterSeed, BR!blocks, BR!Kinds, BR!Messages
<1>2. next \in BR!Nodes
  BY <1>1, BREntered
<1>3. BR!DepthIsOpenLoops' /\ BR!SeedFlagIsSound'
  BY <1>1, BREnteredOther
<1>4. reports' \subseteq BRReports /\ BR!OneShotsAreSound
  BY <1>1, <1>2, BRReported
<1> QED
  BY <1>1, <1>3, <1>4, BRParts, BREnteredInv

LEMMA BREnterCall ==
  ASSUME BRInv, BR!EnterCall
  PROVE  BRInv' /\ BR!OneShotsAreSound
<1>1. /\ BR!Enter("call") /\ m_is_defining_seed' = FALSE /\ "call" \in BR!Kinds
      /\ UNCHANGED <<m_rand_engns, rand_comp_stmt_stack, m_ctor_body_stack, m_cycle_depth,
                     reports, engines, synthesized>>
  BY DEF BR!EnterCall, BR!blocks, BR!Kinds
<1>2. BR!DepthIsOpenLoops' /\ BR!SeedFlagIsSound'
  BY <1>1, BREnteredOther
<1> QED
  BY <1>1, <1>2, BRParts, BRSilent, BREnteredInv

LEMMA BREnterHidden ==
  ASSUME BRInv, NEW kind \in {"seed", "call"}, BR!EnterHidden(kind)
  PROVE  BRInv' /\ BR!OneShotsAreSound
<1>1. /\ BR!Enter(kind) /\ kind \in BR!Kinds
      /\ UNCHANGED <<m_rand_engns, rand_comp_stmt_stack, m_ctor_body_stack, m_cycle_depth,
                     m_is_defining_seed, reports, engines, synthesized>>
  BY DEF BR!EnterHidden, BR!blocks, BR!Kinds
<1>2. BR!DepthIsOpenLoops' /\ BR!SeedFlagIsSound'
  BY <1>1, BREnteredOther
<1> QED
  BY <1>1, <1>2, BRParts, BRSilent, BREnteredInv

LEMMA BRVisitVarDecl ==
  ASSUME BRInv, BR!VisitVarDecl
  PROVE  BRInv' /\ BR!OneShotsAreSound
<1>1. /\ BR!Visit /\ open' = open
      /\ UNCHANGED <<rand_comp_stmt_stack, m_ctor_body_stack, m_cycle_depth,
                     m_is_defining_seed, reports, synthesized>>
  BY DEF BR!VisitVarDecl, BR!blocks
<1> QED
  BY <1>1, BRDeclared, BRSilent, BRVisitedInv

(* Calls that leave the engines alone. *)
LEMMA BRVisitOtherCall ==
  ASSUME BRInv, BR!Visit, open' = open,
         NEW w \in BR!Messages, reports' \in {reports, BR!Note(w, next)},
         UNCHANGED <<m_rand_engns, rand_comp_stmt_stack, m_ctor_body_stack, m_cycle_depth,
                     m_is_defining_seed, engines, synthesized>>
  PROVE  BRInv' /\ BR!OneShotsAreSound
<1>1. next' = next + 1 /\ next \in BR!Nodes /\ \A n : BR!IsOpen(n)' <=> BR!IsOpen(n)
  BY BRStayed
<1>2. BREngines'
  BY <1>1, BREnginesKept
<1>3. reports' \subseteq BRReports /\ BR!OneShotsAreSound
  BY <1>1, BRReported
<1> QED
  BY <1>2, <1>3, BRParts, BRVisitedInv

LEMMA BRVisitCallExpr ==
  ASSUME BRInv, NEW callee \in {"rand", "random_shuffle"}, BR!VisitCallExpr(callee)
  PROVE  BRInv' /\ BR!OneShotsAreSound
BY BRVisitOtherCall DEF BR!VisitCallExpr, BR!blocks, BR!Messages

LEMMA BRVisitTemporaryCall ==
  ASSUME BRInv, BR!VisitTemporaryCall
  PROVE  BRInv' /\ BR!OneShotsAreSound
BY BRVisitOtherCall DEF BR!VisitTemporaryCall, BR!blocks, BR!Messages

LEMMA BRVisitDeviceCall ==
  ASSUME BRInv, BR!VisitDeviceCall
  PROVE  BRInv' /\ BR!OneShotsAreSound
BY BRVisitOtherCall DEF BR!VisitDeviceCall, BR!blocks, BR!Messages

LEMMA BRVisitMove ==
  ASSUME BRInv, NEW decl, NEW hidden \in BOOLEAN, BR!VisitMove(decl, hidden)
  PROVE  BRInv' /\ BR!OneShotsAreSound
<1>1. /\ BR!Visit /\ open' = open
      /\ UNCHANGED <<rand_comp_stmt_stack, m_ctor_body_stack, m_cycle_depth,
                     m_is_defining_seed, reports, synthesized>>
  BY DEF BR!VisitMove, BR!blocks
<1>2. next' = next + 1 /\ next \in BR!Nodes /\ \A n : BR!IsOpen(n)' <=> BR!IsOpen(n)
  BY <1>1, BRStayed
<1>3. BREngines' /\ engines' \subseteq BR!Engine /\ m_rand_engns' \subseteq m_rand_engns
  <2>1. CASE hidden
    <3>1. UNCHANGED <<m_rand_engns, engines>>
      BY <2>1 DEF BR!VisitMove
    <3> QED
      BY <1>2, <3>1, BREnginesKept, BRParts
  <2>2. CASE ~hidden
    <3>1. BR!EraseEngine(decl) /\ BR!MarkBusy(decl)
      BY <2>2 DEF BR!VisitMove
    <3> QED
      BY <1>1, <1>2, <3>1, BREnginesUsed
  <2> QED
    BY <2>1, <2>2
<1> QED
  BY <1>1, <1>3, BRParts, BRSilent, BRVisitedInv

(* Inside of a loop the engine that is used is erased. *)
LEMMA BRVisitEngineCall ==
  ASSUME BRInv, NEW decl, NEW distribution \in BOOLEAN, NEW hidden \in BOOLEAN,
         BR!VisitEngineCall(decl, distribution, hidden)
  PROVE  BRInv' /\ BR!OneShotsAreSound
<1>1. /\ BR!Visit /\ open' = open
      /\ UNCHANGED <<rand_comp_stmt_stack, m_ctor_body_stack, m_cycle_depth,
                     m_is_defining_seed, synthesized>>
      /\ reports' \in {reports, BR!Note("distribution", next)}
      /\ "distribution" \in BR!Messages
  BY DEF BR!VisitEngineCall, BR!blocks, BR!Messages
<1>2. next' = next + 1 /\ next \in BR!Nodes /\ \A n : BR!IsOpen(n)' <=> BR!IsOpen(n)
  BY <1>1, BRStayed
<1>3. BREngines' /\ engines' \subseteq BR!Engine /\ m_rand_engns' \subseteq m_rand_engns
  <2>1. CASE ~hidden /\ BR!InsideOf({"loop"})
    <3>1. BR!EraseEngine(decl) /\ BR!MarkBusy(decl)
      BY <2>1, BRDepthInLoops DEF BR!VisitEngineCall, BR!Use
    <3> QED
      BY <1>1, <1>2, <3>1, BREnginesUsed
  <2>2. CASE hidden \/ ~BR!InsideOf({"loop"})
    <3>1. engines' = engines /\ m_rand_engns' \subseteq m_rand_engns
      BY <2>2 DEF BR!VisitEngineCall, BR!Use, BR!EraseEngine
    <3> QED
      BY <1>2, <3>1, BREnginesKept, BRParts
  <2> QED
    BY <2>1, <2>2
<1>4. reports' \subseteq BRReports /\ BR!OneShotsAreSound
  BY <1>1, <1>2, BRReported
<1> QED
  BY <1>1, <1>3, <1>4, BRParts, BRVisitedInv

LEMMA BRLeaveCtorBody ==
  ASSUME BRInv, BR!LeaveCtorBody
  PROVE  BRInv' /\ BR!OneShotsAreSound
<1>1. /\ BR!LeaveStmt({"compound", "try"}) /\ BR!IsCtorBody(BR!Top(open))
      /\ m_ctor_body_stack' = BR!Pop(m_ctor_body_stack)
      /\ UNCHANGED <<m_rand_engns, rand_comp_stmt_stack, m_cycle_depth,
                     m_is_defining_seed, reports, engines, synthesized>>
  BY DEF BR!LeaveCtorBody
<1>2. /\ next' = next /\ BR!TraversalTypeOK(BR!Kinds)' /\ OpenIsOrdered'
      /\ \A n : BR!IsOpen(n)' <=> BR!IsOpen(n) /\ n # open[Len(open)].id
  BY <1>1, BRLeft
<1>3. BR!DepthIsOpenLoops' /\ BR!SeedFlagIsSound'
  BY <1>1, BRLeftOther
<1>4. BRStack' /\ BRStackTyped'
  BY <1>1, BRStackStays
<1>5. BR!CtorsAreStacked' /\ BRCtors' /\ m_ctor_body_stack' \in Seq(BR!Nodes)
  BY <1>1, BRCtorsPopped
<1>6. BREngines'
  BY <1>1, <1>2, BREnginesKept
<1> QED
  BY <1>1, <1>2, <1>3, <1>4, <1>5, <1>6, BRParts, BRSilent, BRWhole

LEMMA BRLeaveLoop ==
  ASSUME BRInv, BR!LeaveLoop
  PROVE  BRInv' /\ BR!OneShotsAreSound
<1>1. /\ BR!LeaveStmt({"loop"}) /\ m_cycle_depth' = m_cycle_depth - 1
      /\ UNCHANGED <<m_rand_engns, rand_comp_stmt_stack, m_ctor_body_stack,
                     m_is_defining_seed, reports, engines, synthesized>>
  BY DEF BR!LeaveLoop, BR!blocks
<1>2. BR!DepthIsOpenLoops' /\ m_cycle_depth' \in Nat
  BY <1>1, BRLoopLeft
<1>3. BR!SeedFlagIsSound'
  <2>1. /\ open[Len(open)].kind = "loop"
        /\ \A i \in 1..Len(open') : open'[i] = open[i]
        /\ \A i \in 1..Len(open) : i \in 1..Len(open') \/ i = Len(open)
    BY <1>1, BRLeft
  <2> QED
    BY <1>1, <2>1 DEF BRInv, BR!SeedFlagIsSound
<1>4. BRStack' /\ BRStackTyped' /\ ~BR!IsCtorBody(BR!Top(open))
  BY <1>1, BRStackStays, BRNoBody
<1> QED
  BY <1>1, <1>2, <1>3, <1>4, BRParts, BRSilent, BRLeftInv

LEMMA BRLeaveCompound ==
  ASSUME BRInv, BR!LeaveCompound
  PROVE  BRInv' /\ BR!OneShotsAreSound
<1>1. /\ BR!LeaveStmt({"compound"}) /\ ~BR!IsCtorBody(BR!Top(open))
      /\ m_rand_engns' \subseteq m_rand_engns
      /\ rand_comp_stmt_stack' = BR!Pop(rand_comp_stmt_stack)
      /\ UNCHANGED <<m_ctor_body_stack, m_cycle_depth, m_is_defining_seed, engines,
                     synthesized>>
  BY DEF BR!LeaveCompound
<1>2. BR!DepthIsOpenLoops' /\ BR!SeedFlagIsSound'
  BY <1>1, BRLeftOther
<1>3. BRStack' /\ BRStackTyped'
  BY <1>1, BRStackPopped
<1>4. reports' \subseteq BRReports /\ BR!OneShotsAreSound
  BY BRLeftBlock
<1> QED
  BY <1>1, <1>2, <1>3, <1>4, BRParts, BRLeftInv

LEMMA BRLeaveSeed ==
  ASSUME BRInv, BR!LeaveSeed
  PROVE  BRInv' /\ BR!OneShotsAreSound
<1>1. /\ BR!LeaveStmt({"seed"}) /\ m_is_defining_seed' = FALSE
      /\ UNCHANGED <<m_rand_engns, rand_comp_stmt_stack, m_ctor_body_stack, m_cycle_depth,
                     reports, engines, synthesized>>
  BY DEF BR!LeaveSeed, BR!blocks
<1>2. BR!DepthIsOpenLoops' /\ BR!SeedFlagIsSound'
  BY <1>1, BRLeftOther
<1>3. BRStack' /\ BRStackTyped' /\ ~BR!IsCtorBody(BR!Top(open))
  BY <1>1, BRStackStays, BRNoBody
<1> QED
  BY <1>1, <1>2, <1>3, BRParts, BRSilent, BRLeftInv

LEMMA BRLeaveOther ==
  ASSUME BRInv, BR!LeaveOther
  PROVE  BRInv' /\ BR!OneShotsAreSound
<1>1. /\ BR!LeaveStmt({"call", "try"}) /\ ~BR!IsCtorBody(BR!Top(open))
      /\ UNCHANGED <<m_rand_engns, rand_comp_stmt_stack, m_ctor_body_stack, m_cycle_depth,
                     m_is_defining_seed, reports, engines, synthesized>>
  BY DEF BR!LeaveOther, BR!blocks
<1>2. BR!DepthIsOpenLoops' /\ BR!SeedFlagIsSound'
  BY <1>1, BRLeftOther
<1>3. BRStack' /\ BRStackTyped'
  BY <1>1, BRStackStays
<1> QED
  BY <1>1, <1>2, <1>3, BRParts, BRSilent, BRLeftInv

-----------------------------------------------------------------------------

LEMMA BRInit ==
  ASSUME BR!Init
  PROVE  BRInv
<1>1. /\ FewNodes - 1 \in Nat /\ open = <<>> /\ next = 1 /\ m_rand_engns = {}
      /\ rand_comp_stmt_stack = <<0>> /\ m_ctor_body_stack = <<>> /\ m_cycle_depth = 0
      /\ m_is_defining_seed = FALSE /\ reports = {} /\ engines = {} /\ synthesized = {}
  BY VisitorsAssumption DEF BR!Init, BR!TraversalInit, BR!Null
<1>2. /\ \A S : <<>> \in Seq(S)
      /\ \A S : <<0>> \in Seq(S \cup {0})
      /\ Len(<<>>) = 0 /\ <<0>> # <<>> /\ Len(<<0>>) = 1 /\ <<0>>[1] = 0
  OBVIOUS
<1>3. BR!TypeOK
  <2>1. BR!TraversalTypeOK(BR!Kinds)
    BY <1>1, <1>2 DEF BR!TraversalTypeOK
  <2>2. rand_comp_stmt_stack \in Seq(BR!Nodes \cup {BR!Null}) /\ rand_comp_stmt_stack # <<>>
    BY <1>1, <1>2 DEF BR!Null
  <2> QED
    BY <1>1, <1>2, <2>1, <2>2 DEF BR!TypeOK
<1>4. BR!DepthIsOpenLoops
  <2>1. BR!OpenLoops = {}
    BY <1>1, <1>2 DEF BR!OpenLoops
  <2> QED
    BY <1>1, <2>1, FS_EmptySet, BRCardinality DEF BR!DepthIsOpenLoops
<1>5. Len(open) = 0 /\ Len(m_ctor_body_stack) = 0 /\ Len(rand_comp_stmt_stack) = 1
  BY <1>1, <1>2
<1>6. OpenIsOrdered /\ BR!SeedFlagIsSound /\ BR!CtorsAreStacked /\ BRCtors
  BY <1>1, <1>5 DEF OpenIsOrdered, BR!SeedFlagIsSound, BR!CtorsAreStacked, BRCtors
<1>7. BRStack
  BY <1>1, <1>2, <1>5 DEF BRStack
<1>8. BREngines
  BY <1>1 DEF BREngines
<1> QED
  BY <1>3, <1>4, <1>6, <1>7, <1>8 DEF BRInv

LEMMA BRNext ==
  ASSUME BRInv, BR!Next
  PROVE  BRInv' /\ BR!OneShotsAreSound
BY BREnterCtor, BRVisitDefaultedCtor, BRVisitCtorDeclaration, BREnterCtorBody,
   BREnterCompound, BREnterLoop, BREnterCall, BREnterSeed, BREnterHidden, BRVisitVarDecl,
   BRVisitCallExpr, BRVisitMove, BRVisitEngineCall, BRVisitTemporaryCall, BRVisitDeviceCall,
   BRLeaveCtorBody, BRLeaveLoop, BRLeaveCompound, BRLeaveSeed, BRLeaveOther DEF BR!Next

LEMMA BRStutter ==
  ASSUME BRInv, UNCHANGED BR!vars
  PROVE  BRInv'
<1>1. UNCHANGED <<open, next, m_rand_engns, rand_comp_stmt_stack, m_ctor_body_stack,
                  m_cycle_depth, m_is_defining_seed, reports, engines, synthesized>>
  BY DEF BR!vars, BR!blocks
<1>2. BR!TypeOK'
  BY <1>1 DEF BRInv, BR!TypeOK, BR!TraversalTypeOK, BR!Nodes, BR!Null, BR!Engine
<1>3. BR!DepthIsOpenLoops' /\ BR!SeedFlagIsSound'
  BY <1>1, BRStayedOther
<1>4. OpenIsOrdered' /\ BRStack'
  BY <1>1 DEF BRInv, OpenIsOrdered, BRStack
<1>5. BR!CtorsAreStacked'
  BY <1>1 DEF BRInv, BR!CtorsAreStacked, BR!IsOpen
<1>6. BRCtors' /\ BREngines'
  BY <1>1 DEF BRInv, BRCtors, BREngines, BR!IsOpen
<1> QED
  BY <1>2, <1>3, <1>4, <1>5, <1>6 DEF BRInv

-----------------------------------------------------------------------------
(* The six visitors together.  Init starts all of them, so that each        *)
(* invariant holds at first; then only that of the enabled one is kept.     *)

VInv ==
  /\ visitor = "BadRand" => BRInv
  /\ visitor = "InitMembers" => IMInv
  /\ visitor = "Miscellaneous" => MIInv
  /\ visitor = "MoveStringStream" => MSInv
  /\ visitor = "LockGuardRelease" => LGInv
  /\ visitor = "ReturnValue" => RVInv

LEMMA VInit ==
  ASSUME Init
  PROVE  VInv
BY BRInit, IMInit, MIInit, MSInit, LGInit, RVInit DEF Init, VInv

LEMMA VNext ==
  ASSUME VInv, Next
  PROVE  VInv' /\ (visitor = "BadRand" => BR!OneShotsAreSound)
<1>1. CASE BadRandNext
  <2>1. visitor = "BadRand" /\ visitor' = "BadRand" /\ BR!Next /\ BRInv
    BY <1>1 DEF BadRandNext, VInv
  <2> QED
    BY <2>1, BRNext DEF VInv
<1>2. CASE InitMembersNext
  <2>1. visitor = "InitMembers" /\ visitor' = "InitMembers" /\ IM!Next /\ IMInv
    BY <1>2 DEF InitMembersNext, VInv
  <2> QED
    BY <2>1, IMNext DEF VInv
<1>3. CASE MiscellaneousNext
  <2>1. visitor = "Miscellaneous" /\ visitor' = "Miscellaneous" /\ MI!Next /\ MIInv
    BY <1>3 DEF MiscellaneousNext, VInv
  <2> QED
    BY <2>1, MINext DEF VInv
<1>4. CASE MoveStringStreamNext
  <2>1. visitor = "MoveStringStream" /\ visitor' = "MoveStringStream" /\ MS!Next /\ MSInv
    BY <1>4 DEF MoveStringStreamNext, VInv
  <2> QED
    BY <2>1, MSNext DEF VInv
<1>5. CASE LockGuardReleaseNext
  <2>1. visitor = "LockGuardRelease" /\ visitor' = "LockGuardRelease" /\ LG!Next /\ LGInv
    BY <1>5 DEF LockGuardReleaseNext, VInv
  <2> QED
    BY <2>1, LGNext DEF VInv
<1>6. CASE ReturnValueNext
  <2>1. visitor = "ReturnValue" /\ visitor' = "ReturnValue" /\ RV!Next /\ RVInv
    BY <1>6 DEF ReturnValueNext, VInv
  <2> QED
    BY <2>1, RVNext DEF VInv
<1> QED
  BY <1>1, <1>2, <1>3, <1>4, <1>5, <1>6 DEF Next

LEMMA VStutter ==
  ASSUME VInv, UNCHANGED vars
  PROVE  VInv'
<1>1. /\ UNCHANGED <<open, next, visitor, reports, synthesized, m_ctor_body_stack,
                     m_comp_stmt_stack>>
      /\ UNCHANGED ofBadRand /\ UNCHANGED ofInitMembers /\ UNCHANGED ofMiscellaneous
      /\ UNCHANGED ofMoveStringStream /\ UNCHANGED ofLockGuardRelease
      /\ UNCHANGED ofReturnValue
  BY DEF vars
<1>2. UNCHANGED BR!vars
  BY <1>1 DEF BR!vars, BR!blocks, ofBadRand
<1>3. UNCHANGED IM!vars
  BY <1>1 DEF IM!vars, ofInitMembers
<1>4. UNCHANGED MI!vars
  BY <1>1 DEF MI!vars, ofMiscellaneous
<1>5. UNCHANGED MS!vars
  BY <1>1 DEF MS!vars, MS!maps, ofMoveStringStream
<1>6. UNCHANGED LG!vars
  BY <1>1 DEF LG!vars, LG!history, ofLockGuardRelease
<1>7. UNCHANGED RV!vars
  BY <1>1 DEF RV!vars, ofReturnValue
<1>8. visitor' = visitor
  BY <1>1
<1> QED
  BY <1>2, <1>3, <1>4, <1>5, <1>6, <1>7, <1>8, BRStutter, IMStutter, MIStutter,
     MSStutter, LGStutter, RVStutter DEF VInv

(* The invariant of the enabled visitor is inductive. *)
THEOREM Inductive == Spec => []VInv
<1>1. Init => VInv
  BY VInit
<1>2. VInv /\ [Next]_vars => VInv'
  BY VNext, VStutter
<1> QED
  BY <1>1, <1>2, PTL DEF Spec

(* The members of every visitor keep their types, whatever the AST: no      *)
(* stack is popped below its bottom, the vectors stay sorted, no diagnostic *)
(* is given twice and the maps of MoveStringStreamVisitor agree.            *)
THEOREM TypesAreKept == Spec => []VisitorsTypeOK
<1>1. VInv => VisitorsTypeOK
  BY DEF VInv, VisitorsTypeOK, BRInv, IMInv, MIInv, MSInv, LGInv, RVInv
<1> QED
  BY <1>1, Inductive, PTL

(* The stacks and counters of the visitors tell where in the AST they are:  *)
(* m_cycle_depth, m_ctor_body_stack, m_comp_stmt_stack, m_curr_ctor_body    *)
(* and the functions of ReturnValueVisitor, at every point of a traversal.  *)
THEOREM PositionsStayExact == Spec => []PositionsAreExact
<1>1. VInv => PositionsAreExact
  BY DEF VInv, PositionsAreExact, BRInv, IMInv, MIInv, RVInv
<1> QED
  BY <1>1, Inductive, PTL

(* BadRandVisitor takes no call of a random_device for the computation of a *)
(* seed that is outside of one: m_is_defining_seed is never left set.       *)
THEOREM SeedFlagStaysSound == Spec => []SeedFlagIsSound
<1>1. VInv => SeedFlagIsSound
  BY DEF VInv, SeedFlagIsSound, BRInv
<1> QED
  BY <1>1, Inductive, PTL

(* BadRandVisitor reports an engine as one-shot only when the block around  *)
(* its declaration is left, and never one that was moved from or used in a  *)
(* loop, unless in a macro or on a NOLINT line, though blocks that were     *)
(* left remain on m_comp_stmt_stack.                                        *)
THEOREM OneShotsStaySound == Spec => OneShotsAreSound
<1>1. VInv /\ [Next]_vars => [visitor = "BadRand" => BR!OneShotsAreSound]_vars
  BY VNext
<1> QED
  BY <1>1, Inductive, PTL DEF Spec, OneShotsAreSound

(* InitMembersVisitor carries no assignment from one constructor into the   *)
(* next, and what it reports can be written as a member initialiser.        *)
THEOREM MembersStayInitializable == Spec => []MembersAreInitializable
<1>1. VInv => MembersAreInitializable
  BY DEF VInv, MembersAreInitializable, IMInv
<1> QED
  BY <1>1, Inductive, PTL

(* MiscellaneousVisitor's m_last_assigned leads to assignments only: a use  *)
(* of a local that follows takes the entry away.                            *)
THEOREM LastReferencesStayAssignments == Spec => []LastReferencesAreAssignments
<1>1. VInv => LastReferencesAreAssignments
  BY DEF VInv, LastReferencesAreAssignments, MIInv
<1> QED
  BY <1>1, Inductive, PTL

(* MoveStringStreamVisitor reports a str() only if no later reference to    *)
(* the stream was seen in its declaration.                                  *)
THEOREM ReportsStayLastSeen == Spec => []ReportsAreLastSeen
<1>1. VInv => ReportsAreLastSeen
  BY DEF VInv, ReportsAreLastSeen, MSInv
<1> QED
  BY <1>1, Inductive, PTL

(* LockGuardReleaseVisitor keeps a variable if and only if a mutex was      *)
(* released into it and no later unlock() was called through it, as far as  *)
(* neither is in a macro or on a NOLINT line.                               *)
THEOREM PendingReleasesStayExact == Spec => []PendingReleasesAreExact
<1>1. VInv => PendingReleasesAreExact
  BY DEF VInv, PendingReleasesAreExact, LGInv
<1> QED
  BY <1>1, Inductive, PTL

(* At the end LockGuardReleaseVisitor has reported exactly those variables, *)
(* and of the release() whose mutex is thrown away just those that are in   *)
(* no macro and on no NOLINT line.                                          *)
THEOREM LockedMutexesStayReported == Spec => []LockedMutexesAreReported
<1>1. VInv => LockedMutexesAreReported
  BY DEF VInv, LockedMutexesAreReported, LGInv
<1> QED
  BY <1>1, Inductive, PTL

(* ReturnValueVisitor reports only functions all of whose returns are       *)
(* *this, those in a macro or on a NOLINT line left out, however functions  *)
(* and lambdas are nested.                                                  *)
THEOREM SelfCopiesStayCopies == Spec => []SelfCopiesAreCopies
<1>1. VInv => SelfCopiesAreCopies
  BY DEF VInv, SelfCopiesAreCopies, RVInv
<1> QED
  BY <1>1, Inductive, PTL

=============================================================================
