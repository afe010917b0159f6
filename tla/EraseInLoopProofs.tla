-------------------------- MODULE EraseInLoopProofs -------------------------
(* Theorems about EraseInLoopVisitor, for any set of variables and any       *)
(* bound on the number of statements.                                        *)
EXTENDS EraseInLoop, VectorLemmas, TLAPS

(* Statements are numbered in the order they are entered. *)
IdsIncrease ==
  /\ \A i \in 1..Len(open) : open[i].id < next
  /\ \A i, j \in 1..Len(open) : i < j => open[i].id < open[j].id

(* The inductive invariant. *)
IInv ==
  /\ TypeOK
  /\ IdsIncrease
  /\ m_parents = open
  /\ StackIsOpenLoops
  /\ ReportsAreExact

(* What the types say of an element of open and of m_stack. *)
LEMMA Fields ==
  ASSUME TypeOK
  PROVE  /\ Len(open) \in Nat /\ Len(m_stack) \in Nat
         /\ \A i \in 1..Len(open) :
              open[i] \in Stmt /\ open[i].id \in Nodes /\ open[i].id \in Nat
         /\ \A k \in 1..Len(m_stack) :
              /\ m_stack[k] \in ForAndVar
              /\ m_stack[k].stmt \in Nodes /\ m_stack[k].stmt \in Nat
              /\ m_stack[k].var \in Vars
<1>1. open \in Seq(Stmt) /\ m_stack \in Seq(ForAndVar)
  BY DEF TypeOK
<1>2. \A s \in Stmt : s.id \in Nodes /\ s.id \in Nat
  BY DEF Stmt, Nodes
<1>3. \A e \in ForAndVar : e.stmt \in Nodes /\ e.stmt \in Nat /\ e.var \in Vars
  BY DEF ForAndVar, Nodes
<1>4. \A i \in 1..Len(open) : open[i] \in Stmt
  BY <1>1
<1>5. \A k \in 1..Len(m_stack) : m_stack[k] \in ForAndVar
  BY <1>1
<1> QED
  BY <1>1, <1>2, <1>3, <1>4, <1>5

(* The search from the back of m_stack finds the innermost loop. *)
LEMMA SearchIsInnermost ==
  ASSUME IInv, NEW v \in Vars
  PROVE  findForStrmForVar(v) = LoopOver(v)
<1> USE DEF IInv
<1>0. /\ Len(open) \in Nat /\ Len(m_stack) \in Nat
      /\ \A i \in 1..Len(open) : open[i] \in Stmt /\ open[i].id \in Nat
      /\ \A k \in 1..Len(m_stack) : m_stack[k] \in ForAndVar /\ m_stack[k].stmt \in Nat
  BY Fields
<1>1. ASSUME NEW x \in findForStrmForVar(v)
      PROVE  x \in LoopOver(v)
  <2>1. PICK k \in 1..Len(m_stack) :
          /\ x = m_stack[k].stmt
          /\ m_stack[k].var = v
          /\ \A l \in (k + 1)..Len(m_stack) : m_stack[l].var # v
    BY <1>1 DEF findForStrmForVar
  <2>2. PICK i \in 1..Len(open) : open[i].id = x /\ open[i].var = v
    BY <2>1 DEF StackIsOpenLoops
  <2>3. ASSUME NEW j \in (i + 1)..Len(open), open[j].var = v
        PROVE  FALSE
    <3>1. j \in 1..Len(open) /\ open[j].id > x
      BY <1>0, <2>2 DEF IdsIncrease
    <3>2. PICK l \in 1..Len(m_stack) :
            m_stack[l].stmt = open[j].id /\ m_stack[l].var = v
      BY <2>3, <3>1, EraseInLoopAssumption DEF StackIsOpenLoops
    <3>3. l > k
      BY <1>0, <2>1, <3>1, <3>2 DEF StackIsOpenLoops
    <3> QED
      BY <1>0, <2>1, <3>2, <3>3
  <2> QED
    BY <2>2, <2>3 DEF LoopOver
<1>2. ASSUME NEW x \in LoopOver(v)
      PROVE  x \in findForStrmForVar(v)
  <2>1. PICK i \in 1..Len(open) :
          /\ x = open[i].id
          /\ open[i].var = v
          /\ \A j \in (i + 1)..Len(open) : open[j].var # v
    BY <1>2 DEF LoopOver
  <2>2. PICK k \in 1..Len(m_stack) : m_stack[k].stmt = x /\ m_stack[k].var = v
    BY <2>1, EraseInLoopAssumption DEF StackIsOpenLoops
  <2>3. ASSUME NEW l \in (k + 1)..Len(m_stack), m_stack[l].var = v
        PROVE  FALSE
    <3>1. l \in 1..Len(m_stack) /\ m_stack[l].stmt > x
      BY <1>0, <2>2 DEF StackIsOpenLoops
    <3>2. PICK j \in 1..Len(open) : open[j].id = m_stack[l].stmt /\ open[j].var = v
      BY <2>3, <3>1 DEF StackIsOpenLoops
    <3>3. j > i
      BY <1>0, <2>1, <3>1, <3>2 DEF IdsIncrease
    <3> QED
      BY <1>0, <2>1, <3>2, <3>3
  <2> QED
    BY <2>2, <2>3 DEF findForStrmForVar
<1> QED
  BY <1>1, <1>2

-----------------------------------------------------------------------------

(* Entering a statement keeps the numbering and the record of parents. *)
LEMMA PushStep ==
  ASSUME IInv, NEW s \in Stmt, s.id = next, Push(s)
  PROVE  /\ open' \in Seq(Stmt) /\ m_parents' = open'
         /\ next' \in 1..(MaxNodes + 1)
         /\ IdsIncrease'
         /\ Len(open) \in Nat
         /\ Len(open') = Len(open) + 1
         /\ open'[Len(open) + 1] = s
         /\ \A i \in 1..Len(open) : open'[i] = open[i]
<1>1. open \in Seq(Stmt) /\ m_parents = open /\ next \in 1..(MaxNodes + 1)
  BY DEF IInv, TypeOK
<1>2. next' = next + 1 /\ next <= MaxNodes /\ open' = Append(open, s)
      /\ m_parents' = Append(m_parents, s)
  BY DEF Push
<1>3. /\ open' \in Seq(Stmt)
      /\ Len(open) \in Nat
      /\ Len(open') = Len(open) + 1
      /\ open'[Len(open) + 1] = s
      /\ \A i \in 1..Len(open) : open'[i] = open[i] /\ open[i] \in Stmt
  BY <1>1, <1>2, PushBack
<1>4. IdsIncrease'
  BY <1>1, <1>2, <1>3, EraseInLoopAssumption DEF IInv, IdsIncrease, Stmt, Nodes
<1> QED
  BY <1>1, <1>2, <1>3, <1>4, EraseInLoopAssumption

(* A statement without a variable leaves m_stack exact. *)
LEMMA PushUntracked ==
  ASSUME IInv, NEW s \in Stmt, s.id = next, s.var = NoVar, Push(s), UNCHANGED m_stack
  PROVE  StackIsOpenLoops'
<1>1. /\ Len(open) \in Nat
      /\ Len(open') = Len(open) + 1
      /\ open'[Len(open) + 1] = s
      /\ \A i \in 1..Len(open) : open'[i] = open[i]
  BY PushStep
<1>2. \A i \in 1..Len(open') : i \in 1..Len(open) \/ i = Len(open) + 1
  BY <1>1
<1>3. 1..Len(open) \subseteq 1..Len(open')
  BY <1>1
<1>4. m_stack' = m_stack
  OBVIOUS
<1>5. \A k \in 1..Len(m_stack) :
        \E i \in 1..Len(open') :
          open'[i].id = m_stack[k].stmt /\ open'[i].var = m_stack[k].var
  <2> TAKE k \in 1..Len(m_stack)
  <2>1. PICK i \in 1..Len(open) :
          open[i].id = m_stack[k].stmt /\ open[i].var = m_stack[k].var
    BY DEF IInv, StackIsOpenLoops
  <2>2. i \in 1..Len(open') /\ open'[i] = open[i]
    BY <1>1, <1>3
  <2> QED
    BY <2>1, <2>2
<1>6. \A i \in 1..Len(open') :
        open'[i].var # NoVar =>
          \E k \in 1..Len(m_stack) :
            open'[i].id = m_stack[k].stmt /\ open'[i].var = m_stack[k].var
  <2> TAKE i \in 1..Len(open')
  <2>1. CASE i = Len(open) + 1
    BY <1>1, <2>1
  <2>2. CASE i \in 1..Len(open)
    <3>1. open'[i] = open[i]
      BY <1>1, <2>2
    <3> QED
      BY <2>2, <3>1 DEF IInv, StackIsOpenLoops
  <2> QED
    BY <1>2, <2>1, <2>2
<1>7. \A k, l \in 1..Len(m_stack) : k < l => m_stack[k].stmt < m_stack[l].stmt
  BY DEF IInv, StackIsOpenLoops
<1> QED
  BY <1>4, <1>5, <1>6, <1>7 DEF StackIsOpenLoops

LEMMA EnterStmtStep ==
  ASSUME IInv, NEW kind \in Kinds, NEW jumps \in BOOLEAN, EnterStmt(kind, jumps)
  PROVE  IInv'
<1> DEFINE s == [id |-> next, kind |-> kind, jumps |-> jumps, var |-> NoVar]
<1>1. s \in Stmt /\ s.id = next /\ s.var = NoVar
  BY EraseInLoopAssumption DEF EnterStmt, Push, IInv, TypeOK, Stmt, Nodes
<1>2. Push(s) /\ UNCHANGED <<m_stack, reports, invalid>>
  BY DEF EnterStmt
<1> HIDE DEF s
<1>3. StackIsOpenLoops'
  BY <1>1, <1>2, PushUntracked
<1>4. /\ open' \in Seq(Stmt) /\ m_parents' = open'
      /\ next' \in 1..(MaxNodes + 1)
      /\ IdsIncrease'
  BY <1>1, <1>2, PushStep
<1> QED
  BY <1>2, <1>3, <1>4 DEF IInv, TypeOK, ReportsAreExact

LEMMA EnterForStep ==
  ASSUME IInv, NEW v \in Vars \cup {NoVar}, NEW jumps \in BOOLEAN, EnterFor(v, jumps)
  PROVE  IInv'
<1> DEFINE s == [id |-> next, kind |-> "for", jumps |-> jumps, var |-> v]
<1>1. s \in Stmt /\ s.id = next /\ s.var = v /\ next \in Nodes
  BY EraseInLoopAssumption DEF EnterFor, Push, IInv, TypeOK, Stmt, Nodes, Kinds
<1>2. /\ Push(s) /\ UNCHANGED <<reports, invalid>>
      /\ m_stack' = IF v = NoVar THEN m_stack ELSE Append(m_stack, [stmt |-> next, var |-> v])
  BY DEF EnterFor
<1> HIDE DEF s
<1>3. /\ open' \in Seq(Stmt) /\ m_parents' = open'
      /\ next' \in 1..(MaxNodes + 1)
      /\ IdsIncrease'
      /\ Len(open) \in Nat
      /\ Len(open') = Len(open) + 1
      /\ open'[Len(open) + 1] = s
      /\ \A i \in 1..Len(open) : open'[i] = open[i]
  BY <1>1, <1>2, PushStep
<1>4. CASE v = NoVar
  <2>1. StackIsOpenLoops'
    BY <1>1, <1>2, <1>4, PushUntracked
  <2> QED
    BY <1>2, <1>3, <1>4, <2>1 DEF IInv, TypeOK, ReportsAreExact
<1>5. CASE v # NoVar
  <2> DEFINE e == [stmt |-> next, var |-> v]
  <2>1. e \in ForAndVar /\ e.stmt = next /\ e.var = v
    BY <1>1, <1>5 DEF ForAndVar
  <2>2. m_stack \in Seq(ForAndVar) /\ m_stack' = Append(m_stack, e)
    BY <1>2, <1>5 DEF IInv, TypeOK
  <2> HIDE DEF e
  <2>3. /\ m_stack' \in Seq(ForAndVar)
        /\ Len(m_stack) \in Nat
        /\ Len(m_stack') = Len(m_stack) + 1
        /\ m_stack'[Len(m_stack) + 1] = e
        /\ \A k \in 1..Len(m_stack) : m_stack'[k] = m_stack[k]
    BY <2>1, <2>2, PushBack
  <2>4. \A k \in 1..Len(m_stack) : m_stack[k].stmt < next /\ m_stack[k].stmt \in Nat
    <3> TAKE k \in 1..Len(m_stack)
    <3>1. PICK i \in 1..Len(open) :
            open[i].id = m_stack[k].stmt /\ open[i].var = m_stack[k].var
      BY DEF IInv, StackIsOpenLoops
    <3>2. open[i].id < next
      BY DEF IInv, IdsIncrease
    <3> QED
      BY <3>1, <3>2, Fields DEF IInv
  <2>5. \A k \in 1..Len(m_stack') :
          \E i \in 1..Len(open') :
            open'[i].id = m_stack'[k].stmt /\ open'[i].var = m_stack'[k].var
    <3> TAKE k \in 1..Len(m_stack')
    <3>1. CASE k = Len(m_stack) + 1
      BY <1>1, <1>3, <2>1, <2>3, <3>1
    <3>2. CASE k \in 1..Len(m_stack)
      <4>1. PICK i \in 1..Len(open) :
              open[i].id = m_stack[k].stmt /\ open[i].var = m_stack[k].var
        BY <3>2 DEF IInv, StackIsOpenLoops
      <4>2. i \in 1..Len(open') /\ open'[i] = open[i] /\ m_stack'[k] = m_stack[k]
        BY <1>3, <2>3, <3>2
      <4> QED
        BY <4>1, <4>2
    <3> QED
      BY <2>3, <3>1, <3>2
  <2>6. \A i \in 1..Len(open') :
          open'[i].var # NoVar =>
            \E k \in 1..Len(m_stack') :
              open'[i].id = m_stack'[k].stmt /\ open'[i].var = m_stack'[k].var
    <3> TAKE i \in 1..Len(open')
    <3>1. CASE i = Len(open) + 1
      BY <1>1, <1>3, <2>1, <2>3, <3>1
    <3>2. CASE i \in 1..Len(open)
      <4>1. open'[i] = open[i]
        BY <1>3, <3>2
      <4> HAVE open'[i].var # NoVar
      <4>2. PICK k \in 1..Len(m_stack) :
              open[i].id = m_stack[k].stmt /\ open[i].var = m_stack[k].var
        BY <3>2, <4>1 DEF IInv, StackIsOpenLoops
      <4>3. k \in 1..Len(m_stack') /\ m_stack'[k] = m_stack[k]
        BY <2>3
      <4> QED
        BY <4>1, <4>2, <4>3
    <3> QED
      BY <1>3, <3>1, <3>2
  <2>7. \A k, l \in 1..Len(m_stack') : k < l => m_stack'[k].stmt < m_stack'[l].stmt
    <3>1. \A k, l \in 1..Len(m_stack) : k < l => m_stack[k].stmt < m_stack[l].stmt
      BY DEF IInv, StackIsOpenLoops
    <3> SUFFICES ASSUME NEW k \in 1..Len(m_stack'), NEW l \in 1..Len(m_stack'), k < l
                 PROVE  m_stack'[k].stmt < m_stack'[l].stmt
      OBVIOUS
    <3>2. k \in 1..Len(m_stack) /\ m_stack'[k] = m_stack[k]
      BY <2>3
    <3>3. CASE l = Len(m_stack) + 1
      BY <2>1, <2>3, <2>4, <3>2, <3>3
    <3>4. CASE l \in 1..Len(m_stack)
      BY <2>3, <3>1, <3>2, <3>4
    <3> QED
      BY <2>3, <3>3, <3>4
  <2> QED
    BY <1>2, <1>3, <2>3, <2>5, <2>6, <2>7 DEF IInv, TypeOK, StackIsOpenLoops, ReportsAreExact
<1> QED
  BY <1>4, <1>5

LEMMA EnterEraseStep ==
  ASSUME IInv, NEW v \in Vars, EnterErase(v)
  PROVE  IInv'
<1> DEFINE s == [id |-> next, kind |-> "expr", jumps |-> FALSE, var |-> NoVar]
<1>1. s \in Stmt /\ s.id = next /\ s.var = NoVar /\ next \in Nodes
  BY EraseInLoopAssumption DEF EnterErase, Push, IInv, TypeOK, Stmt, Nodes, Kinds
<1>2. Push(s) /\ UNCHANGED m_stack
  BY DEF EnterErase
<1> HIDE DEF s
<1>3. StackIsOpenLoops'
  BY <1>1, <1>2, PushUntracked
<1>4. /\ open' \in Seq(Stmt) /\ m_parents' = open'
      /\ next' \in 1..(MaxNodes + 1)
      /\ IdsIncrease'
  BY <1>1, <1>2, PushStep
<1>5. findForStrmForVar(v) = LoopOver(v)
  BY SearchIsInnermost
<1>6. hasReturnOrBreakChild <=> (open # <<>> /\ open[Len(open)].jumps)
  BY DEF hasReturnOrBreakChild, IInv
<1>7. ReportsAreExact'
  BY <1>5, <1>6 DEF EnterErase, IInv, ReportsAreExact
<1>8. LoopOver(v) \subseteq Nodes
  BY Fields DEF LoopOver, IInv
<1>9. invalid' \subseteq Report
  BY <1>1, <1>8 DEF EnterErase, IInv, TypeOK, Report
<1> QED
  BY <1>2, <1>3, <1>4, <1>7, <1>9 DEF IInv, TypeOK, ReportsAreExact

LEMMA LeaveStep ==
  ASSUME IInv, Leave
  PROVE  IInv'
<1> DEFINE n == Len(open)
           m == Len(m_stack)
<1>1. /\ open \in Seq(Stmt) /\ open # <<>> /\ m_stack \in Seq(ForAndVar)
      /\ open' = SubSeq(open, 1, Len(open) - 1)
      /\ m_parents = open
      /\ UNCHANGED <<next, reports, invalid>>
      /\ m_parents' = SubSeq(m_parents, 1, Len(m_parents) - 1)
  BY DEF IInv, TypeOK, Leave
<1>2. /\ open' \in Seq(Stmt)
      /\ n \in Nat /\ n >= 1
      /\ Len(open') = n - 1
      /\ \A i \in 1..(n - 1) : open'[i] = open[i]
  BY <1>1, PopBack
<1>3. /\ \A i \in 1..n : open[i].id \in Nat
      /\ m \in Nat
      /\ \A k \in 1..m : m_stack[k].stmt \in Nat /\ m_stack[k].var \in Vars
  BY Fields DEF IInv
<1>4. IdsIncrease'
  <2>1. \A i \in 1..(n - 1) : i \in 1..n
    BY <1>2
  <2>2. next' = next
    BY <1>1
  <2>3. /\ \A i \in 1..(n - 1) : open[i].id < next
        /\ \A i, j \in 1..(n - 1) : i < j => open[i].id < open[j].id
    BY <2>1 DEF IInv, IdsIncrease
  <2> QED
    BY <1>2, <2>2, <2>3 DEF IdsIncrease
<1>5. CASE m_stack # <<>> /\ m_stack[m].stmt = open[n].id
  <2>1. m_stack' = SubSeq(m_stack, 1, m - 1)
    BY <1>5 DEF Leave
  <2>2. /\ m_stack' \in Seq(ForAndVar)
        /\ m >= 1
        /\ Len(m_stack') = m - 1
        /\ \A k \in 1..(m - 1) : m_stack'[k] = m_stack[k]
    BY <1>1, <1>5, <2>1, PopBack
  <2>3. ASSUME NEW k \in 1..(m - 1)
        PROVE  \E i \in 1..(n - 1) :
                 open[i].id = m_stack[k].stmt /\ open[i].var = m_stack[k].var
    <3>1. k \in 1..m /\ m_stack[k].stmt < open[n].id
      BY <1>3, <1>5, <2>2 DEF IInv, StackIsOpenLoops
    <3>2. PICK i \in 1..n : open[i].id = m_stack[k].stmt /\ open[i].var = m_stack[k].var
      BY <3>1 DEF IInv, StackIsOpenLoops
    <3>3. i # n
      BY <1>3, <1>2, <3>1, <3>2
    <3> QED
      BY <1>2, <3>2, <3>3
  <2>4. ASSUME NEW i \in 1..(n - 1), open[i].var # NoVar
        PROVE  \E k \in 1..(m - 1) :
                 open[i].id = m_stack[k].stmt /\ open[i].var = m_stack[k].var
    <3>1. i \in 1..n /\ open[i].id < open[n].id
      BY <1>2, <1>3 DEF IInv, IdsIncrease
    <3>2. PICK k \in 1..m : open[i].id = m_stack[k].stmt /\ open[i].var = m_stack[k].var
      BY <2>4, <3>1 DEF IInv, StackIsOpenLoops
    <3>3. k # m
      BY <1>3, <1>5, <3>1, <3>2
    <3> QED
      BY <1>3, <3>2, <3>3
  <2>5. StackIsOpenLoops'
    <3>1. \A k \in 1..(m - 1) : k \in 1..m
      BY <1>3
    <3>2. \A k, l \in 1..(m - 1) : k < l => m_stack[k].stmt < m_stack[l].stmt
      BY <3>1 DEF IInv, StackIsOpenLoops
    <3>3. \A k \in 1..(m - 1) :
            \E i \in 1..(n - 1) :
              open'[i].id = m_stack'[k].stmt /\ open'[i].var = m_stack'[k].var
      <4> TAKE k \in 1..(m - 1)
      <4>1. PICK i \in 1..(n - 1) : open[i].id = m_stack[k].stmt /\ open[i].var = m_stack[k].var
        BY <2>3
      <4>2. open'[i] = open[i] /\ m_stack'[k] = m_stack[k]
        BY <1>2, <2>2
      <4> QED
        BY <4>1, <4>2
    <3>4. \A i \in 1..(n - 1) :
            open'[i].var # NoVar =>
              \E k \in 1..(m - 1) :
                open'[i].id = m_stack'[k].stmt /\ open'[i].var = m_stack'[k].var
      <4> TAKE i \in 1..(n - 1)
      <4> HAVE open'[i].var # NoVar
      <4>1. open'[i] = open[i]
        BY <1>2
      <4>2. PICK k \in 1..(m - 1) : open[i].id = m_stack[k].stmt /\ open[i].var = m_stack[k].var
        BY <2>4, <4>1
      <4>3. m_stack'[k] = m_stack[k]
        BY <2>2
      <4> QED
        BY <4>1, <4>2, <4>3
    <3>5. \A k, l \in 1..(m - 1) : k < l => m_stack'[k].stmt < m_stack'[l].stmt
      BY <2>2, <3>2
    <3>6. Len(open') = n - 1 /\ Len(m_stack') = m - 1
      BY <1>2, <2>2
    <3> HIDE DEF n, m
    <3> QED
      BY <3>3, <3>4, <3>5, <3>6 DEF StackIsOpenLoops
  <2> QED
    BY <1>1, <1>2, <1>4, <2>2, <2>5 DEF IInv, TypeOK, ReportsAreExact
<1>6. CASE ~(m_stack # <<>> /\ m_stack[m].stmt = open[n].id)
  <2>1. m_stack' = m_stack
    BY <1>6 DEF Leave
  <2>2. \A k \in 1..m : m_stack[k].stmt # open[n].id
    <3> SUFFICES ASSUME NEW k \in 1..m, m_stack[k].stmt = open[n].id
                 PROVE  FALSE
      OBVIOUS
    <3>1. k # m /\ m \in 1..m
      BY <1>1, <1>3, <1>6
    <3>2. m_stack[m].stmt > open[n].id
      BY <1>3, <3>1 DEF IInv, StackIsOpenLoops
    <3>3. PICK i \in 1..n : open[i].id = m_stack[m].stmt
      BY <3>1 DEF IInv, StackIsOpenLoops
    <3> QED
      BY <1>2, <1>3, <3>2, <3>3 DEF IInv, IdsIncrease
  <2>3. \A k \in 1..m : \E i \in 1..(n - 1) :
          open[i].id = m_stack[k].stmt /\ open[i].var = m_stack[k].var
    <3> TAKE k \in 1..m
    <3>1. PICK i \in 1..n : open[i].id = m_stack[k].stmt /\ open[i].var = m_stack[k].var
      BY DEF IInv, StackIsOpenLoops
    <3> QED
      BY <1>2, <2>2, <3>1
  <2>4. \A i \in 1..(n - 1) : i \in 1..n
    BY <1>2
  <2>5. StackIsOpenLoops'
    <3>1. \A k \in 1..m :
            \E i \in 1..(n - 1) :
              open'[i].id = m_stack[k].stmt /\ open'[i].var = m_stack[k].var
      BY <1>2, <2>3
    <3>2. \A i \in 1..(n - 1) :
            open'[i].var # NoVar =>
              \E k \in 1..m :
                open'[i].id = m_stack[k].stmt /\ open'[i].var = m_stack[k].var
      <4> TAKE i \in 1..(n - 1)
      <4>1. open'[i] = open[i] /\ i \in 1..n
        BY <1>2, <2>4
      <4> QED
        BY <4>1 DEF IInv, StackIsOpenLoops
    <3>3. \A k, l \in 1..m : k < l => m_stack[k].stmt < m_stack[l].stmt
      BY DEF IInv, StackIsOpenLoops
    <3> QED
      BY <1>2, <2>1, <3>1, <3>2, <3>3 DEF StackIsOpenLoops
  <2> QED
    BY <1>1, <1>2, <1>4, <2>1, <2>5 DEF IInv, TypeOK, ReportsAreExact
<1> QED
  BY <1>5, <1>6

(* The inductive invariant holds in every state. *)
LEMMA Invariance == Spec => []IInv
<1>1. Init => IInv
  BY EraseInLoopAssumption
     DEF Init, IInv, TypeOK, IdsIncrease, StackIsOpenLoops, ReportsAreExact
<1>2. IInv /\ [Next]_vars => IInv'
  <2> SUFFICES ASSUME IInv, [Next]_vars
               PROVE  IInv'
    OBVIOUS
  <2>1. CASE UNCHANGED vars
    BY <2>1 DEF vars, members, IInv, TypeOK, IdsIncrease, StackIsOpenLoops, ReportsAreExact
  <2> QED
    BY <2>1, EnterStmtStep, EnterForStep, EnterEraseStep, LeaveStep DEF Next
<1> QED
  BY <1>1, <1>2, PTL DEF Spec

(* The visitor's state is well typed. *)
THEOREM TypeCorrect == Spec => []TypeOK
  BY Invariance, PTL DEF IInv

(* At every moment m_stack is the sequence of the recognised loops around   *)
(* the statement being visited: the only pop, in dataTraverseStmtPost,      *)
(* removes a loop when and only when that loop is left.                     *)
THEOREM StackIsAlwaysOpenLoops == Spec => []StackIsOpenLoops
  BY Invariance, PTL DEF IInv

(* The calls reported are exactly those the syntax tree calls for, however  *)
(* deep loops and blocks nest, and each blames the innermost loop.          *)
THEOREM ReportsAreAlwaysExact == Spec => []ReportsAreExact
  BY Invariance, PTL DEF IInv

=============================================================================
