----------------------- MODULE FunctionVisitorsProofs -----------------------
(* Theorems about the four visitors that look at functions, for any          *)
(* signatures, methods and callees and any bound on the number of nodes.     *)
EXTENDS FunctionVisitors, VectorLemmas

(* Nodes are numbered in the order they are entered.                        *)
OpenIsOrdered ==
  /\ \A i \in 1..Len(open) : open[i].id < next
  /\ \A i, j \in 1..Len(open) : i < j => open[i].id < open[j].id

-----------------------------------------------------------------------------

(* What entering and leaving a node do to the open nodes.                   *)
LEMMA Pushed ==
  ASSUME NEW K, NEW M \in Nat, NEW k \in K, OpenIsOrdered,
         open \in Seq([id : 1..M, kind : K]), next \in 1..(M + 1), next <= M,
         next' = next + 1, open' = Append(open, [id |-> next, kind |-> k])
  PROVE  /\ open' \in Seq([id : 1..M, kind : K]) /\ next' \in 1..(M + 1) /\ OpenIsOrdered'
         /\ Len(open) \in Nat /\ Len(open') \in Nat
         /\ \A i \in 1..Len(open) : i \in 1..Len(open') /\ open'[i] = open[i] /\ i # Len(open')
         /\ Len(open') \in 1..Len(open') /\ open'[Len(open')] = [id |-> next, kind |-> k]
         /\ open'[Len(open')].id = next /\ open'[Len(open')].kind = k
         /\ \A i \in 1..Len(open') : i \in 1..Len(open) \/ i = Len(open')
<1> DEFINE N == [id : 1..M, kind : K]
<1>1. [id |-> next, kind |-> k] \in N /\ next' \in 1..(M + 1)
  OBVIOUS
<1> HIDE DEF N
<1>2. /\ open' \in Seq(N) /\ Len(open) \in Nat /\ Len(open') = Len(open) + 1
      /\ \A i \in 1..Len(open) : i \in 1..Len(open') /\ open'[i] = open[i] /\ i # Len(open')
      /\ Len(open') \in 1..Len(open') /\ open'[Len(open')] = [id |-> next, kind |-> k]
      /\ \A i \in 1..Len(open') : i \in 1..Len(open) \/ i = Len(open')
  BY <1>1, Grown DEF N
<1>3. \A i \in 1..Len(open) : open[i] \in N
  BY ElementOfSeq DEF N
<1>4. \A i \in 1..Len(open) : open[i].id \in Int
  BY <1>3 DEF N
<1>5. OpenIsOrdered'
  BY <1>2, <1>4 DEF OpenIsOrdered
<1> QED
  BY <1>1, <1>2, <1>5 DEF N

LEMMA Popped ==
  ASSUME NEW K, NEW M \in Nat, OpenIsOrdered,
         open \in Seq([id : 1..M, kind : K]), next \in 1..(M + 1), open # <<>>,
         next' = next, open' = SubSeq(open, 1, Len(open) - 1)
  PROVE  /\ open' \in Seq([id : 1..M, kind : K]) /\ next' \in 1..(M + 1) /\ OpenIsOrdered'
         /\ Len(open) \in Nat /\ Len(open') \in Nat
         /\ \A i \in 1..Len(open') : i \in 1..Len(open) /\ open'[i] = open[i] /\ i # Len(open)
         /\ Len(open) \in 1..Len(open)
         /\ open[Len(open)].id \in 1..M /\ open[Len(open)].kind \in K
         /\ \A i \in 1..Len(open) : i \in 1..Len(open') \/ i = Len(open)
         /\ \A i \in 1..Len(open') : open[i].id < open[Len(open)].id
<1> DEFINE N == [id : 1..M, kind : K]
<1>1. /\ open' \in Seq(N) /\ Len(open) \in Nat /\ Len(open) = Len(open') + 1
      /\ Len(open') \in Nat
      /\ \A i \in 1..Len(open') : i \in 1..Len(open) /\ open'[i] = open[i] /\ i # Len(open)
      /\ Len(open) \in 1..Len(open)
      /\ \A i \in 1..Len(open) : i \in 1..Len(open') \/ i = Len(open)
  <2>1. /\ open' \in Seq(N) /\ Len(open) \in Nat /\ Len(open) >= 1
        /\ Len(open') = Len(open) - 1
        /\ \A i \in 1..(Len(open) - 1) : open'[i] = open[i]
    BY PopBack
  <2> QED
    BY <2>1
<1>5. open[Len(open)] \in N
  BY Back
<1>2. OpenIsOrdered'
  BY <1>1 DEF OpenIsOrdered
<1>3. \A i \in 1..Len(open') : i < Len(open)
  BY <1>1
<1>4. \A i \in 1..Len(open') : open[i].id < open[Len(open)].id
  BY <1>1, <1>3 DEF OpenIsOrdered
<1> QED
  BY <1>1, <1>2, <1>4, <1>5

(* A node that holds no other that matters. *)
LEMMA Stayed ==
  ASSUME NEW K, NEW M \in Nat, OpenIsOrdered,
         open \in Seq([id : 1..M, kind : K]), next \in 1..(M + 1),
         \/ next' = next
         \/ next' = next + 1 /\ next <= M,
         open' = open
  PROVE  open' \in Seq([id : 1..M, kind : K]) /\ next' \in 1..(M + 1) /\ OpenIsOrdered'
<1>1. \A i \in 1..Len(open) : open[i] \in [id : 1..M, kind : K]
  BY ElementOfSeq
<1>2. \A i \in 1..Len(open) : open[i].id \in Int
  BY <1>1
<1> QED
  BY <1>2 DEF OpenIsOrdered

(* What the types say of the open nodes. *)
LEMMA OpenNodes ==
  ASSUME NEW K, NEW M \in Nat, open \in Seq([id : 1..M, kind : K])
  PROVE  /\ Len(open) \in Nat
         /\ \A i \in 1..Len(open) : open[i].id \in 1..M /\ open[i].kind \in K
<1>1. Len(open) \in Nat
  OBVIOUS
<1>2. \A i \in 1..Len(open) : open[i] \in [id : 1..M, kind : K]
  BY ElementOfSeq
<1> QED
  BY <1>1, <1>2

-----------------------------------------------------------------------------
(* NoexceptVisitor.                                                          *)

(* Functions, statements and reports are numbered in the order they are      *)
(* visited, no number stands for two functions, and every open one is known. *)
NEBodiesAreKnown ==
  /\ \A f \in bodies : f.id < next
  /\ \A f, g \in bodies : f.id = g.id => f = g
  /\ \A i \in 1..Len(open) :
       open[i].kind = "function" => \E f \in bodies : f.id = open[i].id
  /\ \A s \in stmts : s.id < next /\ s.function < next
  /\ \A r \in reports : r.stmt < next

(* Whatever is open is inside of an innermost function. *)
NEInnermost(n, i) ==
  open[i].kind = "function" /\ \A j \in (i + 1)..n : open[j].kind # "function"
NEFunctionsAreOutermost ==
  \A n \in 1..Len(open) : \E i \in 1..n : NEInnermost(n, i)

NEInv ==
  /\ NE!TypeOK /\ OpenIsOrdered /\ NEBodiesAreKnown /\ NEFunctionsAreOutermost
  /\ NE!NotesAreThrows /\ NE!FirstThrowIsNoted

(* What the types say. *)
LEMMA NEType ==
  ASSUME NE!TypeOK
  PROVE  /\ MaxNodes \in Nat /\ NE!Nodes = 1..MaxNodes
         /\ open \in Seq([id : 1..MaxNodes, kind : NE!Kinds])
         /\ next \in 1..(MaxNodes + 1) /\ next \in Int
         /\ Len(open) \in Nat
         /\ \A i \in 1..Len(open) : open[i].id \in 1..MaxNodes /\ open[i].kind \in NE!Kinds
         /\ \A f \in bodies : f.id \in Int /\ f.decl \in FunctionDecls
         /\ \A s \in stmts : s.id \in Int /\ s.function \in Int
         /\ \A r \in reports : r.stmt \in Int
<1>1. MaxNodes \in Nat /\ NE!Nodes = 1..MaxNodes
  BY TraversalAssumption DEF NE!Nodes
<1>2. open \in Seq([id : 1..MaxNodes, kind : NE!Kinds]) /\ next \in 1..(MaxNodes + 1)
  BY <1>1 DEF NE!TypeOK, NE!TraversalTypeOK
<1>3. /\ Len(open) \in Nat
      /\ \A i \in 1..Len(open) : open[i].id \in 1..MaxNodes /\ open[i].kind \in NE!Kinds
  BY <1>1, <1>2, OpenNodes
<1>4. /\ reports \subseteq [function : 1..MaxNodes, stmt : 1..MaxNodes]
      /\ bodies \subseteq [id : 1..MaxNodes, decl : FunctionDecls]
  BY <1>1 DEF NE!TypeOK
<1>5. \A s \in stmts : s.id \in 1..MaxNodes /\ s.function \in 1..MaxNodes
  BY <1>1 DEF NE!TypeOK, NE!Stmt
<1> QED
  BY <1>1, <1>2, <1>3, <1>4, <1>5

(* The order of clang::ExceptionSpecificationType. *)
LEMMA NERank ==
  /\ NE!Rank("None") = 1 /\ NE!Rank("DynamicNone") = 2 /\ NE!Rank("Dynamic") = 3
  /\ NE!Rank("MSAny") = 4 /\ NE!Rank("NoThrow") = 5 /\ NE!Rank("BasicNoexcept") = 6
  /\ NE!Rank("DependentNoexcept") = 7 /\ NE!Rank("NoexceptFalse") = 8
  /\ NE!Rank("NoexceptTrue") = 9 /\ NE!Rank("Unevaluated") = 10
  /\ NE!Rank("Uninstantiated") = 11 /\ NE!Rank("Unparsed") = 12
<1> DEFINE E == NE!ExceptionSpecs
<1>1. DOMAIN E = 1..12
  BY DEF NE!ExceptionSpecs
<1>2. /\ E[1] = "None" /\ E[2] = "DynamicNone" /\ E[3] = "Dynamic" /\ E[4] = "MSAny"
      /\ E[5] = "NoThrow" /\ E[6] = "BasicNoexcept" /\ E[7] = "DependentNoexcept"
      /\ E[8] = "NoexceptFalse" /\ E[9] = "NoexceptTrue" /\ E[10] = "Unevaluated"
      /\ E[11] = "Uninstantiated" /\ E[12] = "Unparsed"
  BY DEF NE!ExceptionSpecs
<1> HIDE DEF E
<1>3. \A i, j \in 1..12 : E[i] = E[j] => i = j
  <2> DEFINE T == 1..12
  <2>1. \A i \in 1..12 : \/ i = 1 \/ i = 2 \/ i = 3 \/ i = 4 \/ i = 5 \/ i = 6
                         \/ i = 7 \/ i = 8 \/ i = 9 \/ i = 10 \/ i = 11 \/ i = 12
    OBVIOUS
  <2> QED
    BY <1>2, <2>1
<1>4. \A i \in 1..12 : NE!Rank(E[i]) = i
  <2> SUFFICES ASSUME NEW i \in 1..12 PROVE NE!Rank(E[i]) = i
    OBVIOUS
  <2>1. NE!Rank(E[i]) = CHOOSE j \in 1..12 : E[j] = E[i]
    BY <1>1 DEF NE!Rank, E
  <2> QED
    BY <1>3, <2>1
<1> QED
  BY <1>2, <1>4

(* isNoexcept is what the ranks make of it. *)
LEMMA NEisNoexcept ==
  ASSUME NEW spec \in NE!AnySpec
  PROVE  /\ NE!isNoexcept(spec) <=> spec \notin NE!Throwing
         /\ spec \notin NE!Unknown => NE!Rank(spec) < NE!Rank("Unevaluated")
<1>1. spec \in {"None", "DynamicNone", "Dynamic", "MSAny", "NoThrow", "BasicNoexcept",
                "DependentNoexcept", "NoexceptFalse", "NoexceptTrue", "Unevaluated",
                "Uninstantiated", "Unparsed"}
  BY DEF NE!AnySpec, NE!ExceptionSpecs
<1> QED
  BY <1>1, NERank DEF NE!isNoexcept, NE!Throwing, NE!Unknown

(* What is allowed to throw is not passed over, and what is reported may     *)
(* throw.                                                                    *)
LEMMA NEshouldReport ==
  ASSUME NEW expr \in NE!Expr, NEW callee \in {{}} \cup {{c} : c \in Callees},
         expr \notin NE!Calls => callee = {},
         NEW s, s.expr = expr, s.callee = callee
  PROVE  /\ NE!shouldReport(expr, callee) => NE!MayThrow(s)
         /\ NE!MayThrow(s) /\ (\A c \in callee : ~c.defaulted) => NE!shouldReport(expr, callee)
<1>1. \A c \in callee : c \in Callees
  OBVIOUS
<1>2. \A c \in callee : c.spec \in NE!AnySpec
  BY <1>1, FunctionsAssumption DEF NE!NoexceptAssumption, NE!Callee
<1>3. \A c \in callee : NE!isNoexcept(c.spec) <=> c.spec \notin NE!Throwing
  BY <1>2, NEisNoexcept
<1>4. \A c \in callee : expr \in NE!Calls
  OBVIOUS
<1> QED
  BY <1>3, <1>4 DEF NE!shouldReport, NE!MayThrow

(* The function around the code being visited. *)
LEMMA NECurrent ==
  ASSUME NEInv, open # <<>>
  PROVE  NE!Current \in bodies
<1>1. /\ Len(open) \in 1..Len(open)
  BY NEType DEF NEInv
<1>2. \E i \in 1..Len(open) : NEInnermost(Len(open), i)
  BY <1>1 DEF NEInv, NEFunctionsAreOutermost
<1>3. NE!Around \in 1..Len(open) /\ open[NE!Around].kind = "function"
  BY <1>2 DEF NE!Around, NEInnermost
<1>4. \E f \in bodies : f.id = open[NE!Around].id
  BY <1>3 DEF NEInv, NEBodiesAreKnown
<1> QED
  BY <1>4 DEF NE!Current

(* A node is entered. *)
LEMMA NEEnter ==
  ASSUME NEInv, NEW kind \in NE!Kinds, NE!Enter(kind),
         kind = "function" \/ open # <<>>
  PROVE  /\ NE!TraversalTypeOK(NE!Kinds)' /\ OpenIsOrdered' /\ NEFunctionsAreOutermost'
         /\ next \in NE!Nodes /\ next' = next + 1
         /\ \A i \in 1..Len(open') :
              open'[i].kind = "function" =>
                \/ i \in 1..Len(open) /\ open'[i] = open[i]
                \/ open'[i].id = next /\ kind = "function"
<1> DEFINE After(n, i) ==
             open'[i].kind = "function" /\ \A j \in (i + 1)..n : open'[j].kind # "function"
<1>1. NE!TypeOK /\ OpenIsOrdered /\ NEFunctionsAreOutermost
  BY DEF NEInv
<1>2. next' = next + 1 /\ next <= MaxNodes /\ open' = Append(open, [id |-> next, kind |-> kind])
  BY DEF NE!Enter, NE!Visit
<1>3. /\ open' \in Seq([id : 1..MaxNodes, kind : NE!Kinds]) /\ next' \in 1..(MaxNodes + 1)
      /\ OpenIsOrdered'
      /\ Len(open) \in Nat /\ Len(open') \in Nat
      /\ \A i \in 1..Len(open) : i \in 1..Len(open') /\ open'[i] = open[i] /\ i # Len(open')
      /\ Len(open') \in 1..Len(open')
      /\ open'[Len(open')].id = next /\ open'[Len(open')].kind = kind
      /\ \A i \in 1..Len(open') : i \in 1..Len(open) \/ i = Len(open')
  BY <1>1, <1>2, NEType, Pushed
<1>4. Len(open') = Len(open) + 1
  BY <1>1, <1>2, NEType
<1>5. ASSUME NEW n \in 1..Len(open)
      PROVE  \E i \in 1..n : After(n, i)
  <2>1. PICK i \in 1..n : NEInnermost(n, i)
    BY <1>1 DEF NEFunctionsAreOutermost
  <2>2. i \in 1..Len(open) /\ \A j \in (i + 1)..n : j \in 1..Len(open)
    BY <1>3
  <2>3. open'[i] = open[i] /\ \A j \in (i + 1)..n : open'[j] = open[j]
    BY <1>3, <2>2
  <2> QED
    BY <2>1, <2>3 DEF NEInnermost
<1>6. \E i \in 1..Len(open') : After(Len(open'), i)
  <2>1. CASE kind = "function"
    <3>1. \A j \in (Len(open') + 1)..Len(open') : FALSE
      BY <1>3
    <3> QED
      BY <1>3, <2>1, <3>1
  <2>2. CASE kind # "function" /\ open # <<>>
    <3>1. Len(open) \in 1..Len(open)
      BY <1>1, <2>2, NEType
    <3>2. PICK i \in 1..Len(open) : After(Len(open), i)
      BY <1>5, <3>1
    <3>3. \A j \in (i + 1)..Len(open') : j \in (i + 1)..Len(open) \/ j = Len(open')
      BY <1>3, <1>4
    <3>4. i \in 1..Len(open')
      BY <1>3
    <3>5. /\ open'[i].kind = "function"
          /\ \A j \in (i + 1)..Len(open) : open'[j].kind # "function"
      BY <3>2
    <3>6. After(Len(open'), i)
      BY <1>3, <2>2, <3>3, <3>5
    <3> QED
      BY <3>4, <3>6
  <2> QED
    BY <2>1, <2>2
<1>7. NEFunctionsAreOutermost'
  <2> SUFFICES ASSUME NEW n \in 1..Len(open') PROVE \E i \in 1..n : After(n, i)
    BY DEF NEFunctionsAreOutermost, NEInnermost
  <2>1. n \in 1..Len(open) \/ n = Len(open')
    BY <1>3
  <2> QED
    BY <1>5, <1>6, <2>1
<1>8. next \in NE!Nodes
  BY <1>1, <1>2, NEType
<1>9. NE!TraversalTypeOK(NE!Kinds)'
  BY <1>1, <1>3, NEType DEF NE!TraversalTypeOK
<1> QED
  BY <1>2, <1>3, <1>7, <1>8, <1>9

(* An innermost node is left, or nothing happens. *)
LEMMA NELeave ==
  ASSUME NEInv, NE!Leave
  PROVE  NEInv'
<1>1. /\ open # <<>> /\ open' = SubSeq(open, 1, Len(open) - 1) /\ next' = next
      /\ UNCHANGED <<reports, crashed, bodies, stmts>>
  BY DEF NE!Leave, NE!LeaveStmt, NE!Pop
<1>2. NE!TypeOK /\ OpenIsOrdered /\ NEFunctionsAreOutermost /\ NEBodiesAreKnown
  BY DEF NEInv
<1>3. /\ open' \in Seq([id : 1..MaxNodes, kind : NE!Kinds]) /\ next' \in 1..(MaxNodes + 1)
      /\ OpenIsOrdered' /\ Len(open) \in Nat
      /\ \A i \in 1..Len(open') : i \in 1..Len(open) /\ open'[i] = open[i]
  BY <1>1, <1>2, NEType, Popped
<1>4. NE!TypeOK'
  BY <1>1, <1>2, <1>3, NEType DEF NE!TypeOK, NE!TraversalTypeOK
<1>5. NEBodiesAreKnown'
  BY <1>1, <1>2, <1>3 DEF NEBodiesAreKnown
<1>6. NEFunctionsAreOutermost'
  <2> SUFFICES ASSUME NEW n \in 1..Len(open') PROVE \E i \in 1..n : NEInnermost(n, i)'
    BY DEF NEFunctionsAreOutermost
  <2>1. n \in 1..Len(open)
    BY <1>3
  <2>2. PICK i \in 1..n : NEInnermost(n, i)
    BY <1>2, <2>1 DEF NEFunctionsAreOutermost
  <2>3. Len(open') \in Nat
    BY <1>3
  <2>4. i \in 1..Len(open') /\ \A j \in (i + 1)..n : j \in 1..Len(open')
    BY <2>3
  <2> QED
    BY <1>3, <2>2, <2>4 DEF NEInnermost
<1>7. NE!NotesAreThrows' /\ NE!FirstThrowIsNoted'
  BY <1>1 DEF NEInv, NE!NotesAreThrows, NE!FirstThrowIsNoted, NE!MayThrow
<1> QED
  BY <1>3, <1>4, <1>5, <1>6, <1>7 DEF NEInv

LEMMA NEEnterSkipped ==
  ASSUME NEInv, NEW kind \in NE!Skipped, NE!EnterSkipped(kind)
  PROVE  NEInv'
<1>1. open # <<>> /\ NE!Enter(kind) /\ UNCHANGED <<reports, crashed, bodies, stmts>>
  BY DEF NE!EnterSkipped
<1>2. kind \in NE!Kinds /\ kind # "function"
  BY DEF NE!Kinds, NE!Skipped
<1>3. /\ NE!TraversalTypeOK(NE!Kinds)' /\ OpenIsOrdered' /\ NEFunctionsAreOutermost'
      /\ next \in NE!Nodes /\ next' = next + 1
      /\ \A i \in 1..Len(open') :
           open'[i].kind = "function" => i \in 1..Len(open) /\ open'[i] = open[i]
  BY <1>1, <1>2, NEEnter
<1>4. NE!TypeOK /\ NEBodiesAreKnown /\ next \in Int
  BY NEType DEF NEInv
<1>5. NE!TypeOK'
  BY <1>1, <1>3, <1>4 DEF NE!TypeOK
<1>6. NEBodiesAreKnown'
  <2>1. \A i \in 1..Len(open') :
          open'[i].kind = "function" => \E f \in bodies : f.id = open'[i].id
    BY <1>3, <1>4 DEF NEBodiesAreKnown
  <2>2. /\ \A f \in bodies : f.id < next'
        /\ \A s \in stmts : s.id < next' /\ s.function < next'
        /\ \A r \in reports : r.stmt < next'
    BY <1>3, <1>4, NEType DEF NEBodiesAreKnown
  <2> QED
    BY <1>1, <1>4, <2>1, <2>2 DEF NEBodiesAreKnown
<1>7. NE!NotesAreThrows' /\ NE!FirstThrowIsNoted'
  BY <1>1 DEF NEInv, NE!NotesAreThrows, NE!FirstThrowIsNoted, NE!MayThrow
<1> QED
  BY <1>3, <1>5, <1>6, <1>7 DEF NEInv

LEMMA NEEnterFunction ==
  ASSUME NEInv, NEW d \in FunctionDecls, NE!EnterFunction(d)
  PROVE  NEInv'
<1> DEFINE f == [id |-> next, decl |-> d]
<1>1. NE!Enter("function") /\ bodies' = bodies \cup {f}
      /\ UNCHANGED <<reports, crashed, stmts>>
  BY DEF NE!EnterFunction
<1>2. "function" \in NE!Kinds
  BY DEF NE!Kinds
<1>3. /\ NE!TraversalTypeOK(NE!Kinds)' /\ OpenIsOrdered' /\ NEFunctionsAreOutermost'
      /\ next \in NE!Nodes /\ next' = next + 1
      /\ \A i \in 1..Len(open') :
           open'[i].kind = "function" =>
             \/ i \in 1..Len(open) /\ open'[i] = open[i]
             \/ open'[i].id = next
  BY <1>1, <1>2, NEEnter
<1>4. NE!TypeOK /\ NEBodiesAreKnown /\ next \in Int
  BY NEType DEF NEInv
<1>5. f.id = next /\ f.decl = d /\ f \in [id : NE!Nodes, decl : FunctionDecls]
  BY <1>3
<1> HIDE DEF f
<1>6. NE!TypeOK'
  BY <1>1, <1>3, <1>4, <1>5 DEF NE!TypeOK
<1>7. NEBodiesAreKnown'
  <2>1. \A i \in 1..Len(open') :
          open'[i].kind = "function" => \E g \in bodies' : g.id = open'[i].id
    BY <1>1, <1>3, <1>4, <1>5 DEF NEBodiesAreKnown
  <2>2. /\ \A g \in bodies : g.id < next /\ g.id < next' /\ g.id # next
        /\ \A s \in stmts : s.id < next' /\ s.function < next'
        /\ \A r \in reports : r.stmt < next'
    BY <1>3, <1>4, NEType DEF NEBodiesAreKnown
  <2>3. \A g, h \in bodies' : g.id = h.id => g = h
    BY <1>1, <1>4, <1>5, <2>2 DEF NEBodiesAreKnown
  <2>4. \A g \in bodies' : g.id < next'
    BY <1>1, <1>3, <1>4, <1>5, <2>2
  <2> QED
    BY <1>1, <2>1, <2>2, <2>3, <2>4 DEF NEBodiesAreKnown
<1>8. NE!NotesAreThrows'
  BY <1>1 DEF NEInv, NE!NotesAreThrows, NE!MayThrow
<1>9. NE!FirstThrowIsNoted'
  <2>1. \A s \in stmts : s.function # f.id
    BY <1>4, <1>5, NEType DEF NEBodiesAreKnown
  <2> QED
    BY <1>1, <2>1 DEF NEInv, NE!FirstThrowIsNoted, NE!MayThrow
<1> QED
  BY <1>3, <1>6, <1>7, <1>8, <1>9 DEF NEInv

LEMMA NEEnterStmt ==
  ASSUME NEInv, NEW expr \in NE!Expr, NEW callee \in {{}} \cup {{c} : c \in Callees},
         expr \notin NE!Calls => callee = {}, NE!EnterStmt(expr, callee)
  PROVE  NEInv'
<1> DEFINE cur == NE!Current
           s == [id |-> next, expr |-> expr, callee |-> callee,
                 function |-> cur.id, skipped |-> NE!InSkipped]
           r == [function |-> cur.id, stmt |-> next]
           due == NE!IsReached /\ NE!shouldReport(expr, callee)
<1>1. /\ open # <<>> /\ NE!Enter("statement") /\ stmts' = stmts \cup {s}
      /\ bodies' = bodies
      /\ crashed' = (NE!IsReached /\ expr = "unresolved")
      /\ reports' = reports \cup IF due THEN {r} ELSE {}
  BY DEF NE!EnterStmt
<1>2. "statement" \in NE!Kinds /\ "statement" # "function"
  BY DEF NE!Kinds
<1>3. /\ NE!TraversalTypeOK(NE!Kinds)' /\ OpenIsOrdered' /\ NEFunctionsAreOutermost'
      /\ next \in NE!Nodes /\ next' = next + 1
      /\ \A i \in 1..Len(open') :
           open'[i].kind = "function" => i \in 1..Len(open) /\ open'[i] = open[i]
  BY <1>1, <1>2, NEEnter
<1>4. NE!TypeOK /\ NEBodiesAreKnown /\ next \in Int
  BY NEType DEF NEInv
<1>5. cur \in bodies
  BY <1>1, NECurrent
<1>6. cur.id \in NE!Nodes /\ cur.id < next /\ cur.decl \in FunctionDecls
  BY <1>4, <1>5 DEF NE!TypeOK, NEBodiesAreKnown
<1>7. cur.decl.spec \in NE!AnySpec
  BY <1>6, FunctionsAssumption DEF NE!NoexceptAssumption, NE!FunctionDecl
<1>8. /\ NE!isNoexcept(cur.decl.spec) <=> cur.decl.spec \notin NE!Throwing
      /\ cur.decl.spec \notin NE!Unknown => NE!Rank(cur.decl.spec) < NE!Rank("Unevaluated")
  BY <1>7, NEisNoexcept
<1>9. /\ s.id = next /\ s.expr = expr /\ s.callee = callee /\ s.function = cur.id
      /\ s.skipped = NE!InSkipped
  OBVIOUS
<1>10. r.function = cur.id /\ r.stmt = next
  OBVIOUS
<1>11. NE!InSkipped \in BOOLEAN
  BY DEF NE!InSkipped
<1>12. s \in NE!Stmt
  BY <1>3, <1>6, <1>11 DEF NE!Stmt
<1>13. r \in [function : NE!Nodes, stmt : NE!Nodes]
  BY <1>3, <1>6
<1>14. due <=> NE!IsReached /\ NE!shouldReport(expr, callee)
  OBVIOUS
<1>15. NE!IsReached <=> /\ NE!IsSearched(cur.decl) /\ ~NE!InSkipped
                        /\ \A q \in reports : q.function # cur.id
  BY DEF NE!IsReached
<1>16. /\ NE!shouldReport(expr, callee) => NE!MayThrow(s)
       /\ NE!MayThrow(s) /\ (\A c \in callee : ~c.defaulted) => NE!shouldReport(expr, callee)
  BY <1>9, NEshouldReport
<1> HIDE DEF cur, s, r, due
<1>17. NE!TypeOK'
  <2>1. crashed' \in BOOLEAN
    BY <1>1 DEF NE!IsReached
  <2>2. reports' \subseteq [function : NE!Nodes, stmt : NE!Nodes]
    BY <1>1, <1>4, <1>13 DEF NE!TypeOK
  <2>3. stmts' \subseteq NE!Stmt
    BY <1>1, <1>4, <1>12 DEF NE!TypeOK
  <2>4. bodies' \subseteq [id : NE!Nodes, decl : FunctionDecls]
    BY <1>1, <1>4 DEF NE!TypeOK
  <2> QED
    BY <1>3, <2>1, <2>2, <2>3, <2>4 DEF NE!TypeOK
<1>18. NEBodiesAreKnown'
  <2>1. \A i \in 1..Len(open') :
          open'[i].kind = "function" => \E f \in bodies' : f.id = open'[i].id
    BY <1>1, <1>3, <1>4 DEF NEBodiesAreKnown
  <2>2. /\ \A f \in bodies : f.id < next'
        /\ \A t \in stmts : t.id < next' /\ t.function < next'
        /\ \A q \in reports : q.stmt < next'
    BY <1>3, <1>4, NEType DEF NEBodiesAreKnown
  <2>3. cur.id < next' /\ next < next'
    BY <1>3, <1>4, <1>5, <1>6, NEType
  <2>4. \A t \in stmts' : t.id < next' /\ t.function < next'
    BY <1>1, <1>9, <2>2, <2>3
  <2>5. \A q \in reports' : q.stmt < next'
    BY <1>1, <1>10, <2>2, <2>3
  <2> QED
    BY <1>1, <1>4, <2>1, <2>2, <2>4, <2>5 DEF NEBodiesAreKnown
<1>19. NE!NotesAreThrows'
  <2>1. NE!NotesAreThrows
    BY DEF NEInv
  <2>2. ASSUME NEW q \in reports
        PROVE  /\ \E f \in bodies' : f.id = q.function /\ f.decl.spec \notin NE!Throwing
               /\ \E t \in stmts' :
                    t.id = q.stmt /\ t.function = q.function /\ ~t.skipped /\ NE!MayThrow(t)
               /\ \A p \in reports : p.function = q.function => p = q
    BY <1>1, <2>1 DEF NE!NotesAreThrows
  <2>3. CASE ~due
    <3>1. reports' = reports
      BY <1>1, <2>3
    <3> QED
      BY <2>2, <3>1 DEF NE!NotesAreThrows, NE!MayThrow
  <2>4. CASE due
    <3>1. reports' = reports \cup {r}
      BY <1>1, <2>4
    <3>2. /\ ~NE!InSkipped /\ NE!MayThrow(s) /\ cur.decl.spec \notin NE!Throwing
          /\ \A q \in reports : q.function # cur.id
      BY <1>8, <1>14, <1>15, <1>16, <2>4 DEF NE!IsSearched
    <3>3. \E f \in bodies' : f.id = r.function /\ f.decl.spec \notin NE!Throwing
      BY <1>1, <1>5, <1>10, <3>2
    <3>4. \E t \in stmts' :
            t.id = r.stmt /\ t.function = r.function /\ ~t.skipped /\ NE!MayThrow(t)
      BY <1>1, <1>9, <1>10, <3>2
    <3>5. \A p, q \in reports' : p.function = q.function => p = q
      BY <1>10, <2>2, <3>1, <3>2
    <3> QED
      BY <2>2, <3>1, <3>3, <3>4, <3>5 DEF NE!NotesAreThrows, NE!MayThrow
  <2> QED
    BY <2>3, <2>4
<1>20. NE!FirstThrowIsNoted'
  <2> SUFFICES ASSUME NEW f \in bodies, NEW t \in stmts',
                      ~f.decl.hidden, f.decl.spec \notin NE!Throwing,
                      f.decl.instance => f.decl.spec \notin NE!Unknown,
                      t.function = f.id, ~t.skipped, NE!MayThrow(t),
                      \A c \in t.callee : ~c.defaulted
               PROVE  \E q \in reports' : q.function = f.id /\ q.stmt <= t.id
    BY <1>1 DEF NE!FirstThrowIsNoted, NE!MayThrow
  <2>1. CASE t \in stmts
    <3>1. \E q \in reports : q.function = f.id /\ q.stmt <= t.id
      BY <2>1 DEF NEInv, NE!FirstThrowIsNoted
    <3> QED
      BY <1>1, <3>1
  <2>2. CASE t = s
    <3>1. f = cur
      BY <1>4, <1>5, <1>9, <2>2 DEF NEBodiesAreKnown
    <3>2. NE!shouldReport(expr, callee) /\ ~NE!InSkipped
      BY <1>9, <1>16, <2>2
    <3>3. NE!IsSearched(cur.decl)
      <4>1. f.decl.instance => f.decl.spec # "DependentNoexcept"
        BY DEF NE!Unknown
      <4> QED
        BY <1>8, <3>1, <4>1 DEF NE!IsSearched
    <3>4. CASE \A q \in reports : q.function # cur.id
      <4>1. r \in reports'
        BY <1>1, <1>14, <1>15, <3>2, <3>3, <3>4
      <4> QED
        BY <1>4, <1>9, <1>10, <2>2, <3>1, <4>1
    <3>5. CASE \E q \in reports : q.function = cur.id
      <4>1. PICK q \in reports : q.function = cur.id
        BY <3>5
      <4>2. q.stmt < next /\ q.stmt \in Int
        BY <1>4, NEType DEF NEBodiesAreKnown
      <4> QED
        BY <1>1, <1>4, <1>9, <2>2, <3>1, <4>1, <4>2
    <3> QED
      BY <3>4, <3>5
  <2> QED
    BY <1>1, <2>1, <2>2
<1> QED
  BY <1>3, <1>17, <1>18, <1>19, <1>20 DEF NEInv

LEMMA NEInit ==
  ASSUME NE!Init
  PROVE  NEInv
<1>1. /\ open = <<>> /\ next = 1 /\ reports = {} /\ crashed = FALSE /\ bodies = {}
      /\ stmts = {}
  BY DEF NE!Init, NE!TraversalInit
<1>2. Len(open) = 0 /\ 1 \in 1..(MaxNodes + 1) /\ open \in Seq([id : NE!Nodes, kind : NE!Kinds])
  BY <1>1, TraversalAssumption
<1>3. NE!TypeOK
  BY <1>1, <1>2 DEF NE!TypeOK, NE!TraversalTypeOK
<1>4. OpenIsOrdered /\ NEFunctionsAreOutermost
  BY <1>2 DEF OpenIsOrdered, NEFunctionsAreOutermost
<1>5. NEBodiesAreKnown
  BY <1>1, <1>2 DEF NEBodiesAreKnown
<1>6. NE!NotesAreThrows /\ NE!FirstThrowIsNoted
  BY <1>1 DEF NE!NotesAreThrows, NE!FirstThrowIsNoted
<1> QED
  BY <1>3, <1>4, <1>5, <1>6 DEF NEInv

LEMMA NENext ==
  ASSUME NEInv, NE!Next
  PROVE  NEInv'
BY NEEnterFunction, NEEnterStmt, NEEnterSkipped, NELeave DEF NE!Next

LEMMA NEStutter ==
  ASSUME NEInv, UNCHANGED NE!vars
  PROVE  NEInv'
<1>1. UNCHANGED <<open, next, reports, crashed, bodies, stmts>>
  BY DEF NE!vars
<1>2. NE!TypeOK' /\ OpenIsOrdered'
  BY <1>1 DEF NEInv, NE!TypeOK, NE!TraversalTypeOK, OpenIsOrdered
<1>3. NEBodiesAreKnown' /\ NEFunctionsAreOutermost'
  BY <1>1 DEF NEInv, NEBodiesAreKnown, NEFunctionsAreOutermost, NEInnermost
<1>4. NE!NotesAreThrows' /\ NE!FirstThrowIsNoted'
  BY <1>1 DEF NEInv, NE!NotesAreThrows, NE!FirstThrowIsNoted, NE!MayThrow
<1> QED
  BY <1>2, <1>3, <1>4 DEF NEInv

-----------------------------------------------------------------------------
(* RemoveCStrVisitor.                                                        *)

(* Calls and functions are numbered in the order they are visited, no number *)
(* stands for two functions, and every open function is known.               *)
RCNumbersAreFresh ==
  /\ \A f \in functions : f.id < next
  /\ \A f, g \in functions : f.id = g.id => f = g
  /\ \A i \in 1..Len(open) :
       open[i].kind = "function" => \E f \in functions : f.id = open[i].id
  /\ \A c \in calls : c.id < next
  /\ \A r \in reports : r.call < next

(* The member holds the function that was visited last. *)
RCLastIsKept ==
  /\ m_last_visited_function_decl.id = latest
  /\ latest < next
  /\ \A f \in functions : f.id = latest => m_last_visited_function_decl = f
  /\ RC!NoFunction \in functions

RCInv ==
  /\ RC!TypeOK /\ OpenIsOrdered /\ RCNumbersAreFresh /\ RCLastIsKept
  /\ RC!SuggestionsEnd /\ RC!SilentCallsAreInOverloads

(* What the types say. *)
LEMMA RCType ==
  ASSUME RC!TypeOK
  PROVE  /\ MaxNodes \in Nat /\ RC!Nodes = 1..MaxNodes
         /\ open \in Seq([id : 1..MaxNodes, kind : RC!Kinds])
         /\ next \in 1..(MaxNodes + 1) /\ next \in Int
         /\ Len(open) \in Nat
         /\ \A i \in 1..Len(open) : open[i].id \in 1..MaxNodes /\ open[i].kind \in RC!Kinds
         /\ \A f \in functions : f.id \in Int
         /\ \A c \in calls : c.id \in Int
         /\ \A r \in reports : r.call \in Int
         /\ latest \in Int
<1>1. MaxNodes \in Nat /\ RC!Nodes = 1..MaxNodes
  BY TraversalAssumption DEF RC!Nodes
<1>2. open \in Seq([id : 1..MaxNodes, kind : RC!Kinds]) /\ next \in 1..(MaxNodes + 1)
  BY <1>1 DEF RC!TypeOK, RC!TraversalTypeOK
<1>3. /\ Len(open) \in Nat
      /\ \A i \in 1..Len(open) : open[i].id \in 1..MaxNodes /\ open[i].kind \in RC!Kinds
  BY <1>1, <1>2, OpenNodes
<1>4. \A f \in functions : f.id \in (1..MaxNodes) \cup {0}
  BY <1>1 DEF RC!TypeOK, RC!FunctionDecl, RC!Null
<1>5. \A c \in calls : c.id \in 1..MaxNodes
  BY <1>1 DEF RC!TypeOK, RC!Call
<1>6. \A r \in reports : r.call \in 1..MaxNodes
  BY <1>1 DEF RC!TypeOK
<1>7. latest \in (1..MaxNodes) \cup {0}
  BY <1>1 DEF RC!TypeOK, RC!Null
<1> QED
  BY <1>1, <1>2, <1>3, <1>4, <1>5, <1>6, <1>7

(* A function or a lambda is entered, or a node without children is visited. *)
LEMMA RCEnter ==
  ASSUME RCInv, NEW kind \in RC!Kinds, RC!Enter(kind)
  PROVE  /\ RC!TraversalTypeOK(RC!Kinds)' /\ OpenIsOrdered'
         /\ next \in RC!Nodes /\ next' = next + 1
         /\ \A i \in 1..Len(open') :
              open'[i].kind = "function" =>
                \/ i \in 1..Len(open) /\ open'[i] = open[i]
                \/ open'[i].id = next /\ kind = "function"
<1>1. RC!TypeOK /\ OpenIsOrdered
  BY DEF RCInv
<1>2. next' = next + 1 /\ next <= MaxNodes /\ open' = Append(open, [id |-> next, kind |-> kind])
  BY DEF RC!Enter, RC!Visit
<1>3. /\ open' \in Seq([id : 1..MaxNodes, kind : RC!Kinds]) /\ next' \in 1..(MaxNodes + 1)
      /\ OpenIsOrdered'
      /\ \A i \in 1..Len(open) : i \in 1..Len(open') /\ open'[i] = open[i] /\ i # Len(open')
      /\ open'[Len(open')].id = next /\ open'[Len(open')].kind = kind
      /\ \A i \in 1..Len(open') : i \in 1..Len(open) \/ i = Len(open')
  BY <1>1, <1>2, RCType, Pushed
<1>4. next \in RC!Nodes
  BY <1>1, <1>2, RCType
<1>5. RC!TraversalTypeOK(RC!Kinds)'
  BY <1>1, <1>3, RCType DEF RC!TraversalTypeOK
<1> QED
  BY <1>2, <1>3, <1>4, <1>5

LEMMA RCVisitLeaf ==
  ASSUME RCInv, RC!VisitLeaf
  PROVE  /\ RC!TraversalTypeOK(RC!Kinds)' /\ OpenIsOrdered'
         /\ next \in RC!Nodes /\ next' = next + 1 /\ open' = open
<1>1. RC!TypeOK /\ OpenIsOrdered
  BY DEF RCInv
<1>2. next' = next + 1 /\ next <= MaxNodes /\ open' = open
  BY DEF RC!VisitLeaf, RC!Visit
<1>3. open' \in Seq([id : 1..MaxNodes, kind : RC!Kinds]) /\ next' \in 1..(MaxNodes + 1) /\ OpenIsOrdered'
  BY <1>1, <1>2, RCType, Stayed
<1>4. next \in RC!Nodes
  BY <1>1, <1>2, RCType
<1> QED
  BY <1>1, <1>2, <1>3, <1>4, RCType DEF RC!TraversalTypeOK

(* The function around the code being visited is a known one. *)
LEMMA RCInside ==
  ASSUME RCInv
  PROVE  RC!Inside \in functions
<1>1. CASE \E i \in 1..Len(open) : RC!IsAround(i)
  <2>1. PICK i \in 1..Len(open) : RC!IsAround(i)
    BY <1>1
  <2>2. \E f \in functions : \E j \in 1..Len(open) : RC!IsAround(j) /\ f.id = open[j].id
    BY <2>1 DEF RCInv, RCNumbersAreFresh, RC!IsAround
  <2> QED
    BY <1>1, <2>2 DEF RC!Inside
<1>2. CASE ~\E i \in 1..Len(open) : RC!IsAround(i)
  BY <1>2 DEF RC!Inside, RCInv, RCLastIsKept
<1> QED
  BY <1>1, <1>2

(* What nodes that do nothing to the calls keep. *)
LEMMA RCQuiet ==
  ASSUME RCInv, RC!TypeOK', OpenIsOrdered', RCNumbersAreFresh', RCLastIsKept',
         UNCHANGED calls,
         \A c \in calls : RC!IsReported(c)' <=> RC!IsReported(c)
  PROVE  RCInv'
BY DEF RCInv, RC!SuggestionsEnd, RC!SilentCallsAreInOverloads

(* The functions visited, with a body or not, remembered or skipped. *)
LEMMA RCEnterFunction ==
  ASSUME RCInv, NEW method \in {{}} \cup {{m} : m \in Methods},
         RC!EnterFunction(method) \/ RC!VisitDeclaration(method) \/ RC!EnterHidden(method)
  PROVE  RCInv'
<1> DEFINE f == [id |-> next, method |-> method]
<1>1. /\ \/ RC!Enter("function") /\ functions' = functions \cup {f}
         \/ RC!VisitLeaf /\ functions' = functions
      /\ \/ m_last_visited_function_decl' = f /\ latest' = next
         \/ UNCHANGED <<m_last_visited_function_decl, latest>> /\ functions' = functions \cup {f}
      /\ UNCHANGED <<reports, calls>>
  BY DEF RC!EnterFunction, RC!VisitDeclaration, RC!EnterHidden
<1>2. "function" \in RC!Kinds
  BY DEF RC!Kinds
<1>3. /\ RC!TraversalTypeOK(RC!Kinds)' /\ OpenIsOrdered'
      /\ next \in RC!Nodes /\ next' = next + 1
      /\ \A i \in 1..Len(open') :
           open'[i].kind = "function" =>
             \/ i \in 1..Len(open) /\ open'[i] = open[i]
             \/ open'[i].id = next /\ functions' = functions \cup {f}
  BY <1>1, <1>2, RCEnter, RCVisitLeaf
<1>4. RC!TypeOK /\ RCNumbersAreFresh /\ RCLastIsKept /\ next \in Int
  BY RCType DEF RCInv
<1>5. f \in RC!FunctionDecl /\ f.id = next
  BY <1>3 DEF RC!FunctionDecl
<1> HIDE DEF f
<1>6. RC!TypeOK'
  <2>1. functions' \subseteq functions \cup {f}
    BY <1>1
  <2>2. m_last_visited_function_decl' \in RC!FunctionDecl
    BY <1>1, <1>4, <1>5 DEF RC!TypeOK
  <2>3. latest' \in RC!Nodes \cup {RC!Null}
    BY <1>1, <1>3, <1>4 DEF RC!TypeOK
  <2> QED
    BY <1>1, <1>3, <1>4, <1>5, <2>1, <2>2, <2>3 DEF RC!TypeOK
<1>7. /\ \A g \in functions : g.id < next /\ g.id < next' /\ g.id # next
      /\ \A c \in calls : c.id < next'
      /\ \A r \in reports : r.call < next'
      /\ latest < next /\ latest < next'
  BY <1>3, <1>4, RCType DEF RCNumbersAreFresh, RCLastIsKept
<1>8. \A g \in functions' : g \in functions \/ g = f
  BY <1>1
<1>9. functions \subseteq functions'
  BY <1>1
<1>10. RCNumbersAreFresh'
  <2>1. \A g \in functions' : g.id < next'
    BY <1>3, <1>4, <1>5, <1>7, <1>8
  <2>2. \A g, h \in functions' : g.id = h.id => g = h
    BY <1>4, <1>5, <1>7, <1>8 DEF RCNumbersAreFresh
  <2>3. \A i \in 1..Len(open') :
          open'[i].kind = "function" => \E g \in functions' : g.id = open'[i].id
    <3> SUFFICES ASSUME NEW i \in 1..Len(open'), open'[i].kind = "function"
                 PROVE  \E g \in functions' : g.id = open'[i].id
      OBVIOUS
    <3>1. CASE i \in 1..Len(open) /\ open'[i] = open[i]
      BY <1>4, <1>9, <3>1 DEF RCNumbersAreFresh
    <3>2. CASE open'[i].id = next /\ functions' = functions \cup {f}
      BY <1>5, <3>2
    <3> QED
      BY <1>3, <3>1, <3>2
  <2> QED
    BY <1>1, <1>7, <2>1, <2>2, <2>3 DEF RCNumbersAreFresh
<1>11. RCLastIsKept'
  <2>1. CASE m_last_visited_function_decl' = f /\ latest' = next
    BY <1>3, <1>4, <1>5, <1>7, <1>8, <1>9, <2>1 DEF RCLastIsKept
  <2>2. CASE UNCHANGED <<m_last_visited_function_decl, latest>> /\ functions' = functions \cup {f}
    <3>1. f.id # latest'
      BY <1>4, <1>5, <1>7, <2>2
    <3> QED
      BY <1>4, <1>7, <1>8, <1>9, <2>2, <3>1 DEF RCLastIsKept
  <2> QED
    BY <1>1, <2>1, <2>2
<1>12. \A c \in calls : RC!IsReported(c)' <=> RC!IsReported(c)
  BY <1>1 DEF RC!IsReported
<1> QED
  BY <1>1, <1>3, <1>6, <1>10, <1>11, <1>12, RCQuiet

LEMMA RCEnterLambda ==
  ASSUME RCInv, RC!EnterLambda
  PROVE  RCInv'
<1>1. /\ RC!Enter("lambda")
      /\ UNCHANGED <<m_last_visited_function_decl, reports, functions, latest, calls>>
  BY DEF RC!EnterLambda
<1>2. "lambda" \in RC!Kinds /\ "lambda" # "function"
  BY DEF RC!Kinds
<1>3. /\ RC!TraversalTypeOK(RC!Kinds)' /\ OpenIsOrdered'
      /\ next \in RC!Nodes /\ next' = next + 1
      /\ \A i \in 1..Len(open') :
           open'[i].kind = "function" => i \in 1..Len(open) /\ open'[i] = open[i]
  BY <1>1, <1>2, RCEnter
<1>4. RC!TypeOK /\ RCNumbersAreFresh /\ RCLastIsKept /\ next \in Int
  BY RCType DEF RCInv
<1>5. RC!TypeOK'
  BY <1>1, <1>3, <1>4 DEF RC!TypeOK
<1>6. /\ \A g \in functions : g.id < next'
      /\ \A c \in calls : c.id < next'
      /\ \A r \in reports : r.call < next'
      /\ latest < next'
  BY <1>3, <1>4, RCType DEF RCNumbersAreFresh, RCLastIsKept
<1>7. RCNumbersAreFresh' /\ RCLastIsKept'
  BY <1>1, <1>3, <1>4, <1>6 DEF RCNumbersAreFresh, RCLastIsKept
<1>8. \A c \in calls : RC!IsReported(c)' <=> RC!IsReported(c)
  BY <1>1 DEF RC!IsReported
<1> QED
  BY <1>1, <1>3, <1>5, <1>7, <1>8, RCQuiet

LEMMA RCVisitImplicitCast ==
  ASSUME RCInv, RC!VisitImplicitCast
  PROVE  RCInv'
<1> DEFINE r == RC!Note("implicit-cast", next)
<1>1. /\ RC!VisitLeaf /\ reports' = reports \cup {r}
      /\ UNCHANGED <<m_last_visited_function_decl, functions, latest, calls>>
  BY DEF RC!VisitImplicitCast
<1>2. /\ RC!TraversalTypeOK(RC!Kinds)' /\ OpenIsOrdered'
      /\ next \in RC!Nodes /\ next' = next + 1 /\ open' = open
  BY <1>1, RCVisitLeaf
<1>3. r \in [what : {"replace", "implicit-cast"}, call : RC!Nodes] /\ r.call = next
      /\ r.what = "implicit-cast"
  BY <1>2 DEF RC!Note
<1>4. RC!TypeOK /\ RCNumbersAreFresh /\ RCLastIsKept /\ next \in Int
  BY RCType DEF RCInv
<1> HIDE DEF r
<1>5. RC!TypeOK'
  BY <1>1, <1>2, <1>3, <1>4 DEF RC!TypeOK
<1>6. /\ \A g \in functions : g.id < next'
      /\ \A c \in calls : c.id < next'
      /\ \A q \in reports : q.call < next'
      /\ latest < next'
  BY <1>2, <1>4, RCType DEF RCNumbersAreFresh, RCLastIsKept
<1>7. \A q \in reports' : q.call < next'
  BY <1>1, <1>2, <1>3, <1>4, <1>6
<1>8. RCNumbersAreFresh' /\ RCLastIsKept'
  BY <1>1, <1>2, <1>4, <1>6, <1>7 DEF RCNumbersAreFresh, RCLastIsKept
<1>9. \A c \in calls : RC!IsReported(c)' <=> RC!IsReported(c)
  BY <1>1, <1>3 DEF RC!IsReported, RC!Note
<1> QED
  BY <1>1, <1>2, <1>5, <1>8, <1>9, RCQuiet

(* The parameters differ at most in one, a string in both. *)
RCAlike(m, o) ==
  LET others == {i \in 1..Len(m.params) :
                   i <= Len(o.params) /\ m.params[i] # o.params[i]}
  IN  \A i, j \in others :
        i = j /\ {m.params[i], o.params[i]} \subseteq {"view", "string"}

(* The comparison of the method visited last with the overload itself is     *)
(* not in doubt; and if it succeeds then they are alike.                     *)
LEMMA RCSame ==
  ASSUME NEW current \in Methods, NEW overload \in Methods
  PROVE  /\ RC!compareCurrentAndOverload(overload, overload) = {TRUE}
         /\ TRUE \in RC!compareCurrentAndOverload(current, overload) =>
              RCAlike(current, overload)
<1> DEFINE D == RC!Differing(current.params, overload.params)
           R == RC!Refused(current.params, overload.params)
<1>1. RC!compareCurrentAndOverload(overload, overload) = {TRUE}
  BY DEF RC!compareCurrentAndOverload
<1> SUFFICES ASSUME TRUE \in RC!compareCurrentAndOverload(current, overload),
                    NEW i \in D, NEW j \in D
             PROVE  /\ i = j
                    /\ {current.params[i], overload.params[i]} \subseteq {"view", "string"}
  BY <1>1 DEF RC!Differing, RCAlike
<1>2. current # overload
  BY DEF RC!Differing
<1>3. R = {}
  BY <1>2 DEF RC!compareCurrentAndOverload
<1>4. Len(current.params) \in Nat
  BY FunctionsAssumption DEF RC!RemoveCStrAssumption
<1>5. i \in Int /\ j \in Int
  BY <1>4 DEF RC!Differing
<1>6. \A k \in D :
        /\ RC!IsString(current.params[k]) /\ RC!IsString(overload.params[k])
        /\ ~\E l \in D : l < k
  BY <1>3 DEF RC!Refused
<1>7. ~(i < j) /\ ~(j < i)
  BY <1>6
<1> QED
  BY <1>5, <1>6, <1>7 DEF RC!IsString

LEMMA RCVisitCXXMemberCallExpr ==
  ASSUME RCInv, NEW method \in Methods, NEW n \in 1..Len(method.params),
         RC!VisitCXXMemberCallExpr(method, n)
  PROVE  RCInv'
<1> DEFINE r == RC!Note("replace", next)
<1>1. RC!VisitLeaf /\ UNCHANGED <<m_last_visited_function_decl, functions, latest>>
  BY DEF RC!VisitCXXMemberCallExpr
<1>2. PICK overload \in RC!Overloads(method, n) :
        /\ \E same \in RC!SameAsLast(overload) :
             reports' = IF same THEN reports ELSE reports \cup {r}
        /\ calls' = calls \cup {[id |-> next, overload |-> overload, inside |-> RC!Inside,
                                 fresh |-> latest = RC!Inside.id]}
  BY DEF RC!VisitCXXMemberCallExpr
<1>3. PICK same \in RC!SameAsLast(overload) :
        reports' = IF same THEN reports ELSE reports \cup {r}
  BY <1>2
<1> DEFINE c == [id |-> next, overload |-> overload, inside |-> RC!Inside,
                 fresh |-> latest = RC!Inside.id]
<1>4. /\ RC!TraversalTypeOK(RC!Kinds)' /\ OpenIsOrdered'
      /\ next \in RC!Nodes /\ next' = next + 1 /\ open' = open
  BY <1>1, RCVisitLeaf
<1>5. overload \in Methods
  BY DEF RC!Overloads
<1>6. RC!TypeOK /\ RCNumbersAreFresh /\ RCLastIsKept /\ next \in Int
  BY RCType DEF RCInv
<1>7. RC!Inside \in functions /\ RC!Inside \in RC!FunctionDecl
  BY <1>6, RCInside DEF RC!TypeOK
<1>8. /\ c \in RC!Call /\ c.id = next /\ c.overload = overload /\ c.inside = RC!Inside
      /\ c.fresh = (latest = RC!Inside.id) /\ calls' = calls \cup {c}
  BY <1>2, <1>4, <1>5, <1>7 DEF RC!Call
<1>9. r \in [what : {"replace", "implicit-cast"}, call : RC!Nodes] /\ r.call = next
  BY <1>4 DEF RC!Note
<1>10. \A d : RC!IsReported(d) <=> RC!Note("replace", d.id) \in reports
  BY DEF RC!IsReported
<1>11. \A d : d.id # next => RC!Note("replace", d.id) # r
  BY DEF RC!Note
<1>12. r = RC!Note("replace", next)
  OBVIOUS
<1> HIDE DEF c, r
<1>13. reports' \subseteq reports \cup {r} /\ reports \subseteq reports'
  BY <1>3
<1>14. RC!TypeOK'
  BY <1>1, <1>4, <1>6, <1>8, <1>9, <1>13 DEF RC!TypeOK
<1>15. /\ \A g \in functions : g.id < next'
       /\ \A d \in calls : d.id < next /\ d.id < next'
       /\ \A q \in reports : q.call < next /\ q.call < next'
       /\ latest < next'
  BY <1>4, <1>6, RCType DEF RCNumbersAreFresh, RCLastIsKept
<1>16. (\A d \in calls' : d.id < next') /\ \A q \in reports' : q.call < next'
  BY <1>4, <1>6, <1>8, <1>9, <1>13, <1>15
<1>17. RCNumbersAreFresh' /\ RCLastIsKept'
  BY <1>1, <1>4, <1>6, <1>15, <1>16 DEF RCNumbersAreFresh, RCLastIsKept
<1>18. ASSUME NEW d \in calls
       PROVE  RC!Note("replace", d.id) \in reports' <=> RC!Note("replace", d.id) \in reports
  <2>1. d.id # next
    BY <1>6, <1>15, RCType
  <2> QED
    BY <1>11, <1>13, <2>1
<1>19. r \notin reports
  BY <1>6, <1>9, <1>15, RCType
<1>20. ASSUME c.fresh PROVE m_last_visited_function_decl = RC!Inside
  BY <1>6, <1>7, <1>8, <1>20 DEF RCLastIsKept
<1>21. ASSUME c.fresh, c.inside.method = {c.overload}
       PROVE  r \notin reports'
  <2>1. m_last_visited_function_decl.method = {overload}
    BY <1>8, <1>20, <1>21
  <2>2. RC!SameAsLast(overload) = {TRUE}
    <3>1. RC!compareCurrentAndOverload(overload, overload) = {TRUE}
      BY <1>5, RCSame
    <3> QED
      BY <2>1, <3>1 DEF RC!SameAsLast
  <2> QED
    BY <1>3, <1>19, <2>2
<1>22. ASSUME c.fresh, r \notin reports'
       PROVE  \E m \in c.inside.method :
                /\ m \in Methods
                /\ TRUE \in RC!compareCurrentAndOverload(m, overload)
  <2>1. same = TRUE
    <3>1. same \in BOOLEAN
      BY <1>3 DEF RC!SameAsLast, RC!compareCurrentAndOverload
    <3> QED
      BY <1>3, <1>22, <3>1
  <2>2. m_last_visited_function_decl.method # {}
    BY <1>3, <2>1 DEF RC!SameAsLast
  <2>3. TRUE \in UNION {RC!compareCurrentAndOverload(prev, overload) :
                         prev \in m_last_visited_function_decl.method}
    BY <1>3, <2>1, <2>2 DEF RC!SameAsLast
  <2>4. PICK m \in m_last_visited_function_decl.method :
          TRUE \in RC!compareCurrentAndOverload(m, overload)
    BY <2>3
  <2>5. m \in Methods
    BY <1>6 DEF RC!TypeOK, RC!FunctionDecl
  <2>6. m \in c.inside.method
    BY <1>8, <1>20, <1>22
  <2> QED
    BY <2>4, <2>5, <2>6
<1>23. RC!SuggestionsEnd'
  <2> SUFFICES ASSUME NEW d \in calls', d.fresh, d.inside.method = {d.overload}
               PROVE  RC!Note("replace", d.id) \notin reports'
    BY DEF RC!SuggestionsEnd, RC!IsReported
  <2>1. CASE d \in calls
    BY <1>18, <2>1 DEF RCInv, RC!SuggestionsEnd, RC!IsReported
  <2>2. CASE d = c
    BY <1>8, <1>12, <1>21, <2>2
  <2> QED
    BY <1>8, <2>1, <2>2
<1>24. RC!SilentCallsAreInOverloads'
  <2> SUFFICES ASSUME NEW d \in calls', d.fresh, RC!Note("replace", d.id) \notin reports'
               PROVE  \E m \in d.inside.method : RCAlike(m, d.overload)
    BY DEF RC!SilentCallsAreInOverloads, RC!IsReported, RCAlike
  <2>1. CASE d \in calls
    <3>1. ~RC!IsReported(d)
      BY <1>18, <2>1 DEF RC!IsReported
    <3>2. RC!SilentCallsAreInOverloads
      BY DEF RCInv
    <3> QED
      BY <2>1, <3>1, <3>2 DEF RC!SilentCallsAreInOverloads, RCAlike
  <2>2. CASE d = c
    <3>1. PICK m \in c.inside.method :
            m \in Methods /\ TRUE \in RC!compareCurrentAndOverload(m, overload)
      BY <1>8, <1>12, <1>22, <2>2
    <3>2. RCAlike(m, overload)
      BY <1>5, <3>1, RCSame
    <3> QED
      BY <1>8, <2>2, <3>1, <3>2
  <2> QED
    BY <1>8, <2>1, <2>2
<1> QED
  BY <1>4, <1>14, <1>17, <1>23, <1>24 DEF RCInv

LEMMA RCLeave ==
  ASSUME RCInv, RC!Leave
  PROVE  RCInv'
<1>1. /\ open # <<>> /\ open' = SubSeq(open, 1, Len(open) - 1) /\ next' = next
      /\ UNCHANGED <<m_last_visited_function_decl, reports, functions, latest, calls>>
  BY DEF RC!Leave, RC!LeaveStmt, RC!Pop
<1>2. RC!TypeOK /\ OpenIsOrdered /\ RCNumbersAreFresh /\ RCLastIsKept
  BY DEF RCInv
<1>3. /\ open' \in Seq([id : 1..MaxNodes, kind : RC!Kinds]) /\ next' \in 1..(MaxNodes + 1)
      /\ OpenIsOrdered'
      /\ \A i \in 1..Len(open') : i \in 1..Len(open) /\ open'[i] = open[i]
  BY <1>1, <1>2, RCType, Popped
<1>4. RC!TypeOK'
  BY <1>1, <1>2, <1>3, RCType DEF RC!TypeOK, RC!TraversalTypeOK
<1>5. RCNumbersAreFresh' /\ RCLastIsKept'
  BY <1>1, <1>2, <1>3 DEF RCNumbersAreFresh, RCLastIsKept
<1>6. \A c \in calls : RC!IsReported(c)' <=> RC!IsReported(c)
  BY <1>1 DEF RC!IsReported
<1> QED
  BY <1>1, <1>3, <1>4, <1>5, <1>6, RCQuiet

LEMMA RCInit ==
  ASSUME RC!Init
  PROVE  RCInv
<1>1. /\ open = <<>> /\ next = 1 /\ m_last_visited_function_decl = RC!NoFunction
      /\ reports = {} /\ functions = {RC!NoFunction} /\ latest = RC!Null /\ calls = {}
  BY DEF RC!Init, RC!TraversalInit
<1>2. RC!NoFunction \in RC!FunctionDecl /\ RC!NoFunction.id = RC!Null /\ RC!Null = 0
  BY DEF RC!NoFunction, RC!FunctionDecl, RC!Null
<1>3. Len(open) = 0 /\ 1 \in 1..(MaxNodes + 1) /\ open \in Seq([id : RC!Nodes, kind : RC!Kinds])
  BY <1>1, TraversalAssumption
<1>4. RC!TypeOK
  BY <1>1, <1>2, <1>3 DEF RC!TypeOK, RC!TraversalTypeOK
<1>5. OpenIsOrdered /\ RCNumbersAreFresh /\ RCLastIsKept
  BY <1>1, <1>2, <1>3 DEF OpenIsOrdered, RCNumbersAreFresh, RCLastIsKept
<1>6. RC!SuggestionsEnd /\ RC!SilentCallsAreInOverloads
  BY <1>1 DEF RC!SuggestionsEnd, RC!SilentCallsAreInOverloads
<1> QED
  BY <1>4, <1>5, <1>6 DEF RCInv

LEMMA RCNext ==
  ASSUME RCInv, RC!Next
  PROVE  RCInv'
BY RCEnterFunction, RCEnterLambda, RCVisitCXXMemberCallExpr, RCVisitImplicitCast, RCLeave
   DEF RC!Next

LEMMA RCStutter ==
  ASSUME RCInv, UNCHANGED RC!vars
  PROVE  RCInv'
<1>1. UNCHANGED <<open, next, m_last_visited_function_decl, reports, functions, latest, calls>>
  BY DEF RC!vars
<1>2. RC!TypeOK' /\ OpenIsOrdered'
  BY <1>1 DEF RCInv, RC!TypeOK, RC!TraversalTypeOK, OpenIsOrdered
<1>3. RCNumbersAreFresh' /\ RCLastIsKept'
  BY <1>1 DEF RCInv, RCNumbersAreFresh, RCLastIsKept
<1>4. \A c \in calls : RC!IsReported(c)' <=> RC!IsReported(c)
  BY <1>1 DEF RC!IsReported
<1> QED
  BY <1>1, <1>2, <1>3, <1>4, RCQuiet

-----------------------------------------------------------------------------
(* ImproperMoveVisitor.                                                      *)

(* The vector of the functions visited. *)
IVFunc == [body : IV!Nodes, params : Seq(IV!ParamTraits)]

(* No two parameters are at one address; what was moved is a parameter, as   *)
(* is what was reported as a const rvalue.                                   *)
IVParamsAreKnown ==
  /\ \A p \in params : p.owner < next
  /\ \A p, q \in params : p.addr = q.addr => p = q
  /\ \A m \in moves : m.call < next /\ \E p \in params : p.addr = m.parm
  /\ \A r \in reports :
       /\ r.what = "move-lvalue" => r.of < next
       /\ r.what = "const-rvalue" => \E p \in params : p.addr = r.of

(* The vector has all of the parameters of every function visited.           *)
IVStackIsComplete ==
  /\ m_params_stack \in Seq(IVFunc)
  /\ \A i \in 1..Len(m_params_stack) :
       /\ m_params_stack[i].body < next
       /\ \A p \in params :
            p.owner = m_params_stack[i].body =>
              \E k \in 1..Len(m_params_stack[i].params) :
                /\ m_params_stack[i].params[k].parm_decl = p.addr
                /\ m_params_stack[i].params[k].is_non_const_lvalue =
                     IV!is_non_const_lvalue(p.shape)

IVInv ==
  /\ IV!TypeOK /\ OpenIsOrdered /\ IV!LastCastIsInnermost
  /\ IVParamsAreKnown /\ IVStackIsComplete
  /\ IV!OwnMovesAreExact /\ IV!ConstRvaluesAreSound

(* What the types say. *)
LEMMA IVType ==
  ASSUME IV!TypeOK
  PROVE  /\ MaxNodes \in Nat /\ IV!Nodes = 1..MaxNodes /\ Addresses \subseteq Nat
         /\ open \in Seq([id : 1..MaxNodes, kind : IV!Kinds])
         /\ next \in 1..(MaxNodes + 1) /\ next \in Int
         /\ Len(open) \in Nat
         /\ \A i \in 1..Len(open) : open[i].id \in 1..MaxNodes /\ open[i].kind \in IV!Kinds
         /\ \A p \in params : p.owner \in Int /\ p.addr \in Int
         /\ \A m \in moves : m.call \in Int
         /\ \A r \in reports : r.of \in Int
<1>1. MaxNodes \in Nat /\ IV!Nodes = 1..MaxNodes /\ Addresses \subseteq Nat
  BY TraversalAssumption, FunctionsAssumption DEF IV!Nodes, IV!ImproperMoveAssumption
<1>2. open \in Seq([id : 1..MaxNodes, kind : IV!Kinds]) /\ next \in 1..(MaxNodes + 1)
  BY <1>1 DEF IV!TypeOK, IV!TraversalTypeOK
<1>3. /\ Len(open) \in Nat
      /\ \A i \in 1..Len(open) : open[i].id \in 1..MaxNodes /\ open[i].kind \in IV!Kinds
  BY <1>1, <1>2, OpenNodes
<1>4. \A p \in params : p.owner \in 1..MaxNodes /\ p.addr \in Nat
  BY <1>1 DEF IV!TypeOK, IV!Parameter
<1>5. \A m \in moves : m.call \in 1..MaxNodes
  BY <1>1 DEF IV!TypeOK, IV!Move
<1>6. \A r \in reports : r.of \in (1..MaxNodes) \cup Nat
  BY <1>1 DEF IV!TypeOK
<1> QED
  BY <1>1, <1>2, <1>3, <1>4, <1>5, <1>6

(* A node is entered; unless it is a cast, the innermost cast stays. *)
LEMMA IVEnter ==
  ASSUME IVInv, NEW kind \in IV!Kinds, IV!Enter(kind),
         \/ kind # "cast" /\ m_last_const_cast' = m_last_const_cast
         \/ kind = "cast" /\ m_last_const_cast' = next
  PROVE  /\ IV!TraversalTypeOK(IV!Kinds)' /\ OpenIsOrdered' /\ IV!LastCastIsInnermost'
         /\ next \in IV!Nodes /\ next' = next + 1
         /\ m_last_const_cast' \in IV!Nodes \cup {IV!Null}
<1>1. IV!TypeOK /\ OpenIsOrdered
  BY DEF IVInv
<1>2. next' = next + 1 /\ next <= MaxNodes /\ open' = Append(open, [id |-> next, kind |-> kind])
  BY DEF IV!Enter, IV!Visit
<1>3. /\ open' \in Seq([id : 1..MaxNodes, kind : IV!Kinds]) /\ next' \in 1..(MaxNodes + 1)
      /\ OpenIsOrdered' /\ Len(open) \in Nat /\ Len(open') \in Nat
      /\ \A i \in 1..Len(open) : i \in 1..Len(open') /\ open'[i] = open[i] /\ i # Len(open')
      /\ Len(open') \in 1..Len(open') /\ open'[Len(open')] = [id |-> next, kind |-> kind]
      /\ open'[Len(open')].kind = kind
      /\ \A i \in 1..Len(open') : i \in 1..Len(open) \/ i = Len(open')
  BY <1>1, <1>2, IVType, Pushed
<1>4. next \in IV!Nodes
  BY <1>1, <1>2, IVType
<1>5. IV!TraversalTypeOK(IV!Kinds)'
  BY <1>1, <1>3, IVType DEF IV!TraversalTypeOK
<1>6. m_last_const_cast' \in IV!Nodes \cup {IV!Null}
  BY <1>1, <1>4 DEF IV!TypeOK
<1>7. IV!LastCastIsInnermost'
  <2> SUFFICES ASSUME m_last_const_cast' # IV!Null
               PROVE  \E i \in 1..Len(open') :
                        /\ open'[i] = [id |-> m_last_const_cast', kind |-> "cast"]
                        /\ \A j \in (i + 1)..Len(open') : open'[j].kind # "cast"
    BY DEF IV!LastCastIsInnermost, IV!Null
  <2>1. CASE kind = "cast" /\ m_last_const_cast' = next
    <3>1. \A j \in (Len(open') + 1)..Len(open') : FALSE
      BY <1>3
    <3> QED
      BY <1>3, <2>1, <3>1
  <2>2. CASE kind # "cast" /\ m_last_const_cast' = m_last_const_cast
    <3>1. PICK i \in 1..Len(open) :
            /\ open[i] = [id |-> m_last_const_cast, kind |-> "cast"]
            /\ \A j \in (i + 1)..Len(open) : open[j].kind # "cast"
      BY <2>2 DEF IVInv, IV!LastCastIsInnermost
    <3>2. \A j \in (i + 1)..Len(open') : j \in (i + 1)..Len(open) \/ j = Len(open')
      BY <1>3
    <3>3. \A j \in (i + 1)..Len(open) : open'[j] = open[j]
      BY <1>3
    <3>4. \A j \in (i + 1)..Len(open') : open'[j].kind # "cast"
      BY <1>3, <2>2, <3>1, <3>2, <3>3
    <3> QED
      BY <1>3, <2>2, <3>1, <3>4
  <2> QED
    BY <2>1, <2>2
<1> QED
  BY <1>2, <1>3, <1>4, <1>5, <1>6, <1>7

LEMMA IVVisitLeaf ==
  ASSUME IVInv, IV!VisitLeaf, UNCHANGED m_last_const_cast
  PROVE  /\ IV!TraversalTypeOK(IV!Kinds)' /\ OpenIsOrdered' /\ IV!LastCastIsInnermost'
         /\ next \in IV!Nodes /\ next' = next + 1
<1>1. IV!TypeOK /\ OpenIsOrdered
  BY DEF IVInv
<1>2. next' = next + 1 /\ next <= MaxNodes /\ open' = open
  BY DEF IV!VisitLeaf, IV!Visit
<1>3. open' \in Seq([id : 1..MaxNodes, kind : IV!Kinds]) /\ next' \in 1..(MaxNodes + 1) /\ OpenIsOrdered'
  BY <1>1, <1>2, IVType, Stayed
<1>4. next \in IV!Nodes
  BY <1>1, <1>2, IVType
<1>5. IV!LastCastIsInnermost'
  BY <1>2 DEF IVInv, IV!LastCastIsInnermost
<1> QED
  BY <1>1, <1>2, <1>3, <1>4, <1>5, IVType DEF IV!TraversalTypeOK

(* What nodes do that are neither functions nor moves of parameters. *)
LEMMA IVQuiet ==
  ASSUME IVInv, IV!TraversalTypeOK(IV!Kinds)', OpenIsOrdered', IV!LastCastIsInnermost',
         next' \in {next, next + 1}, m_last_const_cast' \in IV!Nodes \cup {IV!Null},
         UNCHANGED <<m_params_stack, undefined, params, moves>>,
         NEW new \in SUBSET [what : IV!Messages, of : IV!Nodes \cup Addresses],
         \A r \in new : r.what \notin {"move-lvalue", "const-rvalue"},
         reports' = reports \cup new
  PROVE  IVInv'
<1>1. IV!TypeOK /\ IVParamsAreKnown /\ IVStackIsComplete
  BY DEF IVInv
<1>2. IV!TypeOK'
  BY <1>1 DEF IV!TypeOK
<1>3. \A n \in Int : n < next => n < next'
  BY <1>1, IVType
<1>4. IVParamsAreKnown'
  <2>1. /\ \A p \in params' : p.owner < next'
        /\ \A m \in moves' : m.call < next' /\ \E p \in params' : p.addr = m.parm
    BY <1>1, <1>3, IVType DEF IVParamsAreKnown
  <2>2. \A r \in reports' :
          /\ r.what = "move-lvalue" => r.of < next'
          /\ r.what = "const-rvalue" => \E p \in params' : p.addr = r.of
    BY <1>1, <1>3, IVType DEF IVParamsAreKnown
  <2> QED
    BY <1>1, <2>1, <2>2 DEF IVParamsAreKnown
<1>5. IVStackIsComplete'
  <2>1. \A i \in 1..Len(m_params_stack) : m_params_stack[i].body < next'
    <3> SUFFICES ASSUME NEW i \in 1..Len(m_params_stack)
                 PROVE  m_params_stack[i].body < next'
      OBVIOUS
    <3>1. m_params_stack[i].body \in IV!Nodes
      BY <1>1 DEF IV!TypeOK
    <3> QED
      BY <1>1, <1>3, <3>1, IVType DEF IVStackIsComplete
  <2> QED
    BY <1>1, <2>1 DEF IVStackIsComplete
<1>6. IV!OwnMovesAreExact' /\ IV!ConstRvaluesAreSound'
  <2>1. /\ \A n : IV!Note("move-lvalue", n) \in reports' <=> IV!Note("move-lvalue", n) \in reports
        /\ \A n : IV!Note("const-rvalue", n) \in reports' <=> IV!Note("const-rvalue", n) \in reports
    BY DEF IV!Note
  <2> QED
    BY <2>1 DEF IVInv, IV!OwnMovesAreExact, IV!ConstRvaluesAreSound
<1> QED
  BY <1>2, <1>4, <1>5, <1>6 DEF IVInv

LEMMA IVSilent ==
  ASSUME IVInv, IV!TraversalTypeOK(IV!Kinds)', OpenIsOrdered', IV!LastCastIsInnermost',
         next' \in {next, next + 1}, m_last_const_cast' \in IV!Nodes \cup {IV!Null},
         UNCHANGED <<m_params_stack, undefined, reports, params, moves>>
  PROVE  IVInv'
<1> DEFINE none == {}
<1>1. none \in SUBSET [what : IV!Messages, of : IV!Nodes \cup Addresses]
  OBVIOUS
<1>2. \A r \in none : r.what \notin {"move-lvalue", "const-rvalue"}
  OBVIOUS
<1>3. reports' = reports \cup none
  OBVIOUS
<1> HIDE DEF none
<1> QED
  BY <1>1, <1>2, <1>3, IVQuiet

LEMMA IVEnterCall ==
  ASSUME IVInv, IV!EnterCall
  PROVE  IVInv'
<1>1. /\ IV!Enter("call")
      /\ UNCHANGED <<m_params_stack, m_last_const_cast, undefined, reports, params, moves>>
  BY DEF IV!EnterCall
<1>2. "call" \in IV!Kinds /\ "call" # "cast"
  BY DEF IV!Kinds
<1> QED
  BY <1>1, <1>2, IVEnter, IVSilent

LEMMA IVEnterCast ==
  ASSUME IVInv, IV!EnterCast
  PROVE  IVInv'
<1>1. /\ IV!Enter("cast") /\ m_last_const_cast' = next
      /\ UNCHANGED <<m_params_stack, undefined, reports, params, moves>>
  BY DEF IV!EnterCast
<1>2. "cast" \in IV!Kinds
  BY DEF IV!Kinds
<1> QED
  BY <1>1, <1>2, IVEnter, IVSilent

LEMMA IVLeave ==
  ASSUME IVInv, IV!LeaveCast \/ IV!LeaveOther
  PROVE  IVInv'
<1>1. /\ open # <<>> /\ open' = SubSeq(open, 1, Len(open) - 1) /\ next' = next
      /\ UNCHANGED <<m_params_stack, undefined, reports, params, moves>>
      /\ \/ m_last_const_cast' = IV!Null
         \/ m_last_const_cast' = m_last_const_cast /\ open[Len(open)].kind # "cast"
  BY DEF IV!LeaveCast, IV!LeaveOther, IV!LeaveStmt, IV!Pop, IV!Top
<1>2. IV!TypeOK /\ OpenIsOrdered
  BY DEF IVInv
<1>3. /\ open' \in Seq([id : 1..MaxNodes, kind : IV!Kinds]) /\ next' \in 1..(MaxNodes + 1)
      /\ OpenIsOrdered' /\ Len(open) \in Nat /\ Len(open') \in Nat
      /\ \A i \in 1..Len(open') : i \in 1..Len(open) /\ open'[i] = open[i] /\ i # Len(open)
      /\ \A i \in 1..Len(open) : i \in 1..Len(open') \/ i = Len(open)
  BY <1>1, <1>2, IVType, Popped
<1>4. m_last_const_cast' \in IV!Nodes \cup {IV!Null}
  BY <1>1, <1>2 DEF IV!TypeOK
<1>5. IV!LastCastIsInnermost'
  <2> SUFFICES ASSUME m_last_const_cast' # IV!Null
               PROVE  \E i \in 1..Len(open') :
                        /\ open'[i] = [id |-> m_last_const_cast', kind |-> "cast"]
                        /\ \A j \in (i + 1)..Len(open') : open'[j].kind # "cast"
    BY DEF IV!LastCastIsInnermost, IV!Null
  <2>1. m_last_const_cast' = m_last_const_cast /\ open[Len(open)].kind # "cast"
    BY <1>1
  <2>2. PICK i \in 1..Len(open) :
          /\ open[i] = [id |-> m_last_const_cast, kind |-> "cast"]
          /\ \A j \in (i + 1)..Len(open) : open[j].kind # "cast"
    BY <2>1 DEF IVInv, IV!LastCastIsInnermost
  <2>3. i \in 1..Len(open')
    BY <1>3, <2>1, <2>2
  <2>4. \A j \in (i + 1)..Len(open') :
          j \in (i + 1)..Len(open) /\ open'[j] = open[j]
    <3> SUFFICES ASSUME NEW j \in (i + 1)..Len(open')
                 PROVE  j \in (i + 1)..Len(open) /\ open'[j] = open[j]
      OBVIOUS
    <3>1. j \in 1..Len(open')
      BY <1>3
    <3> QED
      BY <1>3, <3>1
  <2> QED
    BY <1>3, <2>1, <2>2, <2>3, <2>4
<1>6. IV!TraversalTypeOK(IV!Kinds)'
  BY <1>2, <1>3, IVType DEF IV!TraversalTypeOK
<1> QED
  BY <1>1, <1>3, <1>4, <1>5, <1>6, IVSilent

LEMMA IVVisitMoveOfTemporary ==
  ASSUME IVInv, NEW same \in BOOLEAN, IV!VisitMoveOfTemporary(same)
  PROVE  IVInv'
<1> DEFINE new == IV!ReportConst(same) \cup {IV!Note("move-rvalue", next)}
<1>1. /\ IV!VisitLeaf /\ reports' = reports \cup new
      /\ UNCHANGED <<m_params_stack, m_last_const_cast, undefined, params, moves>>
  BY DEF IV!VisitMoveOfTemporary
<1>2. /\ IV!TraversalTypeOK(IV!Kinds)' /\ OpenIsOrdered' /\ IV!LastCastIsInnermost'
      /\ next \in IV!Nodes /\ next' = next + 1
  BY <1>1, IVVisitLeaf
<1>3. new \in SUBSET [what : IV!Messages, of : IV!Nodes \cup Addresses]
  BY <1>2 DEF IV!ReportConst, IV!Note, IV!Messages
<1>4. \A r \in new : r.what \notin {"move-lvalue", "const-rvalue"}
  BY DEF IV!ReportConst, IV!Note
<1>5. m_last_const_cast' \in IV!Nodes \cup {IV!Null}
  BY <1>1 DEF IVInv, IV!TypeOK
<1> HIDE DEF new
<1> QED
  BY <1>1, <1>2, <1>3, <1>4, <1>5, IVQuiet

(* What std::sort leaves, if no two are equal. *)
LEMMA IVSorted ==
  ASSUME NEW n \in Nat, NEW traits \in [1..n -> IV!ParamTraits],
         \A i, j \in 1..n : traits[i].parm_decl = traits[j].parm_decl => i = j,
         NEW t \in IV!sorted(traits)
  PROVE  /\ t \in Seq(IV!ParamTraits)
         /\ \A k, l \in 1..Len(t) : k < l => t[k].parm_decl < t[l].parm_decl
         /\ \A i \in 1..n : \E k \in 1..Len(t) : t[k] = traits[i]
<1>1. DOMAIN traits = 1..n
  OBVIOUS
<1>2. PICK p \in IV!Bijection(1..n, 1..n) :
        /\ t = [i \in 1..n |-> traits[p[i]]]
        /\ \A k, l \in DOMAIN t : k < l => t[k].parm_decl <= t[l].parm_decl
  BY <1>1 DEF IV!sorted
<1>3. /\ p \in [1..n -> 1..n]
      /\ \A i, j \in 1..n : p[i] = p[j] => i = j
      /\ \A i \in 1..n : \E k \in 1..n : p[k] = i
  BY DEF IV!Bijection, IV!Injection, IV!Surjection, IV!IsInjective
<1>4. t \in [1..n -> IV!ParamTraits] /\ DOMAIN t = 1..n
  BY <1>2, <1>3
<1>5. t \in Seq(IV!ParamTraits) /\ Len(t) = n
  BY <1>4, SeqDef, LenProperties
<1>6. \A k \in 1..n : t[k] = traits[p[k]] /\ p[k] \in 1..n
  BY <1>2, <1>3
<1>7. \A i \in 1..n : \E k \in 1..Len(t) : t[k] = traits[i]
  BY <1>3, <1>5, <1>6
<1>8. \A k \in 1..n : t[k].parm_decl \in Nat
  BY <1>4, FunctionsAssumption DEF IV!ParamTraits, IV!ImproperMoveAssumption
<1>9. ASSUME NEW k \in 1..n, NEW l \in 1..n, k < l
      PROVE  t[k].parm_decl < t[l].parm_decl
  <2>1. t[k].parm_decl <= t[l].parm_decl
    BY <1>2, <1>4, <1>9
  <2>2. t[k].parm_decl # t[l].parm_decl
    <3>1. p[k] # p[l]
      BY <1>3, <1>9
    <3> QED
      BY <1>6, <3>1
  <2> QED
    BY <1>8, <2>1, <2>2
<1> QED
  BY <1>5, <1>7, <1>9

(* The parameters of a function get addresses of their own. *)
LEMMA IVRemember ==
  ASSUME IVInv, NEW signature \in MoveSignatures, NEW a \in IV!Allocations(signature),
         IV!Remember(signature, a), next \in IV!Nodes, next' = next + 1
  PROVE  /\ Len(signature) \in Nat /\ signature \in Seq(IV!Shape)
         /\ \A i \in 1..Len(signature) :
              a[i] \in Addresses /\ signature[i] \in IV!Shape
         /\ \A i, j \in 1..Len(signature) : a[i] = a[j] => i = j
         /\ params' \subseteq IV!Parameter
         /\ params \subseteq params'
         /\ \A p \in params' : p.owner < next'
         /\ \A p, q \in params' : p.addr = q.addr => p = q
         /\ \A p \in params' :
              \/ p \in params
              \/ \E i \in 1..Len(signature) :
                   /\ p.addr = a[i] /\ p.owner = next /\ p.shape = signature[i]
                   /\ \A q \in params : q.addr # p.addr
         /\ \A i \in 1..Len(signature) : \E p \in params' : p.addr = a[i]
<1> DEFINE new(i) == [addr |-> a[i], owner |-> next, shape |-> signature[i]]
           L == 1..Len(signature)
<1>1. IV!TypeOK /\ IVParamsAreKnown /\ next \in Int
  BY IVType DEF IVInv
<1>2. signature \in Seq(IV!Shape)
  BY FunctionsAssumption DEF IV!ImproperMoveAssumption
<1>3. Len(signature) \in Nat /\ \A i \in L : signature[i] \in IV!Shape
  BY <1>2, ElementOfSeq
<1>4. /\ a \in [L -> Addresses \ {p.addr : p \in params}]
      /\ \A i, j \in DOMAIN a : a[i] = a[j] => i = j
  BY DEF IV!Allocations, IV!IsInjective
<1>5. /\ \A i \in L : a[i] \in Addresses /\ \A q \in params : q.addr # a[i]
      /\ \A i, j \in L : a[i] = a[j] => i = j
  BY <1>4
<1>6. params' = params \cup {new(i) : i \in L}
  BY DEF IV!Remember
<1>7. \A i \in L : /\ new(i) \in IV!Parameter
                   /\ new(i).addr = a[i] /\ new(i).owner = next /\ new(i).shape = signature[i]
  BY <1>3, <1>5 DEF IV!Parameter
<1> HIDE DEF new
<1>8. \A p \in params' : p \in params \/ \E i \in L : p = new(i)
  BY <1>6
<1>9. params' \subseteq IV!Parameter /\ params \subseteq params'
  BY <1>1, <1>6, <1>7, <1>8 DEF IV!TypeOK
<1>10. \A p \in params' : p.owner < next'
  BY <1>1, <1>7, <1>8, IVType DEF IVParamsAreKnown
<1>11. \A p, q \in params' : p.addr = q.addr => p = q
  BY <1>1, <1>5, <1>7, <1>8 DEF IVParamsAreKnown
<1>12. \A p \in params' :
         \/ p \in params
         \/ \E i \in L :
              /\ p.addr = a[i] /\ p.owner = next /\ p.shape = signature[i]
              /\ \A q \in params : q.addr # p.addr
  BY <1>5, <1>7, <1>8
<1>13. \A i \in L : \E p \in params' : p.addr = a[i]
  BY <1>6, <1>7
<1> QED
  BY <1>2, <1>3, <1>5, <1>9, <1>10, <1>11, <1>12, <1>13

LEMMA IVEnterUnknown ==
  ASSUME IVInv, NEW signature \in MoveSignatures, NEW a \in IV!Allocations(signature),
         IV!EnterUnknown(signature, a)
  PROVE  IVInv'
<1>1. /\ IV!Enter("unknown") /\ IV!Remember(signature, a)
      /\ UNCHANGED <<m_params_stack, m_last_const_cast, undefined, reports, moves>>
  BY DEF IV!EnterUnknown
<1>2. "unknown" \in IV!Kinds /\ "unknown" # "cast"
  BY DEF IV!Kinds
<1>3. /\ IV!TraversalTypeOK(IV!Kinds)' /\ OpenIsOrdered' /\ IV!LastCastIsInnermost'
      /\ next \in IV!Nodes /\ next' = next + 1
      /\ m_last_const_cast' \in IV!Nodes \cup {IV!Null}
  BY <1>1, <1>2, IVEnter
<1>4. /\ params' \subseteq IV!Parameter /\ params \subseteq params'
      /\ \A p \in params' : p.owner < next'
      /\ \A p, q \in params' : p.addr = q.addr => p = q
      /\ \A p \in params' :
           p \in params \/ (p.owner = next /\ \A q \in params : q.addr # p.addr)
  BY <1>1, <1>3, IVRemember
<1>5. IV!TypeOK /\ IVParamsAreKnown /\ IVStackIsComplete /\ next \in Int
  BY IVType DEF IVInv
<1>6. IV!TypeOK'
  BY <1>1, <1>3, <1>4, <1>5 DEF IV!TypeOK
<1>7. \A n \in Int : n < next => n < next'
  BY <1>3, <1>5
<1>8. IVParamsAreKnown'
  <2>1. \A m \in moves' : m.call < next' /\ \E p \in params' : p.addr = m.parm
    BY <1>1, <1>4, <1>5, <1>7, IVType DEF IVParamsAreKnown
  <2>2. \A r \in reports' :
          /\ r.what = "move-lvalue" => r.of < next'
          /\ r.what = "const-rvalue" => \E p \in params' : p.addr = r.of
    BY <1>1, <1>4, <1>5, <1>7, IVType DEF IVParamsAreKnown
  <2> QED
    BY <1>4, <2>1, <2>2 DEF IVParamsAreKnown
<1>9. IVStackIsComplete'
  <2> SUFFICES ASSUME NEW i \in 1..Len(m_params_stack)
               PROVE  /\ m_params_stack[i].body < next'
                      /\ \A p \in params' :
                           p.owner = m_params_stack[i].body =>
                             \E k \in 1..Len(m_params_stack[i].params) :
                               /\ m_params_stack[i].params[k].parm_decl = p.addr
                               /\ m_params_stack[i].params[k].is_non_const_lvalue =
                                    IV!is_non_const_lvalue(p.shape)
    BY <1>1, <1>5 DEF IVStackIsComplete
  <2>1. m_params_stack[i].body < next /\ m_params_stack[i].body \in IV!Nodes
    BY <1>5 DEF IV!TypeOK, IVStackIsComplete
  <2>2. m_params_stack[i].body < next' /\ m_params_stack[i].body # next
    BY <1>5, <1>7, <2>1, IVType
  <2> QED
    BY <1>4, <1>5, <2>2 DEF IVStackIsComplete
<1>10. IV!OwnMovesAreExact'
  <2>1. \A m \in moves, p \in params' : m.parm = p.addr => p \in params
    BY <1>4, <1>5 DEF IVParamsAreKnown
  <2> QED
    BY <1>1, <2>1 DEF IVInv, IV!OwnMovesAreExact
<1>11. IV!ConstRvaluesAreSound'
  <2>1. \A p \in params' : IV!Note("const-rvalue", p.addr) \in reports => p \in params
    BY <1>4, <1>5 DEF IVParamsAreKnown, IV!Note
  <2> QED
    BY <1>1, <2>1 DEF IVInv, IV!ConstRvaluesAreSound
<1> QED
  BY <1>3, <1>6, <1>8, <1>9, <1>10, <1>11 DEF IVInv

LEMMA IVEnterFunction ==
  ASSUME IVInv, NEW signature \in MoveSignatures, NEW a \in IV!Allocations(signature),
         IV!EnterFunction(signature, a)
  PROVE  IVInv'
<1> DEFINE L == 1..Len(signature)
           traits == IV!Traits(signature, a)
           due(i) == IV!is_not_template(signature, i) /\ signature[i].type = "const rvalue"
           new == {IV!Note("const-rvalue", a[i]) : i \in {j \in L : due(j)}}
<1>1. /\ IV!Enter("function") /\ IV!Remember(signature, a)
      /\ \E t \in IV!sorted(traits) :
           m_params_stack' = Append(m_params_stack, [body |-> next, params |-> t])
      /\ reports' = reports \cup new
      /\ UNCHANGED <<m_last_const_cast, undefined, moves>>
  BY DEF IV!EnterFunction
<1>2. "function" \in IV!Kinds /\ "function" # "cast"
  BY DEF IV!Kinds
<1>3. /\ IV!TraversalTypeOK(IV!Kinds)' /\ OpenIsOrdered' /\ IV!LastCastIsInnermost'
      /\ next \in IV!Nodes /\ next' = next + 1
      /\ m_last_const_cast' \in IV!Nodes \cup {IV!Null}
  BY <1>1, <1>2, IVEnter
<1>4. /\ Len(signature) \in Nat
      /\ \A i \in L : a[i] \in Addresses /\ signature[i] \in IV!Shape
      /\ \A i, j \in L : a[i] = a[j] => i = j
      /\ params' \subseteq IV!Parameter /\ params \subseteq params'
      /\ \A p \in params' : p.owner < next'
      /\ \A p, q \in params' : p.addr = q.addr => p = q
      /\ \A p \in params' :
           \/ p \in params
           \/ \E i \in L : /\ p.addr = a[i] /\ p.owner = next /\ p.shape = signature[i]
                           /\ \A q \in params : q.addr # p.addr
      /\ \A i \in L : \E p \in params' : p.addr = a[i]
  BY <1>1, <1>3, IVRemember
<1>5. IV!TypeOK /\ IVParamsAreKnown /\ IVStackIsComplete /\ next \in Int
  BY IVType DEF IVInv
<1>6. \A n \in Int : n < next => n < next' /\ n # next
  BY <1>3, <1>5
<1>7. /\ traits \in [L -> IV!ParamTraits]
      /\ \A i \in L : /\ traits[i].parm_decl = a[i]
                      /\ traits[i].is_non_const_lvalue = IV!is_non_const_lvalue(signature[i])
  <2>1. \A i \in L : IV!is_non_const_lvalue(signature[i]) \in BOOLEAN /\ a[i] \in Addresses
    BY <1>4 DEF IV!is_non_const_lvalue
  <2>2. traits = [i \in L |-> [parm_decl |-> a[i],
                               is_non_const_lvalue |-> IV!is_non_const_lvalue(signature[i])]]
    BY DEF IV!Traits
  <2> QED
    BY <2>1, <2>2 DEF IV!ParamTraits
<1>8. \A i, j \in L : traits[i].parm_decl = traits[j].parm_decl => i = j
  BY <1>4, <1>7
<1>9. PICK t \in IV!sorted(traits) :
        m_params_stack' = Append(m_params_stack, [body |-> next, params |-> t])
  BY <1>1
<1> HIDE DEF traits
<1>10. /\ t \in Seq(IV!ParamTraits)
       /\ \A k, l \in 1..Len(t) : k < l => t[k].parm_decl < t[l].parm_decl
       /\ \A i \in L : \E k \in 1..Len(t) : t[k] = traits[i]
  <2> DEFINE n == Len(signature)
  <2>1. L = 1..n
    OBVIOUS
  <2>2. n \in Nat /\ traits \in [1..n -> IV!ParamTraits]
    BY <1>4, <1>7
  <2>3. \A i, j \in 1..n : traits[i].parm_decl = traits[j].parm_decl => i = j
    BY <1>8
  <2>4. t \in IV!sorted(traits)
    BY <1>9
  <2> HIDE DEF n, L
  <2>5. /\ t \in Seq(IV!ParamTraits)
        /\ \A k, l \in 1..Len(t) : k < l => t[k].parm_decl < t[l].parm_decl
        /\ \A i \in 1..n : \E k \in 1..Len(t) : t[k] = traits[i]
    BY <2>2, <2>3, <2>4, IVSorted
  <2> QED
    BY <2>1, <2>5
<1> DEFINE f == [body |-> next, params |-> t]
<1>11. f \in IVFunc /\ f.body = next /\ f.params = t
  BY <1>3, <1>10 DEF IVFunc
<1> HIDE DEF f
<1>12. m_params_stack' = Append(m_params_stack, f)
  BY <1>9 DEF f
<1>13. m_params_stack \in Seq(IVFunc)
  BY <1>5 DEF IVStackIsComplete
<1>14. /\ m_params_stack' \in Seq(IVFunc)
       /\ \A i \in 1..Len(m_params_stack) : m_params_stack'[i] = m_params_stack[i]
       /\ m_params_stack'[Len(m_params_stack')] = f
       /\ \A i \in 1..Len(m_params_stack') :
            i \in 1..Len(m_params_stack) \/ i = Len(m_params_stack')
  BY <1>11, <1>12, <1>13, Grown
<1> HIDE DEF due
<1>15. \A r \in new : /\ r \in [what : IV!Messages, of : IV!Nodes \cup Addresses]
                      /\ r.what = "const-rvalue" /\ \E i \in L : r.of = a[i] /\ due(i)
  BY <1>4 DEF IV!Note, IV!Messages
<1> HIDE DEF new
<1>16. \A i \in L : due(i) => signature[i] = [type |-> "const rvalue", templated |-> FALSE]
  <2>1. \A i \in L : due(i) => ~signature[i].templated /\ signature[i].type = "const rvalue"
    BY DEF due, IV!is_not_template
  <2> QED
    BY <1>4, <2>1 DEF IV!Shape
<1>17. IV!TypeOK'
  <2>1. reports' \subseteq [what : IV!Messages, of : IV!Nodes \cup Addresses]
    BY <1>1, <1>5, <1>15 DEF IV!TypeOK
  <2>2. ASSUME NEW i \in 1..Len(m_params_stack')
        PROVE  /\ m_params_stack'[i].body \in IV!Nodes
               /\ m_params_stack'[i].params \in Seq(IV!ParamTraits)
               /\ \A k, l \in 1..Len(m_params_stack'[i].params) :
                    k < l => m_params_stack'[i].params[k].parm_decl
                               < m_params_stack'[i].params[l].parm_decl
    <3>1. CASE i \in 1..Len(m_params_stack)
      BY <1>5, <1>14, <3>1 DEF IV!TypeOK
    <3>2. CASE i = Len(m_params_stack')
      BY <1>3, <1>10, <1>11, <1>14, <3>2
    <3> QED
      BY <1>14, <3>1, <3>2
  <2> QED
    BY <1>1, <1>3, <1>4, <1>5, <2>1, <2>2 DEF IV!TypeOK
<1>18. IVParamsAreKnown'
  <2>1. \A m \in moves' : m.call < next' /\ \E p \in params' : p.addr = m.parm
    BY <1>1, <1>4, <1>5, <1>6, IVType DEF IVParamsAreKnown
  <2>2. ASSUME NEW r \in reports'
        PROVE  /\ r.what = "move-lvalue" => r.of < next'
               /\ r.what = "const-rvalue" => \E p \in params' : p.addr = r.of
    <3>1. CASE r \in reports
      BY <1>4, <1>5, <1>6, <3>1, IVType DEF IVParamsAreKnown
    <3>2. CASE r \in new
      BY <1>4, <1>15, <3>2
    <3> QED
      BY <1>1, <3>1, <3>2
  <2> QED
    BY <1>4, <2>1, <2>2 DEF IVParamsAreKnown
<1>19. IVStackIsComplete'
  <2> SUFFICES ASSUME NEW i \in 1..Len(m_params_stack')
               PROVE  /\ m_params_stack'[i].body < next'
                      /\ \A p \in params' :
                           p.owner = m_params_stack'[i].body =>
                             \E k \in 1..Len(m_params_stack'[i].params) :
                               /\ m_params_stack'[i].params[k].parm_decl = p.addr
                               /\ m_params_stack'[i].params[k].is_non_const_lvalue =
                                    IV!is_non_const_lvalue(p.shape)
    BY <1>14 DEF IVStackIsComplete, IV!is_non_const_lvalue
  <2>1. CASE i \in 1..Len(m_params_stack)
    <3>1. m_params_stack'[i] = m_params_stack[i]
      BY <1>14, <2>1
    <3>2. m_params_stack[i].body < next /\ m_params_stack[i].body \in IV!Nodes
      BY <1>5, <2>1 DEF IV!TypeOK, IVStackIsComplete
    <3>3. m_params_stack[i].body < next' /\ m_params_stack[i].body # next
      BY <1>5, <1>6, <3>2, IVType
    <3>4. \A p \in params' : p.owner = m_params_stack[i].body => p \in params
      BY <1>4, <3>3
    <3> QED
      BY <1>5, <2>1, <3>1, <3>3, <3>4 DEF IVStackIsComplete
  <2>2. CASE i = Len(m_params_stack')
    <3>1. m_params_stack'[i].body = next /\ m_params_stack'[i].params = t
      BY <1>11, <1>14, <2>2
    <3>2. next < next'
      BY <1>3, <1>5
    <3> SUFFICES ASSUME NEW p \in params', p.owner = next
                 PROVE  \E k \in 1..Len(t) :
                          /\ t[k].parm_decl = p.addr
                          /\ t[k].is_non_const_lvalue = IV!is_non_const_lvalue(p.shape)
      BY <3>1, <3>2
    <3>3. p \notin params
      BY <1>5, <1>6, IVType DEF IVParamsAreKnown
    <3>4. PICK j \in L : p.addr = a[j] /\ p.shape = signature[j]
      BY <1>4, <3>3
    <3>5. PICK k \in 1..Len(t) : t[k] = traits[j]
      BY <1>10
    <3> QED
      BY <1>7, <3>4, <3>5
  <2> QED
    BY <1>14, <2>1, <2>2
<1>20. IV!OwnMovesAreExact'
  <2>1. \A m \in moves, p \in params' : m.parm = p.addr => p \in params
    BY <1>4, <1>5 DEF IVParamsAreKnown
  <2>2. \A n : IV!Note("move-lvalue", n) \in reports' <=> IV!Note("move-lvalue", n) \in reports
    BY <1>1, <1>15 DEF IV!Note
  <2> QED
    BY <1>1, <2>1, <2>2 DEF IVInv, IV!OwnMovesAreExact
<1>21. IV!ConstRvaluesAreSound'
  <2> SUFFICES ASSUME NEW p \in params', IV!Note("const-rvalue", p.addr) \in reports'
               PROVE  p.shape = [type |-> "const rvalue", templated |-> FALSE]
    BY DEF IV!ConstRvaluesAreSound, IV!Note
  <2> DEFINE r == IV!Note("const-rvalue", p.addr)
  <2>0. r.what = "const-rvalue" /\ r.of = p.addr
    BY DEF IV!Note
  <2>1. CASE r \in reports
    <3>1. \E q \in params : q.addr = p.addr
      BY <1>5, <2>0, <2>1 DEF IVParamsAreKnown
    <3>2. p \in params
      BY <1>4, <3>1
    <3> QED
      BY <2>1, <3>2 DEF IVInv, IV!ConstRvaluesAreSound
  <2>2. CASE r \in new
    <3>1. PICK i \in L : p.addr = a[i] /\ due(i)
      BY <1>15, <2>0, <2>2
    <3>2. \A q \in params : q.addr # a[i]
      <4>1. a[i] \notin {q.addr : q \in params}
        BY <1>4 DEF IV!Allocations
      <4> QED
        BY <4>1
    <3>3. PICK j \in L : p.addr = a[j] /\ p.shape = signature[j]
      BY <1>4, <3>1, <3>2
    <3>4. i = j
      <4>1. \A k, l \in L : a[k] = a[l] => k = l
        BY <1>4
      <4> QED
        BY <3>1, <3>3, <4>1
    <3> QED
      BY <1>16, <3>1, <3>3, <3>4
  <2> QED
    BY <1>1, <2>1, <2>2
<1> QED
  BY <1>3, <1>17, <1>18, <1>19, <1>20, <1>21 DEF IVInv

(* In sorted parameters std::lower_bound finds the one that is there.        *)
LEMMA IVfindParameter ==
  ASSUME IV!TypeOK, m_params_stack # <<>>, m_params_stack \in Seq(IVFunc),
         NEW k \in 1..Len(IV!Top(m_params_stack).params)
  PROVE  IV!findParameter(IV!Top(m_params_stack).params[k].parm_decl) =
           {IV!Top(m_params_stack).params[k]}
<1> DEFINE c == IV!Top(m_params_stack).params
<1>1. Len(m_params_stack) \in 1..Len(m_params_stack)
  BY Back
<1>2. /\ c \in Seq(IV!ParamTraits)
      /\ \A i, j \in 1..Len(c) : i < j => c[i].parm_decl < c[j].parm_decl
  BY <1>1 DEF IV!TypeOK, IV!Top
<1>3. \A i \in 1..Len(c) : c[i] \in IV!ParamTraits
  BY <1>2, ElementOfSeq
<1>4. \A i \in 1..Len(c) : c[i].parm_decl \in Nat
  BY <1>3, FunctionsAssumption DEF IV!ParamTraits, IV!ImproperMoveAssumption
<1>5. Len(c) \in Nat
  BY <1>2
<1> DEFINE notLess == {i \in 1..Len(c) : c[i].parm_decl >= c[k].parm_decl}
<1>6. /\ k \in 1..Len(c)
      /\ IV!findParameter(c[k].parm_decl) =
           {c[i] : i \in {j \in notLess : \A l \in notLess : j <= l}}
  BY DEF IV!findParameter
<1> HIDE DEF c
<1>7. \A i \in 1..Len(c) : i < k => c[i].parm_decl < c[k].parm_decl
  BY <1>2, <1>6
<1>8. \A i \in notLess : ~(i < k)
  BY <1>4, <1>6, <1>7
<1>9. k \in notLess
  BY <1>4, <1>6
<1>10. \A i \in notLess : i >= k
  BY <1>5, <1>6, <1>8
<1>11. {j \in notLess : \A l \in notLess : j <= l} = {k}
  <2>1. \A j \in notLess : (\A l \in notLess : j <= l) => j = k
    BY <1>5, <1>6, <1>9, <1>10
  <2> QED
    BY <1>9, <1>10, <2>1
<1> QED
  BY <1>6, <1>11 DEF c

LEMMA IVVisitMove ==
  ASSUME IVInv, NEW p \in params, NEW same \in BOOLEAN, NEW hidden \in BOOLEAN,
         IV!VisitMove(p, same, hidden)
  PROVE  IVInv'
<1> DEFINE found == \E t \in IV!findParameter(p.addr) : t.is_non_const_lvalue
           lvalue == ~hidden /\ m_params_stack # <<>> /\ found
           own == m_params_stack # <<>> /\ IV!Top(m_params_stack).body = p.owner
           r == IV!Note("move-lvalue", next)
           c == IF hidden THEN {} ELSE IV!ReportConst(same)
           m == [call |-> next, parm |-> p.addr, hidden |-> hidden, own |-> own]
<1>1. /\ IV!VisitLeaf /\ undefined' \in {undefined, m_params_stack = <<>>}
      /\ reports' = reports \cup c \cup IF lvalue THEN {r} ELSE {}
      /\ moves' = moves \cup {m}
      /\ UNCHANGED <<m_params_stack, m_last_const_cast, params>>
  BY DEF IV!VisitMove
<1>2. /\ IV!TraversalTypeOK(IV!Kinds)' /\ OpenIsOrdered' /\ IV!LastCastIsInnermost'
      /\ next \in IV!Nodes /\ next' = next + 1
  BY <1>1, IVVisitLeaf
<1>3. IV!TypeOK /\ IVParamsAreKnown /\ IVStackIsComplete /\ next \in Int
  BY IVType DEF IVInv
<1>4. \A n \in Int : n < next => n < next' /\ n # next
  BY <1>2, <1>3
<1>5. /\ m \in IV!Move /\ m.call = next /\ m.parm = p.addr
      /\ m.hidden = hidden /\ m.own = own
  <2>1. p.addr \in Addresses
    BY <1>3 DEF IV!TypeOK, IV!Parameter
  <2> QED
    BY <1>2, <2>1 DEF IV!Move
<1>6. /\ r \in [what : IV!Messages, of : IV!Nodes \cup Addresses]
      /\ r.what = "move-lvalue" /\ r.of = next
  BY <1>2 DEF IV!Note, IV!Messages
<1>7. \A q \in c : q \in [what : IV!Messages, of : IV!Nodes \cup Addresses]
                   /\ q.what = "move-to-const"
  BY <1>2 DEF IV!ReportConst, IV!Note, IV!Messages
<1>8. ASSUME own
      PROVE  found <=> IV!is_non_const_lvalue(p.shape)
  <2>1. Len(m_params_stack) \in 1..Len(m_params_stack)
    BY <1>3, <1>8, Back DEF IVStackIsComplete
  <2>2. PICK k \in 1..Len(IV!Top(m_params_stack).params) :
          /\ IV!Top(m_params_stack).params[k].parm_decl = p.addr
          /\ IV!Top(m_params_stack).params[k].is_non_const_lvalue =
               IV!is_non_const_lvalue(p.shape)
    BY <1>3, <1>8, <2>1 DEF IVStackIsComplete, IV!Top
  <2>3. IV!findParameter(p.addr) = {IV!Top(m_params_stack).params[k]}
    BY <1>3, <1>8, <2>2, IVfindParameter DEF IVStackIsComplete
  <2> QED
    BY <2>2, <2>3
<1>9. own => (lvalue <=> ~hidden /\ p.shape.type \in {"lvalue", "const lvalue"})
  BY <1>8 DEF IV!is_non_const_lvalue
<1> HIDE DEF m, r, c, lvalue, own
<1>10. \A q \in reports' : q \in reports \/ q \in c \/ (q = r /\ lvalue)
  BY <1>1
<1>11. reports \subseteq reports' /\ (lvalue => r \in reports')
  BY <1>1
<1>12. r \notin reports /\ r \notin c
  <2>1. r \notin reports
    BY <1>3, <1>6 DEF IVParamsAreKnown
  <2> QED
    BY <1>6, <1>7, <2>1
<1>13. IV!TypeOK'
  <2>1. reports' \subseteq [what : IV!Messages, of : IV!Nodes \cup Addresses]
    BY <1>3, <1>6, <1>7, <1>10 DEF IV!TypeOK
  <2>2. moves' \subseteq IV!Move /\ undefined' \in BOOLEAN
    BY <1>1, <1>3, <1>5 DEF IV!TypeOK
  <2> QED
    BY <1>1, <1>2, <1>3, <2>1, <2>2 DEF IV!TypeOK
<1>14. IVParamsAreKnown'
  <2>1. \A d \in moves' : d.call < next' /\ \E q \in params' : q.addr = d.parm
    <3>1. \A d \in moves : d.call < next' /\ \E q \in params' : q.addr = d.parm
      BY <1>1, <1>3, <1>4, IVType DEF IVParamsAreKnown
    <3>2. m.call < next' /\ \E q \in params' : q.addr = m.parm
      BY <1>1, <1>2, <1>3, <1>5
    <3> QED
      BY <1>1, <3>1, <3>2
  <2>2. ASSUME NEW q \in reports'
        PROVE  /\ q.what = "move-lvalue" => q.of < next'
               /\ q.what = "const-rvalue" => \E x \in params' : x.addr = q.of
    <3>1. CASE q \in reports
      BY <1>1, <1>3, <1>4, <3>1, IVType DEF IVParamsAreKnown
    <3>2. CASE q \in c
      BY <1>7, <3>2
    <3>3. CASE q = r
      BY <1>2, <1>3, <1>6, <3>3
    <3> QED
      BY <1>10, <3>1, <3>2, <3>3
  <2>3. \A q \in params' : q.owner < next'
    BY <1>1, <1>3, <1>4, IVType DEF IVParamsAreKnown
  <2> QED
    BY <1>1, <1>3, <2>1, <2>2, <2>3 DEF IVParamsAreKnown
<1>15. IVStackIsComplete'
  <2>1. \A i \in 1..Len(m_params_stack) : m_params_stack[i].body < next'
    <3> SUFFICES ASSUME NEW i \in 1..Len(m_params_stack)
                 PROVE  m_params_stack[i].body < next'
      OBVIOUS
    <3>1. m_params_stack[i].body \in IV!Nodes
      BY <1>3 DEF IV!TypeOK
    <3> QED
      BY <1>3, <1>4, <3>1, IVType DEF IVStackIsComplete
  <2> QED
    BY <1>1, <1>3, <2>1 DEF IVStackIsComplete
<1>16. IV!OwnMovesAreExact'
  <2> SUFFICES ASSUME NEW d \in moves', NEW q \in params, d.own, d.parm = q.addr
               PROVE  /\ ~d.hidden /\ q.shape.type = "lvalue" =>
                           IV!Note("move-lvalue", d.call) \in reports'
                      /\ d.hidden \/ q.shape.type \notin {"lvalue", "const lvalue"} =>
                           IV!Note("move-lvalue", d.call) \notin reports'
    BY <1>1 DEF IV!OwnMovesAreExact, IV!Note
  <2>1. CASE d \in moves
    <3> DEFINE n == IV!Note("move-lvalue", d.call)
    <3>1. n.what = "move-lvalue" /\ n.of = d.call
      BY DEF IV!Note
    <3>2. n # r
      BY <1>3, <1>4, <1>6, <2>1, <3>1, IVType DEF IVParamsAreKnown
    <3>3. n \in reports' <=> n \in reports
      BY <1>7, <1>10, <1>11, <3>1, <3>2
    <3> QED
      BY <2>1, <3>3 DEF IVInv, IV!OwnMovesAreExact
  <2>2. CASE d = m
    <3>1. q = p
      BY <1>3, <1>5, <2>2 DEF IVParamsAreKnown
    <3>2. IV!Note("move-lvalue", d.call) = r
      BY <1>5, <2>2 DEF r
    <3>3. own /\ d.hidden = hidden
      BY <1>5, <2>2
    <3>4. r \in reports' <=> lvalue
      BY <1>10, <1>11, <1>12
    <3>5. r \in reports' <=> ~hidden /\ p.shape.type \in {"lvalue", "const lvalue"}
      BY <1>9, <3>3, <3>4
    <3>6. ~hidden /\ p.shape.type = "lvalue" => r \in reports'
      BY <3>5
    <3>7. hidden \/ p.shape.type \notin {"lvalue", "const lvalue"} => r \notin reports'
      BY <3>5
    <3> QED
      BY <3>1, <3>2, <3>3, <3>6, <3>7
  <2> QED
    BY <1>1, <2>1, <2>2
<1>17. IV!ConstRvaluesAreSound'
  <2>1. \A n : IV!Note("const-rvalue", n) \in reports' => IV!Note("const-rvalue", n) \in reports
    BY <1>6, <1>7, <1>10 DEF IV!Note
  <2> QED
    BY <1>1, <2>1 DEF IVInv, IV!ConstRvaluesAreSound
<1>18. m_last_const_cast' \in IV!Nodes \cup {IV!Null}
  BY <1>1, <1>3 DEF IV!TypeOK
<1> QED
  BY <1>2, <1>13, <1>14, <1>15, <1>16, <1>17 DEF IVInv

LEMMA IVInit ==
  ASSUME IV!Init
  PROVE  IVInv
<1>1. /\ open = <<>> /\ next = 1 /\ m_params_stack = <<>> /\ m_last_const_cast = IV!Null
      /\ undefined = FALSE /\ reports = {} /\ params = {} /\ moves = {}
  BY DEF IV!Init, IV!TraversalInit
<1>2. /\ Len(open) = 0 /\ Len(m_params_stack) = 0 /\ 1 \in 1..(MaxNodes + 1)
      /\ open \in Seq([id : IV!Nodes, kind : IV!Kinds]) /\ m_params_stack \in Seq(IVFunc)
  BY <1>1, TraversalAssumption
<1>3. IV!TypeOK
  <2>1. \A i \in 1..Len(m_params_stack) : FALSE
    BY <1>2
  <2> QED
    BY <1>1, <1>2, <2>1 DEF IV!TypeOK, IV!TraversalTypeOK
<1>4. OpenIsOrdered /\ IVStackIsComplete
  BY <1>2 DEF OpenIsOrdered, IVStackIsComplete
<1>5. IVParamsAreKnown /\ IV!LastCastIsInnermost
  BY <1>1 DEF IVParamsAreKnown, IV!LastCastIsInnermost
<1>6. IV!OwnMovesAreExact /\ IV!ConstRvaluesAreSound
  BY <1>1 DEF IV!OwnMovesAreExact, IV!ConstRvaluesAreSound
<1> QED
  BY <1>3, <1>4, <1>5, <1>6 DEF IVInv

LEMMA IVNext ==
  ASSUME IVInv, IV!Next
  PROVE  IVInv'
BY IVEnterFunction, IVEnterUnknown, IVEnterCall, IVEnterCast, IVLeave, IVVisitMove,
   IVVisitMoveOfTemporary DEF IV!Next

LEMMA IVStutter ==
  ASSUME IVInv, UNCHANGED IV!vars
  PROVE  IVInv'
<1>1. UNCHANGED <<open, next, m_params_stack, m_last_const_cast, undefined, reports, params, moves>>
  BY DEF IV!vars
<1>2. IV!TraversalTypeOK(IV!Kinds)' /\ OpenIsOrdered' /\ IV!LastCastIsInnermost'
  BY <1>1 DEF IVInv, IV!TypeOK, IV!TraversalTypeOK, OpenIsOrdered, IV!LastCastIsInnermost
<1>3. m_last_const_cast' \in IV!Nodes \cup {IV!Null}
  BY <1>1 DEF IVInv, IV!TypeOK
<1> QED
  BY <1>1, <1>2, <1>3, IVSilent

-----------------------------------------------------------------------------
(* Bytes. *)
LEMMA Modulo ==
  ASSUME NEW b \in Nat \ {0}, NEW a \in Nat
  PROVE  a % b \in 0..(b - 1) /\ (a < b => a % b = a)
OBVIOUS

-----------------------------------------------------------------------------
(* ForRangeConstVisitor: the indices of the parameters that are not          *)
(* templated, and what an instance makes of them.                            *)

(* What NonTemplated and not_templated define, up to the n-th parameter.     *)
FRAt(signature) ==
  CHOOSE at :
    at = [n \in 0..Len(signature) |->
            IF n = 0 THEN <<>>
            ELSE IF signature[n].templated THEN at[n - 1]
            ELSE Append(at[n - 1], (n - 1) % IndexValues)]

FRIdx(line, count) ==
  CHOOSE expected_idx :
    expected_idx =
      [n \in 0..count |->
         IF n = 0 THEN 0
         ELSE LET idx == expected_idx[n - 1]
              IN  IF idx < Len(line) /\ line[idx + 1] = (n - 1) % IndexValues
                    THEN (idx + 1) % IndexValues ELSE idx]

LEMMA FRAtIs ==
  ASSUME NEW signature \in ConstSignatures
  PROVE  /\ Len(signature) \in Nat /\ signature \in Seq(FR!Parm)
         /\ FR!NonTemplated(signature) = FRAt(signature)[Len(signature)]
         /\ FRAt(signature) \in [0..Len(signature) -> Seq(0..(IndexValues - 1))]
         /\ FRAt(signature)[0] = <<>>
         /\ \A n \in 1..Len(signature) :
              FRAt(signature)[n] =
                IF signature[n].templated THEN FRAt(signature)[n - 1]
                ELSE Append(FRAt(signature)[n - 1], (n - 1) % IndexValues)
<1> DEFINE L == Len(signature)
           I == 0..(IndexValues - 1)
           S == Seq(I)
           E(at) == [n \in 0..L |->
                       IF n = 0 THEN <<>>
                       ELSE IF signature[n].templated THEN at[n - 1]
                       ELSE Append(at[n - 1], (n - 1) % IndexValues)]
           step == [p \in (1..L) \X S |->
                      IF signature[p[1]].templated THEN p[2]
                      ELSE Append(p[2], (p[1] - 1) % IndexValues)]
<1>1. signature \in Seq(FR!Parm) /\ L \in Nat /\ IndexValues \in Nat \ {0, 1}
  BY FunctionsAssumption DEF FR!ForRangeConstAssumption
<1>2. FR!NonTemplated(signature) = FRAt(signature)[L]
  BY DEF FR!NonTemplated, FRAt
<1>3. <<>> \in S
  OBVIOUS
<1>4. \A n \in 1..L : (n - 1) % IndexValues \in I
  <2> SUFFICES ASSUME NEW n \in 1..L PROVE (n - 1) % IndexValues \in I
    OBVIOUS
  <2>1. n - 1 \in Nat
    BY <1>1
  <2> QED
    BY <1>1, <2>1, Modulo
<1> HIDE DEF I
<1>5. step \in [(1..L) \X S -> S]
  <2> SUFFICES ASSUME NEW p \in (1..L) \X S
               PROVE  (IF signature[p[1]].templated THEN p[2]
                       ELSE Append(p[2], (p[1] - 1) % IndexValues)) \in S
    OBVIOUS
  <2>1. p[1] \in 1..L /\ p[2] \in S
    OBVIOUS
  <2>2. Append(p[2], (p[1] - 1) % IndexValues) \in S
    BY <1>4, <2>1, PushBack
  <2> QED
    BY <2>1, <2>2
<1>6. \A n \in 1..L, x \in S :
        step[<<n, x>>] = IF signature[n].templated THEN x
                         ELSE Append(x, (n - 1) % IndexValues)
  OBVIOUS
<1> HIDE DEF L, S, step
<1>7. PICK f :
        /\ f \in [0..L -> S] /\ f[0] = <<>>
        /\ \A n \in 1..L : f[n] = step[<<n, f[n - 1]>>]
  <2>1. \E f : IsRecursive(f, L, S, <<>>, step)
    BY <1>1, <1>3, <1>5, Recursion, Zenon
  <2> QED
    BY <2>1 DEF IsRecursive
<1>8. \A n \in 0..L : n = 0 \/ (n \in 1..L /\ n - 1 \in 0..L)
  BY <1>1
<1>9. \A n \in 0..L : f[n] = IF n = 0 THEN <<>>
                             ELSE IF signature[n].templated THEN f[n - 1]
                             ELSE Append(f[n - 1], (n - 1) % IndexValues)
  BY <1>6, <1>7, <1>8
<1>10. f = E(f)
  BY <1>7, <1>9
<1> DEFINE at == FRAt(signature)
<1>11. at = CHOOSE g : g = E(g)
  BY DEF FRAt, L
<1>12. at = E(at)
  BY <1>10, <1>11
<1> HIDE DEF at
<1>13. /\ at[0] = <<>>
       /\ \A n \in 1..L : at[n] = IF signature[n].templated THEN at[n - 1]
                                  ELSE Append(at[n - 1], (n - 1) % IndexValues)
  <2>1. \A n \in 0..L : at[n] = E(at)[n]
    BY <1>12
  <2>2. 0 \in 0..L /\ \A n \in 1..L : n \in 0..L /\ n # 0
    BY <1>1
  <2>3. at[0] = <<>>
    BY <2>1, <2>2
  <2>4. ASSUME NEW n \in 1..L
        PROVE  at[n] = IF signature[n].templated THEN at[n - 1]
                       ELSE Append(at[n - 1], (n - 1) % IndexValues)
    BY <2>1, <2>2
  <2> QED
    BY <2>3, <2>4
<1>14. at \in [0..L -> S]
  <2> DEFINE T == {n \in 0..L : at[n] \in S}
  <2>1. 0 \in T
    BY <1>1, <1>3, <1>13
  <2>2. ASSUME NEW n \in 1..L, n - 1 \in T
        PROVE  n \in T
    <3>1. at[n - 1] \in S /\ n \in 0..L
      BY <1>1, <2>2
    <3>2. Append(at[n - 1], (n - 1) % IndexValues) \in S
      BY <1>4, <3>1, PushBack DEF S
    <3> QED
      BY <1>13, <3>1, <3>2
  <2> HIDE DEF T
  <2>3. \A n \in 0..L : n \in T
    BY <1>1, <2>1, <2>2, Induct
  <2>4. \A n \in 0..L : at[n] \in S
    BY <2>3 DEF T
  <2>5. \A n \in 0..L : E(at)[n] = at[n]
    BY <1>12
  <2>6. at = [n \in 0..L |-> at[n]]
    BY <1>12
  <2> QED
    BY <2>4, <2>6
<1> QED
  BY <1>1, <1>2, <1>13, <1>14 DEF L, S, I, at

LEMMA FRIdxIs ==
  ASSUME NEW line, NEW count \in Nat
  PROVE  /\ FR!not_templated(line, count) =
              {n \in 1..count : FRIdx(line, count)[n] # FRIdx(line, count)[n - 1]}
         /\ FRIdx(line, count)[0] = 0
         /\ \A n \in 1..count :
              FRIdx(line, count)[n] =
                LET idx == FRIdx(line, count)[n - 1]
                IN  IF idx < Len(line) /\ line[idx + 1] = (n - 1) % IndexValues
                      THEN (idx + 1) % IndexValues ELSE idx
<1> DEFINE E(at) == [n \in 0..count |->
                       IF n = 0 THEN 0
                       ELSE LET idx == at[n - 1]
                            IN  IF idx < Len(line) /\ line[idx + 1] = (n - 1) % IndexValues
                                  THEN (idx + 1) % IndexValues ELSE idx]
           step == [p \in (1..count) \X Nat |->
                      IF p[2] < Len(line) /\ line[p[2] + 1] = (p[1] - 1) % IndexValues
                        THEN (p[2] + 1) % IndexValues ELSE p[2]]
<1>1. IndexValues \in Nat \ {0, 1}
  BY FunctionsAssumption DEF FR!ForRangeConstAssumption
<1>2. FR!not_templated(line, count) =
        {n \in 1..count : FRIdx(line, count)[n] # FRIdx(line, count)[n - 1]}
  BY DEF FR!not_templated, FRIdx
<1>3. step \in [(1..count) \X Nat -> Nat]
  <2> SUFFICES ASSUME NEW p \in (1..count) \X Nat
               PROVE  (IF p[2] < Len(line) /\ line[p[2] + 1] = (p[1] - 1) % IndexValues
                         THEN (p[2] + 1) % IndexValues ELSE p[2]) \in Nat
    OBVIOUS
  <2>1. p[2] \in Nat /\ p[2] + 1 \in Nat
    OBVIOUS
  <2>2. (p[2] + 1) % IndexValues \in 0..(IndexValues - 1)
    BY <1>1, <2>1, Modulo
  <2>3. 0..(IndexValues - 1) \subseteq Nat
    OBVIOUS
  <2> QED
    BY <2>1, <2>2, <2>3
<1>4. \A n \in 1..count, x \in Nat :
        step[<<n, x>>] = IF x < Len(line) /\ line[x + 1] = (n - 1) % IndexValues
                           THEN (x + 1) % IndexValues ELSE x
  OBVIOUS
<1> HIDE DEF step
<1>5. PICK f :
        /\ f \in [0..count -> Nat] /\ f[0] = 0
        /\ \A n \in 1..count : f[n] = step[<<n, f[n - 1]>>]
  <2>1. 0 \in Nat
    OBVIOUS
  <2>2. \E f : IsRecursive(f, count, Nat, 0, step)
    BY <1>3, <2>1, Recursion, Zenon
  <2> QED
    BY <2>2 DEF IsRecursive
<1>6. \A n \in 0..count : n = 0 \/ (n \in 1..count /\ n - 1 \in 0..count)
  OBVIOUS
<1>7. ASSUME NEW n \in 0..count
      PROVE  f[n] = IF n = 0 THEN 0
                    ELSE LET idx == f[n - 1]
                         IN  IF idx < Len(line) /\ line[idx + 1] = (n - 1) % IndexValues
                               THEN (idx + 1) % IndexValues ELSE idx
  <2>1. CASE n = 0
    BY <1>5, <2>1
  <2>2. CASE n # 0
    <3>1. n \in 1..count /\ f[n - 1] \in Nat
      BY <1>5, <1>6, <2>2
    <3>2. f[n] = step[<<n, f[n - 1]>>]
      BY <1>5, <2>2
    <3> QED
      BY <1>4, <2>2, <3>1, <3>2
  <2> QED
    BY <2>1, <2>2
<1>8. f = E(f)
  <2>1. f = [n \in 0..count |-> f[n]]
    BY <1>5
  <2>2. [n \in 0..count |-> f[n]] =
        [n \in 0..count |-> IF n = 0 THEN 0
                            ELSE LET idx == f[n - 1]
                                 IN  IF idx < Len(line) /\ line[idx + 1] = (n - 1) % IndexValues
                                       THEN (idx + 1) % IndexValues ELSE idx]
    BY <1>7
  <2> QED
    BY <2>1, <2>2
<1> DEFINE at == FRIdx(line, count)
<1>9. at = CHOOSE g : g = E(g)
  BY DEF FRIdx
<1>10. at = E(at)
  <2> HIDE DEF E, at
  <2> QED
    BY <1>8, <1>9
<1> HIDE DEF at
<1>11. \A n \in 0..count : at[n] = E(at)[n]
  BY <1>10
<1>12. 0 \in 0..count /\ \A n \in 1..count : n \in 0..count /\ n # 0
  OBVIOUS
<1>13. at[0] = 0
  BY <1>11, <1>12
<1>14. ASSUME NEW n \in 1..count
       PROVE  at[n] = LET idx == at[n - 1]
                      IN  IF idx < Len(line) /\ line[idx + 1] = (n - 1) % IndexValues
                            THEN (idx + 1) % IndexValues ELSE idx
  BY <1>11, <1>12
<1> QED
  BY <1>2, <1>13, <1>14 DEF at

LEMMA FRNonTemplatedType ==
  ASSUME NEW signature \in ConstSignatures
  PROVE  FR!NonTemplated(signature) \in Seq(0..(IndexValues - 1))
<1>1. Len(signature) \in 0..Len(signature)
  BY FRAtIs
<1> QED
  BY <1>1, FRAtIs

(* A function that has no more parameters than there are indices. *)
FRIsShort(signature) == Len(signature) <= IndexValues

(* The instance of a template takes those of its parameters for not          *)
(* templated that the template counted.                                      *)
LEMMA FRRoundTrip ==
  ASSUME NEW signature \in ConstSignatures, FRIsShort(signature)
  PROVE  FR!not_templated(FR!NonTemplated(signature), Len(signature)) =
           {n \in 1..Len(signature) : ~signature[n].templated}
<1> DEFINE L == Len(signature)
           at == FRAt(signature)
           line == at[L]
           idx == FRIdx(line, L)
           I == 0..(IndexValues - 1)
<1>1. L \in Nat /\ L <= IndexValues /\ IndexValues \in Nat \ {0, 1}
  BY FRAtIs, FunctionsAssumption DEF FR!ForRangeConstAssumption, FRIsShort
<1>2. FR!NonTemplated(signature) = line
  BY FRAtIs
<1>3. at[0] = <<>> /\ \A n \in 0..L : at[n] \in Seq(I)
  BY FRAtIs
<1>4. \A n \in 1..L : at[n] = IF signature[n].templated THEN at[n - 1]
                              ELSE Append(at[n - 1], n - 1)
  <2> SUFFICES ASSUME NEW n \in 1..L
               PROVE  at[n] = IF signature[n].templated THEN at[n - 1]
                              ELSE Append(at[n - 1], n - 1)
    OBVIOUS
  <2>1. n - 1 \in Nat /\ n - 1 < IndexValues
    BY <1>1
  <2>2. (n - 1) % IndexValues = n - 1
    BY <1>1, <2>1, Modulo
  <2> QED
    BY <2>2, FRAtIs
<1>5. /\ FR!not_templated(line, L) = {n \in 1..L : idx[n] # idx[n - 1]}
      /\ idx[0] = 0
      /\ \A n \in 1..L :
           idx[n] = LET i == idx[n - 1]
                    IN  IF i < Len(line) /\ line[i + 1] = (n - 1) % IndexValues
                          THEN (i + 1) % IndexValues ELSE i
  BY <1>1, FRIdxIs
<1> HIDE DEF at, idx, L
<1>6. \A n \in 1..L : n \in 0..L /\ n - 1 \in 0..L /\ n - 1 \in I
  BY <1>1
<1>7. \A n \in 0..L : Len(at[n]) \in Nat
  BY <1>3
<1>8. ASSUME NEW n \in 1..L, signature[n].templated
      PROVE  at[n] = at[n - 1]
  BY <1>4, <1>8
<1>9. ASSUME NEW n \in 1..L, ~signature[n].templated
      PROVE  /\ Len(at[n]) = Len(at[n - 1]) + 1
             /\ at[n][Len(at[n])] = n - 1
             /\ \A i \in 1..Len(at[n - 1]) : at[n][i] = at[n - 1][i]
  <2>1. at[n] = Append(at[n - 1], n - 1) /\ at[n - 1] \in Seq(I) /\ n - 1 \in I
    BY <1>3, <1>4, <1>6, <1>9
  <2> HIDE DEF I
  <2> QED
    BY <2>1, PushBack
<1>10. \A n \in 0..L : Len(at[n]) <= n
  <2> DEFINE T == {n \in 0..L : Len(at[n]) <= n}
  <2>1. 0 \in T
    BY <1>1, <1>3
  <2>2. ASSUME NEW n \in 1..L, n - 1 \in T
        PROVE  n \in T
    BY <1>6, <1>7, <1>8, <1>9, <2>2
  <2> HIDE DEF T
  <2>3. \A n \in 0..L : n \in T
    BY <1>1, <2>1, <2>2, Induct
  <2> QED
    BY <2>3 DEF T
<1> DEFINE Pre(n, m) ==
             /\ Len(at[n]) <= Len(at[m])
             /\ \A i \in 1..Len(at[n]) : at[m][i] = at[n][i]
             /\ \A i \in (Len(at[n]) + 1)..Len(at[m]) : at[m][i] >= n
<1>11. \A m \in 0..L : \A n \in 0..m : Pre(n, m)
  <2> DEFINE T == {m \in 0..L : \A n \in 0..m : Pre(n, m)}
  <2>0. \A n \in 0..L : Pre(n, n)
    BY <1>7
  <2>1. 0 \in T
    BY <1>1, <2>0
  <2>2. ASSUME NEW m \in 1..L, m - 1 \in T
        PROVE  m \in T
    <3>1. m \in 0..L /\ m - 1 \in 0..L
      BY <1>6
    <3> SUFFICES ASSUME NEW n \in 0..m PROVE Pre(n, m)
      BY <3>1
    <3>2. CASE n = m
      BY <2>0, <3>1, <3>2
    <3>3. CASE n # m
      <4>1. n \in 0..(m - 1) /\ n \in 0..L /\ n <= m - 1
        BY <1>1, <3>3
      <4>2. Pre(n, m - 1)
        BY <2>2, <4>1
      <4>3. Len(at[n]) \in Nat /\ Len(at[m - 1]) \in Nat /\ Len(at[m]) \in Nat
        BY <1>7, <3>1, <4>1
      <4>4. CASE signature[m].templated
        BY <1>8, <4>2, <4>4
      <4>5. CASE ~signature[m].templated
        <5>1. /\ Len(at[m]) = Len(at[m - 1]) + 1
              /\ at[m][Len(at[m])] = m - 1
              /\ \A i \in 1..Len(at[m - 1]) : at[m][i] = at[m - 1][i]
          BY <1>9, <4>5
        <5>2. Len(at[n]) <= Len(at[m])
          BY <4>2, <4>3, <5>1
        <5>3. \A i \in 1..Len(at[n]) : at[m][i] = at[n][i]
          BY <4>2, <4>3, <5>1
        <5>4. ASSUME NEW i \in (Len(at[n]) + 1)..Len(at[m])
              PROVE  at[m][i] >= n
          <6>1. CASE i = Len(at[m])
            BY <4>1, <5>1, <6>1
          <6>2. CASE i # Len(at[m])
            <7>1. i \in (Len(at[n]) + 1)..Len(at[m - 1]) /\ i \in 1..Len(at[m - 1])
              BY <4>3, <5>1, <6>2
            <7> QED
              BY <4>2, <5>1, <7>1
          <6> QED
            BY <6>1, <6>2
        <5> QED
          BY <5>2, <5>3, <5>4
      <4> QED
        BY <4>4, <4>5
    <3> QED
      BY <3>2, <3>3
  <2> HIDE DEF T
  <2>3. \A m \in 0..L : m \in T
    BY <1>1, <2>1, <2>2, Induct
  <2> QED
    BY <2>3 DEF T
<1>12. ASSUME NEW n \in 0..L PROVE Pre(n, L)
  <2>1. L \in 0..L
    BY <1>1
  <2> QED
    BY <1>11, <2>1
<1>13. ASSUME NEW n \in 1..L, idx[n - 1] = Len(at[n - 1])
       PROVE  /\ idx[n] = IF Len(at[n]) = IndexValues THEN 0 ELSE Len(at[n])
              /\ idx[n] # idx[n - 1] <=> ~signature[n].templated
  <2>1. n \in 0..L /\ n - 1 \in 0..L
    BY <1>6
  <2>2. Len(at[n - 1]) \in Nat /\ Len(at[n]) \in Nat /\ Len(line) \in Nat
    <3>1. L \in 0..L
      BY <1>1
    <3> QED
      BY <1>7, <2>1, <3>1
  <2>3. idx[n] = IF idx[n - 1] < Len(line) /\ line[idx[n - 1] + 1] = n - 1
                   THEN (idx[n - 1] + 1) % IndexValues ELSE idx[n - 1]
    <3>1. n - 1 \in Nat /\ n - 1 < IndexValues
      BY <1>1
    <3>2. (n - 1) % IndexValues = n - 1
      BY <1>1, <3>1, Modulo
    <3> QED
      BY <1>5, <3>2
  <2>4. CASE ~signature[n].templated
    <3>1. Len(at[n]) = Len(at[n - 1]) + 1 /\ at[n][Len(at[n])] = n - 1
      BY <1>9, <2>4
    <3>2. Pre(n, L)
      BY <1>12, <2>1
    <3>3. Len(at[n]) \in 1..Len(at[n])
      BY <2>2, <3>1
    <3>4. idx[n - 1] < Len(line) /\ line[idx[n - 1] + 1] = n - 1
      BY <1>13, <2>2, <3>1, <3>2, <3>3
    <3>5. Len(at[n]) \in Nat /\ Len(at[n]) <= IndexValues
      BY <1>1, <1>10, <2>1, <2>2
    <3>6. Len(at[n]) % IndexValues = IF Len(at[n]) = IndexValues THEN 0 ELSE Len(at[n])
      <4>1. IndexValues % IndexValues = 0
        BY <1>1
      <4>2. CASE Len(at[n]) = IndexValues
        BY <4>1, <4>2
      <4>3. CASE Len(at[n]) # IndexValues
        <5>1. Len(at[n]) < IndexValues
          BY <1>1, <3>5, <4>3
        <5> QED
          BY <1>1, <3>5, <4>3, <5>1, Modulo
      <4> QED
        BY <4>2, <4>3
    <3>7. idx[n] = Len(at[n]) % IndexValues
      BY <1>13, <2>2, <2>3, <3>1, <3>4
    <3>8. idx[n] = IF Len(at[n]) = IndexValues THEN 0 ELSE Len(at[n])
      BY <3>6, <3>7
    <3>9. idx[n] # idx[n - 1]
      BY <1>1, <1>13, <2>2, <3>1, <3>8
    <3> QED
      BY <2>4, <3>8, <3>9
  <2>5. CASE signature[n].templated
    <3>1. at[n] = at[n - 1]
      BY <1>8, <2>5
    <3>2. Pre(n, L)
      BY <1>12, <2>1
    <3>3. ASSUME idx[n - 1] < Len(line) PROVE line[idx[n - 1] + 1] # n - 1
      <4>1. Len(at[n]) + 1 \in (Len(at[n]) + 1)..Len(line)
        BY <1>13, <2>2, <3>1, <3>3
      <4>2. line[Len(at[n]) + 1] >= n
        BY <3>2, <4>1
      <4> QED
        BY <1>1, <1>13, <3>1, <4>2
    <3>4. Len(at[n - 1]) # IndexValues
      <4>1. Len(at[n - 1]) <= n - 1
        BY <1>10, <2>1
      <4> QED
        BY <1>1, <2>2, <4>1
    <3> QED
      BY <1>13, <2>3, <2>5, <3>1, <3>3, <3>4
  <2> QED
    BY <2>4, <2>5
<1>14. \A n \in 0..L : n = IndexValues \/ idx[n] = Len(at[n])
  <2> DEFINE T == {n \in 0..L : n = IndexValues \/ idx[n] = Len(at[n])}
  <2>1. 0 \in T
    BY <1>1, <1>3, <1>5
  <2>2. ASSUME NEW n \in 1..L, n - 1 \in T
        PROVE  n \in T
    <3>1. n \in 0..L /\ n - 1 \in 0..L /\ n - 1 # IndexValues
      BY <1>1, <1>6
    <3>2. idx[n - 1] = Len(at[n - 1])
      BY <2>2, <3>1
    <3>3. Len(at[n]) \in Nat /\ Len(at[n]) <= n
      BY <1>7, <1>10, <3>1
    <3>4. n = IndexValues \/ Len(at[n]) # IndexValues
      BY <1>1, <3>3
    <3> QED
      BY <1>13, <3>1, <3>2, <3>4
  <2> HIDE DEF T
  <2>3. \A n \in 0..L : n \in T
    BY <1>1, <2>1, <2>2, Induct
  <2> QED
    BY <2>3 DEF T
<1>15. ASSUME NEW n \in 1..L
       PROVE  idx[n] # idx[n - 1] <=> ~signature[n].templated
  <2>1. n - 1 \in 0..L /\ n - 1 # IndexValues
    BY <1>1, <1>6
  <2> QED
    BY <1>13, <1>14, <2>1
<1>16. FR!not_templated(line, L) = {n \in 1..L : ~signature[n].templated}
  BY <1>5, <1>15
<1> QED
  BY <1>2, <1>16 DEF L


-----------------------------------------------------------------------------
(* ForRangeConstVisitor: the uses that are made to be seen are found.        *)

LEMMA FRSkip ==
  ASSUME NEW path, Len(path) \in Nat
  PROVE  /\ FR!SkipParens(path, Len(path) + 1) = Len(path) + 1
         /\ \A i \in 1..Len(path) :
              /\ path[i] # "paren" => FR!SkipParens(path, i) = i
              /\ path[i] = "paren" => FR!SkipParens(path, i) = FR!SkipParens(path, i + 1)
<1> DEFINE L == Len(path)
           others(i) == {j \in i..L : path[j] # "paren"}
<1>1. FR!SkipParens(path, L + 1) = L + 1
  <2>1. others(L + 1) = {}
    OBVIOUS
  <2> QED
    BY <2>1 DEF FR!SkipParens
<1>2. ASSUME NEW i \in 1..L, path[i] # "paren"
      PROVE  FR!SkipParens(path, i) = i
  <2>1. i \in others(i) /\ \A j \in others(i) : i <= j /\ j \in Nat
    BY <1>2
  <2>2. FR!SkipParens(path, i) = CHOOSE j \in others(i) : \A k \in others(i) : j <= k
    BY <2>1 DEF FR!SkipParens
  <2> HIDE DEF others
  <2>3. /\ FR!SkipParens(path, i) \in others(i)
        /\ \A k \in others(i) : FR!SkipParens(path, i) <= k
    BY <2>1, <2>2
  <2> QED
    BY <2>1, <2>3
<1>3. ASSUME NEW i \in 1..L, path[i] = "paren"
      PROVE  FR!SkipParens(path, i) = FR!SkipParens(path, i + 1)
  <2>1. others(i) = others(i + 1)
    BY <1>3
  <2> DEFINE first(S) == IF S = {} THEN L + 1 ELSE CHOOSE j \in S : \A k \in S : j <= k
  <2>2. FR!SkipParens(path, i) = first(others(i))
    BY DEF FR!SkipParens
  <2>3. FR!SkipParens(path, i + 1) = first(others(i + 1))
    BY DEF FR!SkipParens
  <2> HIDE DEF others, first
  <2> QED
    BY <2>1, <2>2, <2>3
<1> QED
  BY <1>1, <1>2, <1>3

(* What Finds defines, from the i-th expression on.                          *)
FRFrom(path) ==
  CHOOSE from :
    from = [i \in 1..(Len(path) + 1) |->
              LET j == FR!SkipParens(path, i)
              IN  /\ FR!IsConsidered(path, j)
                  /\ \/ FR!Extracts(SubSeq(path, j, Len(path)))
                     \/ path[j] \in FR!Calls /\ from[j + 1]]

LEMMA FRFromIs ==
  ASSUME NEW path \in Seq(FR!Step)
  PROVE  /\ FR!Finds(path) = FRFrom(path)[1]
         /\ FRFrom(path)[Len(path) + 1]
         /\ \A i \in 1..Len(path) :
              IF path[i] = "paren" THEN FRFrom(path)[i] = FRFrom(path)[i + 1]
              ELSE FRFrom(path)[i] <=>
                     /\ FR!IsConsidered(path, i)
                     /\ \/ FR!Extracts(SubSeq(path, i, Len(path)))
                        \/ path[i] \in FR!Calls /\ FRFrom(path)[i + 1]
<1> DEFINE L == Len(path)
           D == 1..(L + 1)
           C(i, b) == /\ FR!IsConsidered(path, i)
                      /\ \/ FR!Extracts(SubSeq(path, i, L))
                         \/ path[i] \in FR!Calls /\ b
           E(from) == [i \in D |-> C(FR!SkipParens(path, i), from[FR!SkipParens(path, i) + 1])]
           step == [p \in (1..L) \X BOOLEAN |->
                      IF path[L + 1 - p[1]] = "paren" THEN p[2] ELSE C(L + 1 - p[1], p[2])]
<1>1. L \in Nat
  OBVIOUS
<1>2. FR!Finds(path) = FRFrom(path)[1]
  BY DEF FR!Finds, FRFrom
<1>3. FRFrom(path) = CHOOSE from : from = E(from)
  BY DEF FRFrom
<1>4. \A b : C(L + 1, b) = TRUE
  <2>1. SubSeq(path, L + 1, L) = <<>>
    BY <1>1
  <2> QED
    BY <1>1, <2>1 DEF FR!IsConsidered, FR!Extracts
<1>5. \A i, b : C(i, b) \in BOOLEAN
  OBVIOUS
<1> HIDE DEF C
<1>6. step \in [(1..L) \X BOOLEAN -> BOOLEAN]
  BY <1>5
<1>7. \A n \in 1..L, b \in BOOLEAN :
        step[<<n, b>>] = IF path[L + 1 - n] = "paren" THEN b ELSE C(L + 1 - n, b)
  OBVIOUS
<1> HIDE DEF step
<1>8. PICK f : /\ f \in [0..L -> BOOLEAN] /\ f[0] = TRUE
               /\ \A n \in 1..L : f[n] = step[<<n, f[n - 1]>>]
  <2>1. \E f : IsRecursive(f, L, BOOLEAN, TRUE, step)
    BY <1>1, <1>6, Recursion, Zenon
  <2> QED
    BY <2>1 DEF IsRecursive
<1> DEFINE g == [i \in D |-> f[L + 1 - i]]
<1>9. \A i \in D : g[i] = f[L + 1 - i] /\ L + 1 - i \in 0..L
  BY <1>1
<1>10. g[L + 1] = TRUE
  BY <1>1, <1>8, <1>9
<1>11. ASSUME NEW i \in 1..L
       PROVE  g[i] = IF path[i] = "paren" THEN g[i + 1] ELSE C(i, g[i + 1])
  <2>1. i \in D /\ i + 1 \in D /\ L + 1 - i \in 1..L /\ (L + 1 - i) - 1 = L + 1 - (i + 1)
        /\ L + 1 - (L + 1 - i) = i
    BY <1>1
  <2> HIDE DEF L, D
  <2>2. f[L + 1 - (i + 1)] \in BOOLEAN
    BY <1>8, <1>9, <2>1
  <2>3. f[L + 1 - i] = step[<<L + 1 - i, f[L + 1 - (i + 1)]>>]
    BY <1>8, <2>1
  <2> QED
    BY <1>7, <1>9, <2>1, <2>2, <2>3
<1> DEFINE R(h, i) == C(FR!SkipParens(path, i), h[FR!SkipParens(path, i) + 1])
<1>12. \A h : R(h, L + 1) = TRUE
  BY <1>1, <1>4, FRSkip
<1>13. ASSUME NEW h, NEW i \in 1..L
       PROVE  R(h, i) = IF path[i] = "paren" THEN R(h, i + 1) ELSE C(i, h[i + 1])
  <2>1. CASE path[i] = "paren"
    <3>1. FR!SkipParens(path, i) = FR!SkipParens(path, i + 1)
      BY <1>1, <2>1, FRSkip
    <3> QED
      BY <2>1, <3>1
  <2>2. CASE path[i] # "paren"
    <3>1. FR!SkipParens(path, i) = i
      BY <1>1, <2>2, FRSkip
    <3> QED
      BY <2>2, <3>1
  <2> QED
    BY <2>1, <2>2
<1> HIDE DEF g, R
<1>14. \A i \in D : g[i] = R(g, i)
  <2> DEFINE T == {n \in 0..L : g[L + 1 - n] = R(g, L + 1 - n)}
  <2>1. 0 \in T
    <3>1. 0 \in 0..L /\ L + 1 - 0 = L + 1
      BY <1>1
    <3>2. g[L + 1] = R(g, L + 1)
      BY <1>10, <1>12
    <3> QED
      BY <3>1, <3>2
  <2>2. ASSUME NEW n \in 1..L, n - 1 \in T
        PROVE  n \in T
    <3>1. L + 1 - n \in 1..L /\ L + 1 - (n - 1) = (L + 1 - n) + 1 /\ n \in 0..L
      BY <1>1
    <3>2. g[(L + 1 - n) + 1] = R(g, (L + 1 - n) + 1)
      BY <2>2, <3>1
    <3>3. g[L + 1 - n] = R(g, L + 1 - n)
      BY <1>11, <1>13, <3>1, <3>2
    <3> QED
      BY <3>1, <3>3
  <2> HIDE DEF T
  <2>3. \A n \in 0..L : n \in T
    BY <1>1, <2>1, <2>2, Induct
  <2>4. \A i \in D : L + 1 - i \in 0..L /\ L + 1 - (L + 1 - i) = i
    BY <1>1
  <2> QED
    BY <2>3, <2>4 DEF T
<1>15. g = E(g)
  <2>1. g = [i \in D |-> g[i]]
    BY DEF g
  <2>2. \A i \in D : g[i] = C(FR!SkipParens(path, i), g[FR!SkipParens(path, i) + 1])
    BY <1>14 DEF R
  <2> HIDE DEF D
  <2> QED
    BY <2>1, <2>2
<1> DEFINE h == FRFrom(path)
<1>16. h = E(h)
  BY <1>3, <1>15
<1> HIDE DEF h
<1>17. \A i \in D : h[i] = R(h, i)
  BY <1>16 DEF R
<1>18. L + 1 \in D /\ \A i \in 1..L : i \in D /\ i + 1 \in D
  BY <1>1
<1>19. h[L + 1] = TRUE
  BY <1>12, <1>17, <1>18
<1>20. ASSUME NEW i \in 1..L
       PROVE  h[i] = IF path[i] = "paren" THEN h[i + 1] ELSE C(i, h[i + 1])
  BY <1>13, <1>17, <1>18
<1> QED
  BY <1>2, <1>19, <1>20 DEF h, C

LEMMA FRFindsSeen ==
  ASSUME NEW path \in Seq(FR!Step), FR!IsSeen(path)
  PROVE  FR!Finds(path)
<1> DEFINE L == Len(path)
           from == FRFrom(path)
<1>1. PICK k \in 0..L :
        /\ \A i \in 1..k : path[i] \in FR!Calls \cup {"paren"}
        /\ FR!IsPlain(SubSeq(path, k + 1, L))
        /\ SubSeq(path, k + 1, L) # <<>> => SubSeq(path, k + 1, L)[1] # "element"
  BY DEF FR!IsSeen
<1>2. L \in Nat
  OBVIOUS
<1>3. from[L + 1]
  BY FRFromIs
<1>4. ASSUME NEW i \in 1..L
      PROVE  IF path[i] = "paren" THEN from[i] = from[i + 1]
             ELSE from[i] <=> /\ FR!IsConsidered(path, i)
                              /\ \/ FR!Extracts(SubSeq(path, i, L))
                                 \/ path[i] \in FR!Calls /\ from[i + 1]
  BY FRFromIs
<1> HIDE DEF from
<1>5. from[k + 1]
  <2>1. CASE k = L
    BY <1>3, <2>1
  <2>2. CASE k # L
    <3>1. k + 1 \in 1..L
      BY <1>2, <2>2
    <3>2. Len(SubSeq(path, k + 1, L)) = L - k /\ SubSeq(path, k + 1, L)[1] = path[k + 1]
      BY <1>2, <3>1
    <3>3. 1 \in 1..Len(SubSeq(path, k + 1, L)) /\ SubSeq(path, k + 1, L) # <<>>
      BY <1>2, <3>1, <3>2
    <3>4. path[k + 1] \in {"reference", "member"}
      BY <1>1, <3>2, <3>3 DEF FR!IsPlain
    <3>5. FR!IsConsidered(path, k + 1)
      BY <3>4 DEF FR!IsConsidered
    <3>6. FR!Extracts(SubSeq(path, k + 1, L))
      BY <1>1 DEF FR!IsPlain, FR!Extracts
    <3>7. path[k + 1] # "paren"
      BY <3>4
    <3> QED
      BY <1>4, <3>1, <3>5, <3>6, <3>7
  <2> QED
    BY <2>1, <2>2
<1>6. ASSUME NEW i \in 1..k, from[i + 1]
      PROVE  from[i]
  <2>1. i \in 1..L
    BY <1>2
  <2>2. CASE path[i] = "paren"
    BY <1>4, <1>6, <2>1, <2>2
  <2>3. CASE path[i] # "paren"
    <3>1. path[i] \in FR!Calls
      BY <1>1, <2>3
    <3>2. FR!IsConsidered(path, i)
      BY <3>1 DEF FR!IsConsidered, FR!Calls
    <3> QED
      BY <1>4, <1>6, <2>1, <2>3, <3>1, <3>2
  <2> QED
    BY <2>2, <2>3
<1>7. from[1]
  <2> DEFINE T == {n \in 0..k : from[k + 1 - n]}
  <2>1. 0 \in T
    BY <1>5
  <2>2. ASSUME NEW n \in 1..k, n - 1 \in T
        PROVE  n \in T
    <3>1. k + 1 - n \in 1..k /\ k + 1 - (n - 1) = (k + 1 - n) + 1 /\ n \in 0..k
      BY <1>2
    <3>2. from[(k + 1 - n) + 1]
      BY <2>2, <3>1
    <3> QED
      BY <1>6, <3>1, <3>2
  <2> HIDE DEF T
  <2>3. \A n \in 0..k : n \in T
    BY <2>1, <2>2, Induct
  <2>4. k \in 0..k /\ k + 1 - k = 1
    OBVIOUS
  <2> QED
    BY <2>3, <2>4 DEF T
<1> QED
  BY <1>7, FRFromIs DEF from

-----------------------------------------------------------------------------
(* ForRangeConstVisitor: the functions being visited.                        *)

(* Defaulted functions are numbered like the others, but never open.         *)
FRDefaultedAreClosed ==
  \A k \in 1..Len(m_function_decl_stack) :
    /\ m_function_decl_stack[k].body < next
    /\ m_function_decl_stack[k].defaulted => ~FR!IsOpen(m_function_decl_stack[k].body)

FRDefaulted(n) ==
  \E k \in 1..Len(m_function_decl_stack) :
    m_function_decl_stack[k].body = n /\ m_function_decl_stack[k].defaulted

FRStackInv ==
  /\ FR!TraversalTypeOK(FR!Kinds) /\ OpenIsOrdered
  /\ m_function_decl_stack \in Seq(FR!FunctionDecl)
  /\ FRDefaultedAreClosed
  /\ FR!FunctionsAreStacked

(* What the types say of the open nodes and of the functions. *)
LEMMA FRStackType ==
  ASSUME FR!TraversalTypeOK(FR!Kinds), m_function_decl_stack \in Seq(FR!FunctionDecl)
  PROVE  /\ MaxNodes \in Nat /\ FR!Nodes = 1..MaxNodes
         /\ open \in Seq([id : 1..MaxNodes, kind : FR!Kinds])
         /\ next \in 1..(MaxNodes + 1) /\ next \in Int
         /\ Len(open) \in Nat
         /\ \A i \in 1..Len(open) : open[i].id \in 1..MaxNodes /\ open[i].kind \in FR!Kinds
         /\ Len(m_function_decl_stack) \in Nat
         /\ \A k \in 1..Len(m_function_decl_stack) :
              /\ m_function_decl_stack[k].body \in Int
              /\ m_function_decl_stack[k].defaulted \in BOOLEAN
<1>1. MaxNodes \in Nat /\ FR!Nodes = 1..MaxNodes
  BY TraversalAssumption DEF FR!Nodes
<1>2. open \in Seq([id : 1..MaxNodes, kind : FR!Kinds]) /\ next \in 1..(MaxNodes + 1)
  BY <1>1 DEF FR!TraversalTypeOK
<1>3. /\ Len(open) \in Nat
      /\ \A i \in 1..Len(open) : open[i].id \in 1..MaxNodes /\ open[i].kind \in FR!Kinds
  BY <1>1, <1>2, OpenNodes
<1>4. \A k \in 1..Len(m_function_decl_stack) : m_function_decl_stack[k] \in FR!FunctionDecl
  BY ElementOfSeq
<1>5. \A k \in 1..Len(m_function_decl_stack) :
        /\ m_function_decl_stack[k].body \in Int
        /\ m_function_decl_stack[k].defaulted \in BOOLEAN
  BY <1>1, <1>4 DEF FR!FunctionDecl
<1>6. Len(m_function_decl_stack) \in Nat
  OBVIOUS
<1> QED
  BY <1>1, <1>2, <1>3, <1>5, <1>6

(* A node is entered. *)
LEMMA FREnter ==
  ASSUME FRStackInv, NEW kind \in FR!Kinds, FR!Enter(kind)
  PROVE  /\ FR!TraversalTypeOK(FR!Kinds)' /\ OpenIsOrdered'
         /\ next \in FR!Nodes /\ next' = next + 1
         /\ \A n : FR!IsOpen(n)' <=> FR!IsOpen(n) \/ n = next
         /\ \A i \in 1..Len(open) : i \in 1..Len(open') /\ open'[i] = open[i]
         /\ \A i \in 1..Len(open') :
              \/ i \in 1..Len(open) /\ open'[i] = open[i]
              \/ open'[i].id = next /\ open'[i].kind = kind
         /\ \E i \in 1..Len(open') : open'[i].id = next /\ open'[i].kind = kind
<1>1. FR!TraversalTypeOK(FR!Kinds) /\ m_function_decl_stack \in Seq(FR!FunctionDecl) /\ OpenIsOrdered
  BY DEF FRStackInv
<1>2. next' = next + 1 /\ next <= MaxNodes /\ open' = Append(open, [id |-> next, kind |-> kind])
  BY DEF FR!Enter, FR!Visit
<1>3. /\ open' \in Seq([id : 1..MaxNodes, kind : FR!Kinds]) /\ next' \in 1..(MaxNodes + 1)
      /\ OpenIsOrdered'
      /\ \A i \in 1..Len(open) : i \in 1..Len(open') /\ open'[i] = open[i] /\ i # Len(open')
      /\ Len(open') \in 1..Len(open')
      /\ open'[Len(open')].id = next /\ open'[Len(open')].kind = kind
      /\ \A i \in 1..Len(open') : i \in 1..Len(open) \/ i = Len(open')
  BY <1>1, <1>2, FRStackType, Pushed
<1>4. next \in FR!Nodes
  BY <1>1, <1>2, FRStackType
<1>5. FR!TraversalTypeOK(FR!Kinds)'
  BY <1>1, <1>3, FRStackType DEF FR!TraversalTypeOK
<1>6. \A i \in 1..Len(open') :
        \/ i \in 1..Len(open) /\ open'[i] = open[i]
        \/ open'[i].id = next /\ open'[i].kind = kind
  BY <1>3
<1>7. \E i \in 1..Len(open') : open'[i].id = next /\ open'[i].kind = kind
  BY <1>3
<1>8. ASSUME NEW n PROVE FR!IsOpen(n)' <=> FR!IsOpen(n) \/ n = next
  BY <1>3, <1>6, <1>7 DEF FR!IsOpen
<1> QED
  BY <1>2, <1>3, <1>4, <1>5, <1>6, <1>7, <1>8

LEMMA FRVisitLeaf ==
  ASSUME FRStackInv, FR!VisitLeaf
  PROVE  /\ FR!TraversalTypeOK(FR!Kinds)' /\ OpenIsOrdered'
         /\ next \in FR!Nodes /\ next' = next + 1 /\ open' = open
         /\ \A n : FR!IsOpen(n)' <=> FR!IsOpen(n)
<1>1. FR!TraversalTypeOK(FR!Kinds) /\ m_function_decl_stack \in Seq(FR!FunctionDecl) /\ OpenIsOrdered
  BY DEF FRStackInv
<1>2. next' = next + 1 /\ next <= MaxNodes /\ open' = open
  BY DEF FR!VisitLeaf, FR!Visit
<1>3. open' \in Seq([id : 1..MaxNodes, kind : FR!Kinds]) /\ next' \in 1..(MaxNodes + 1) /\ OpenIsOrdered'
  BY <1>1, <1>2, FRStackType, Stayed
<1>4. next \in FR!Nodes
  BY <1>1, <1>2, FRStackType
<1>5. \A n : FR!IsOpen(n)' <=> FR!IsOpen(n)
  BY <1>2 DEF FR!IsOpen
<1> QED
  BY <1>1, <1>2, <1>3, <1>4, <1>5, FRStackType DEF FR!TraversalTypeOK

(* What is open is numbered before what is visited next. *)
LEMMA FROpenBefore ==
  ASSUME FRStackInv
  PROVE  \A n : FR!IsOpen(n) => n \in Int /\ n < next /\ n # next
<1>1. next \in Int /\ \A i \in 1..Len(open) : open[i].id \in Int /\ open[i].id < next
  BY FRStackType DEF FRStackInv, OpenIsOrdered
<1> QED
  BY <1>1 DEF FR!IsOpen

(* The functions stay as they are. *)
LEMMA FRStackSame ==
  ASSUME FRStackInv, UNCHANGED m_function_decl_stack,
         \/ FR!VisitLeaf
         \/ \E kind \in FR!Kinds \ {"function"} : FR!Enter(kind)
  PROVE  FRStackInv' /\ \A n : FRDefaulted(n)' <=> FRDefaulted(n)
<1> DEFINE s == m_function_decl_stack
<1>1. /\ FR!TraversalTypeOK(FR!Kinds) /\ s \in Seq(FR!FunctionDecl)
      /\ FRDefaultedAreClosed /\ FR!FunctionsAreStacked
  BY DEF FRStackInv
<1>2. /\ FR!TraversalTypeOK(FR!Kinds)' /\ OpenIsOrdered' /\ next' = next + 1
      /\ \A n : FR!IsOpen(n)' => FR!IsOpen(n) \/ n = next
      /\ \A i \in 1..Len(open) : i \in 1..Len(open') /\ open'[i] = open[i]
      /\ \A i \in 1..Len(open') :
           \/ i \in 1..Len(open) /\ open'[i] = open[i]
           \/ open'[i].kind # "function"
  <2>1. CASE FR!VisitLeaf
    BY <2>1, FRVisitLeaf
  <2>2. CASE \E kind \in FR!Kinds \ {"function"} : FR!Enter(kind)
    <3>1. PICK kind \in FR!Kinds \ {"function"} : FR!Enter(kind)
      BY <2>2
    <3> QED
      BY <3>1, FREnter
  <2> QED
    BY <2>1, <2>2
<1>3. /\ next \in Int /\ Len(s) \in Nat
      /\ \A k \in 1..Len(s) : s[k].body \in Int
  BY <1>1, FRStackType
<1>4. FRDefaultedAreClosed'
  <2> SUFFICES ASSUME NEW k \in 1..Len(s)
               PROVE  s[k].body < next + 1 /\ (s[k].defaulted => ~FR!IsOpen(s[k].body)')
    BY <1>2 DEF FRDefaultedAreClosed, FR!IsOpen
  <2>1. s[k].body < next /\ (s[k].defaulted => ~FR!IsOpen(s[k].body)) /\ s[k].body \in Int
    BY <1>1, <1>3 DEF FRDefaultedAreClosed
  <2> QED
    BY <1>2, <1>3, <2>1
<1>5. FR!FunctionsAreStacked'
  <2>1. CASE \E k \in 1..Len(s) : s[k].defaulted
    BY <2>1 DEF FR!FunctionsAreStacked
  <2>2. CASE ~\E k \in 1..Len(s) : s[k].defaulted
    <3>1. /\ \A k \in 1..Len(s) :
               \E i \in 1..Len(open) : open[i].kind = "function" /\ open[i].id = s[k].body
          /\ \A i \in 1..Len(open) :
               open[i].kind = "function" => \E k \in 1..Len(s) : open[i].id = s[k].body
          /\ \A k, l \in 1..Len(s) : k < l => s[k].body < s[l].body
      BY <1>1, <2>2 DEF FR!FunctionsAreStacked
    <3>2. ASSUME NEW k \in 1..Len(s)
          PROVE  \E i \in 1..Len(open') : open'[i].kind = "function" /\ open'[i].id = s[k].body
      <4>1. PICK i \in 1..Len(open) : open[i].kind = "function" /\ open[i].id = s[k].body
        BY <3>1
      <4>2. i \in 1..Len(open') /\ open'[i] = open[i]
        BY <1>2
      <4> QED
        BY <4>1, <4>2
    <3>3. ASSUME NEW i \in 1..Len(open'), open'[i].kind = "function"
          PROVE  \E k \in 1..Len(s) : open'[i].id = s[k].body
      <4>1. i \in 1..Len(open) /\ open'[i] = open[i]
        BY <1>2, <3>3
      <4> QED
        BY <3>1, <3>3, <4>1
    <3> QED
      BY <3>1, <3>2, <3>3 DEF FR!FunctionsAreStacked
  <2> QED
    BY <2>1, <2>2
<1>6. \A n : FRDefaulted(n)' <=> FRDefaulted(n)
  BY DEF FRDefaulted
<1> QED
  BY <1>1, <1>2, <1>4, <1>5, <1>6 DEF FRStackInv

(* A function is pushed. *)
LEMMA FRStackPush ==
  ASSUME FRStackInv, NEW ret \in BOOLEAN, NEW defaulted \in BOOLEAN,
         IF defaulted THEN FR!VisitLeaf ELSE FR!Enter("function"),
         m_function_decl_stack' = Append(m_function_decl_stack,
           [body |-> next, ret |-> ret, defaulted |-> defaulted])
  PROVE  /\ FRStackInv'
         /\ \A n : FRDefaulted(n) => FRDefaulted(n)'
         /\ \A n : defaulted /\ n = next => FRDefaulted(n)'
<1> DEFINE s == m_function_decl_stack
           t == m_function_decl_stack'
           f == [body |-> next, ret |-> ret, defaulted |-> defaulted]
<1>1. /\ FR!TraversalTypeOK(FR!Kinds) /\ s \in Seq(FR!FunctionDecl)
      /\ FRDefaultedAreClosed /\ FR!FunctionsAreStacked
  BY DEF FRStackInv
<1>2. "function" \in FR!Kinds
  BY DEF FR!Kinds
<1>3. /\ FR!TraversalTypeOK(FR!Kinds)' /\ OpenIsOrdered' /\ next' = next + 1 /\ next \in FR!Nodes
      /\ \A n : FR!IsOpen(n)' => FR!IsOpen(n) \/ (n = next /\ ~defaulted)
      /\ \A i \in 1..Len(open) : i \in 1..Len(open') /\ open'[i] = open[i]
      /\ \A i \in 1..Len(open') :
           \/ i \in 1..Len(open) /\ open'[i] = open[i]
           \/ open'[i].id = next
      /\ defaulted \/ \E i \in 1..Len(open') : open'[i].id = next /\ open'[i].kind = "function"
  <2>1. CASE defaulted
    BY <2>1, FRVisitLeaf
  <2>2. CASE ~defaulted
    BY <1>2, <2>2, FREnter
  <2> QED
    BY <2>1, <2>2
<1>4. /\ next \in Int /\ Len(s) \in Nat
      /\ \A k \in 1..Len(s) : s[k].body \in Int
  BY <1>1, FRStackType
<1>5. f \in FR!FunctionDecl /\ f.body = next /\ f.defaulted = defaulted
  BY <1>3 DEF FR!FunctionDecl
<1> HIDE DEF f
<1>6. /\ t \in Seq(FR!FunctionDecl) /\ Len(t) \in Nat /\ Len(t) = Len(s) + 1
      /\ \A k \in 1..Len(s) : k \in 1..Len(t) /\ t[k] = s[k] /\ k # Len(t)
      /\ Len(t) \in 1..Len(t) /\ t[Len(t)] = f
      /\ \A k \in 1..Len(t) : k \in 1..Len(s) \/ k = Len(t)
  <2>1. t = Append(s, f)
    BY DEF f
  <2> HIDE DEF t
  <2> QED
    BY <1>1, <1>5, <2>1, Grown
<1>7. \A k \in 1..Len(s) : s[k].body < next /\ (s[k].defaulted => ~FR!IsOpen(s[k].body))
  BY <1>1 DEF FRDefaultedAreClosed
<1>8. ~FR!IsOpen(next)
  BY <1>4, FROpenBefore
<1>9. FRDefaultedAreClosed'
  <2> SUFFICES ASSUME NEW k \in 1..Len(t), NEW n, n = t[k].body
               PROVE  n < next + 1 /\ (t[k].defaulted => ~FR!IsOpen(n)')
    BY <1>3 DEF FRDefaultedAreClosed, FR!IsOpen
  <2>1. CASE k \in 1..Len(s)
    <3>1. n < next /\ n \in Int /\ n # next /\ (t[k].defaulted => ~FR!IsOpen(n))
      BY <1>4, <1>6, <1>7, <2>1
    <3> QED
      BY <1>3, <1>4, <3>1
  <2>2. CASE k = Len(t)
    BY <1>3, <1>4, <1>5, <1>6, <1>8, <2>2
  <2> QED
    BY <1>6, <2>1, <2>2
<1>10. FR!FunctionsAreStacked'
  <2>1. CASE \E k \in 1..Len(t) : t[k].defaulted
    BY <2>1 DEF FR!FunctionsAreStacked
  <2>2. CASE ~\E k \in 1..Len(t) : t[k].defaulted
    <3>1. ~defaulted /\ ~\E k \in 1..Len(s) : s[k].defaulted
      BY <1>5, <1>6, <2>2
    <3>2. /\ \A k \in 1..Len(s) :
               \E i \in 1..Len(open) : open[i].kind = "function" /\ open[i].id = s[k].body
          /\ \A i \in 1..Len(open) :
               open[i].kind = "function" => \E k \in 1..Len(s) : open[i].id = s[k].body
          /\ \A k, l \in 1..Len(s) : k < l => s[k].body < s[l].body
      BY <1>1, <3>1 DEF FR!FunctionsAreStacked
    <3>3. ASSUME NEW k \in 1..Len(t)
          PROVE  \E i \in 1..Len(open') : open'[i].kind = "function" /\ open'[i].id = t[k].body
      <4>1. CASE k \in 1..Len(s)
        <5>1. PICK i \in 1..Len(open) : open[i].kind = "function" /\ open[i].id = s[k].body
          BY <3>2, <4>1
        <5>2. i \in 1..Len(open') /\ open'[i] = open[i] /\ t[k] = s[k]
          BY <1>3, <1>6, <4>1
        <5> QED
          BY <5>1, <5>2
      <4>2. CASE k = Len(t)
        <5>1. t[k].body = next
          BY <1>5, <1>6, <4>2
        <5> QED
          BY <1>3, <3>1, <5>1
      <4> QED
        BY <1>6, <4>1, <4>2
    <3>4. ASSUME NEW i \in 1..Len(open'), open'[i].kind = "function"
          PROVE  \E k \in 1..Len(t) : open'[i].id = t[k].body
      <4>1. CASE i \in 1..Len(open) /\ open'[i] = open[i]
        <5>1. PICK k \in 1..Len(s) : open[i].id = s[k].body
          BY <3>2, <3>4, <4>1
        <5>2. k \in 1..Len(t) /\ t[k] = s[k]
          BY <1>6
        <5> QED
          BY <4>1, <5>1, <5>2
      <4>2. CASE open'[i].id = next
        <5>1. Len(t) \in 1..Len(t) /\ t[Len(t)].body = next
          BY <1>5, <1>6
        <5> QED
          BY <4>2, <5>1
      <4> QED
        BY <1>3, <4>1, <4>2
    <3>5. ASSUME NEW k \in 1..Len(t), NEW l \in 1..Len(t), k < l
          PROVE  t[k].body < t[l].body
      <4>1. k \in 1..Len(s) /\ t[k] = s[k]
        BY <1>4, <1>6, <3>5
      <4>2. CASE l \in 1..Len(s)
        BY <1>6, <3>2, <3>5, <4>1, <4>2
      <4>3. CASE l = Len(t)
        BY <1>5, <1>6, <1>7, <4>1, <4>3
      <4> QED
        BY <1>6, <4>2, <4>3
    <3> QED
      BY <3>3, <3>4, <3>5 DEF FR!FunctionsAreStacked
  <2> QED
    BY <2>1, <2>2
<1>11. ASSUME NEW n, FRDefaulted(n) PROVE FRDefaulted(n)'
  <2>1. PICK k \in 1..Len(s) : s[k].body = n /\ s[k].defaulted
    BY <1>11 DEF FRDefaulted
  <2>2. k \in 1..Len(t) /\ t[k] = s[k]
    BY <1>6
  <2> QED
    BY <2>1, <2>2 DEF FRDefaulted
<1>12. ASSUME defaulted, NEW n, n = next PROVE FRDefaulted(n)'
  <2>1. Len(t) \in 1..Len(t) /\ t[Len(t)].body = n /\ t[Len(t)].defaulted
    BY <1>5, <1>6, <1>12
  <2> QED
    BY <2>1 DEF FRDefaulted
<1> QED
  BY <1>3, <1>6, <1>9, <1>10, <1>11, <1>12 DEF FRStackInv

(* A node is left, and with a function its entry. *)
LEMMA FRStackLeave ==
  ASSUME FRStackInv, FR!Leave
  PROVE  /\ FRStackInv' /\ next' = next /\ Len(open) \in 1..Len(open)
         /\ \A n : FR!IsOpen(n)' <=> FR!IsOpen(n) /\ n # open[Len(open)].id
         /\ \A n : FRDefaulted(n) => FRDefaulted(n)'
         /\ \A i \in 1..Len(open') : i \in 1..Len(open) /\ open'[i] = open[i]
         /\ \A i \in 1..Len(open) :
              open[i].id = open[Len(open)].id => open[i] = open[Len(open)]
<1> DEFINE s == m_function_decl_stack
           t == m_function_decl_stack'
           top == open[Len(open)]
<1>1. /\ FR!TraversalTypeOK(FR!Kinds) /\ OpenIsOrdered /\ s \in Seq(FR!FunctionDecl)
      /\ FRDefaultedAreClosed /\ FR!FunctionsAreStacked
  BY DEF FRStackInv
<1>2. /\ open # <<>> /\ open' = SubSeq(open, 1, Len(open) - 1) /\ next' = next
      /\ t = IF s # <<>> /\ s[Len(s)].body = top.id THEN SubSeq(s, 1, Len(s) - 1) ELSE s
  BY DEF FR!Leave, FR!LeaveStmt, FR!Pop, FR!Top
<1>3. /\ open' \in Seq([id : 1..MaxNodes, kind : FR!Kinds]) /\ next' \in 1..(MaxNodes + 1)
      /\ OpenIsOrdered' /\ Len(open) \in Nat
      /\ \A i \in 1..Len(open') : i \in 1..Len(open) /\ open'[i] = open[i] /\ i # Len(open)
      /\ Len(open) \in 1..Len(open)
      /\ \A i \in 1..Len(open) : i \in 1..Len(open') \/ i = Len(open)
      /\ \A i \in 1..Len(open') : open[i].id < top.id
      /\ top.id \in 1..MaxNodes
  BY <1>1, <1>2, FRStackType, Popped
<1>4. FR!TraversalTypeOK(FR!Kinds)'
  BY <1>1, <1>3, FRStackType DEF FR!TraversalTypeOK
<1>5. /\ next \in Int /\ Len(s) \in Nat
      /\ \A k \in 1..Len(s) : s[k].body \in Int
      /\ \A i \in 1..Len(open) : open[i].id \in Int
  BY <1>1, FRStackType
<1>6. ASSUME NEW n PROVE FR!IsOpen(n)' <=> FR!IsOpen(n) /\ n # top.id
  <2>1. \A i \in 1..Len(open') : open[i].id # top.id
    BY <1>3, <1>5
  <2> QED
    BY <1>3, <2>1 DEF FR!IsOpen
<1>7. ASSUME NEW i \in 1..Len(open), open[i].id = top.id PROVE open[i] = top
  <2>1. i \notin 1..Len(open')
    BY <1>3, <1>5, <1>7
  <2> QED
    BY <1>3, <2>1
<1>8. CASE s # <<>> /\ s[Len(s)].body = top.id
  <2>1. /\ t \in Seq(FR!FunctionDecl) /\ Len(s) \in Nat /\ Len(t) \in Nat
        /\ Len(s) = Len(t) + 1
        /\ \A k \in 1..Len(t) : k \in 1..Len(s) /\ t[k] = s[k] /\ k # Len(s)
        /\ Len(s) \in 1..Len(s)
        /\ \A k \in 1..Len(s) : k \in 1..Len(t) \/ k = Len(s)
    <3>1. t = SubSeq(s, 1, Len(s) - 1)
      BY <1>2, <1>8
    <3> QED
      BY <1>1, <1>8, <3>1, Shrunk
  <2> HIDE DEF t
  <2>2. FR!IsOpen(top.id)
    BY <1>3 DEF FR!IsOpen
  <2>3. ~s[Len(s)].defaulted
    BY <1>1, <1>8, <2>1, <2>2 DEF FRDefaultedAreClosed
  <2>4. ASSUME NEW n, FRDefaulted(n) PROVE FRDefaulted(n)'
    <3>1. PICK k \in 1..Len(s) : s[k].body = n /\ s[k].defaulted
      BY <2>4 DEF FRDefaulted
    <3>2. k \in 1..Len(t) /\ t[k] = s[k]
      BY <2>1, <2>3, <3>1
    <3> QED
      BY <3>1, <3>2 DEF FRDefaulted, t
  <2>5. FRDefaultedAreClosed'
    <3> SUFFICES ASSUME NEW k \in 1..Len(t), NEW n, n = t[k].body
                 PROVE  n < next /\ (t[k].defaulted => ~FR!IsOpen(n)')
      BY <1>2 DEF FRDefaultedAreClosed, FR!IsOpen, t
    <3>1. k \in 1..Len(s) /\ t[k] = s[k]
      BY <2>1
    <3>2. n < next /\ (t[k].defaulted => ~FR!IsOpen(n))
      BY <1>1, <3>1 DEF FRDefaultedAreClosed
    <3> QED
      BY <1>6, <3>2
  <2>6. FR!FunctionsAreStacked'
    <3>1. CASE \E k \in 1..Len(s) : s[k].defaulted
      <4>1. PICK k \in 1..Len(s) : s[k].defaulted
        BY <3>1
      <4>2. k \in 1..Len(t) /\ t[k].defaulted
        BY <2>1, <2>3, <4>1
      <4> QED
        BY <4>2 DEF FR!FunctionsAreStacked, t
    <3>2. CASE ~\E k \in 1..Len(s) : s[k].defaulted
      <4>1. /\ \A k \in 1..Len(s) :
                 \E i \in 1..Len(open) : open[i].kind = "function" /\ open[i].id = s[k].body
            /\ \A i \in 1..Len(open) :
                 open[i].kind = "function" => \E k \in 1..Len(s) : open[i].id = s[k].body
            /\ \A k, l \in 1..Len(s) : k < l => s[k].body < s[l].body
        BY <1>1, <3>2 DEF FR!FunctionsAreStacked
      <4>2. ASSUME NEW k \in 1..Len(t)
            PROVE  \E i \in 1..Len(open') : open'[i].kind = "function" /\ open'[i].id = t[k].body
        <5>1. k \in 1..Len(s) /\ t[k] = s[k] /\ k < Len(s)
          BY <2>1
        <5>2. s[k].body < top.id
          BY <1>8, <2>1, <4>1, <5>1
        <5>3. PICK i \in 1..Len(open) : open[i].kind = "function" /\ open[i].id = s[k].body
          BY <4>1, <5>1
        <5>4. i # Len(open)
          BY <1>3, <5>2, <5>3
        <5>5. i \in 1..Len(open') /\ open'[i] = open[i]
          BY <1>3, <5>4
        <5> QED
          BY <5>1, <5>3, <5>5
      <4>3. ASSUME NEW i \in 1..Len(open'), open'[i].kind = "function"
            PROVE  \E k \in 1..Len(t) : open'[i].id = t[k].body
        <5>1. i \in 1..Len(open) /\ open'[i] = open[i] /\ open[i].id < top.id /\ open[i].id \in Int
          BY <1>3, <1>5
        <5>2. PICK k \in 1..Len(s) : open[i].id = s[k].body
          BY <4>1, <4>3, <5>1
        <5>3. k # Len(s)
          BY <1>3, <1>8, <5>1, <5>2
        <5>4. k \in 1..Len(t) /\ t[k] = s[k]
          BY <2>1, <5>3
        <5> QED
          BY <5>1, <5>2, <5>4
      <4>4. \A k, l \in 1..Len(t) : k < l => t[k].body < t[l].body
        BY <2>1, <4>1
      <4> QED
        BY <4>2, <4>3, <4>4 DEF FR!FunctionsAreStacked, t
    <3> QED
      BY <3>1, <3>2
  <2>7. t \in Seq(FR!FunctionDecl)
    BY <2>1
  <2> QED
    BY <1>2, <1>3, <1>4, <1>6, <1>7, <2>4, <2>5, <2>6, <2>7 DEF FRStackInv, t
<1>9. CASE ~(s # <<>> /\ s[Len(s)].body = top.id)
  <2>1. t = s
    BY <1>2, <1>9
  <2>2. FRDefaultedAreClosed'
    <3> SUFFICES ASSUME NEW k \in 1..Len(s), NEW n, n = s[k].body
                 PROVE  n < next /\ (s[k].defaulted => ~FR!IsOpen(n)')
      BY <1>2, <2>1 DEF FRDefaultedAreClosed, FR!IsOpen
    <3>1. n < next /\ (s[k].defaulted => ~FR!IsOpen(n))
      BY <1>1 DEF FRDefaultedAreClosed
    <3> QED
      BY <1>6, <3>1
  <2>3. FR!FunctionsAreStacked'
    <3>1. CASE \E k \in 1..Len(s) : s[k].defaulted
      BY <2>1, <3>1 DEF FR!FunctionsAreStacked
    <3>2. CASE ~\E k \in 1..Len(s) : s[k].defaulted
      <4>1. /\ \A k \in 1..Len(s) :
                 \E i \in 1..Len(open) : open[i].kind = "function" /\ open[i].id = s[k].body
            /\ \A i \in 1..Len(open) :
                 open[i].kind = "function" => \E k \in 1..Len(s) : open[i].id = s[k].body
            /\ \A k, l \in 1..Len(s) : k < l => s[k].body < s[l].body
        BY <1>1, <3>2 DEF FR!FunctionsAreStacked
      <4>2. \A i \in 1..Len(open) : open[i].id <= top.id
        BY <1>3, <1>5
      <4>3. ASSUME NEW k \in 1..Len(s)
            PROVE  s[k].body < top.id
        <5>1. PICK i \in 1..Len(open) : open[i].id = s[Len(s)].body
          <6>1. Len(s) \in 1..Len(s)
            BY <1>5
          <6> QED
            BY <4>1, <6>1
        <5>2. s[Len(s)].body < top.id
          <6>1. s # <<>> /\ Len(s) \in 1..Len(s)
            BY <1>5
          <6>2. s[Len(s)].body # top.id
            BY <1>9, <6>1
          <6> QED
            BY <1>3, <1>5, <4>2, <5>1, <6>1, <6>2
        <5>3. CASE k = Len(s)
          BY <5>2, <5>3
        <5>4. CASE k # Len(s)
          <6>1. Len(s) \in 1..Len(s) /\ k < Len(s)
            BY <1>5, <5>4
          <6>2. s[k].body < s[Len(s)].body
            BY <4>1, <6>1
          <6>3. s[k].body \in Int /\ s[Len(s)].body \in Int /\ top.id \in Int
            BY <1>3, <1>5, <6>1
          <6> QED
            BY <5>2, <6>2, <6>3
        <5> QED
          BY <5>3, <5>4
      <4>4. ASSUME NEW k \in 1..Len(s)
            PROVE  \E i \in 1..Len(open') : open'[i].kind = "function" /\ open'[i].id = s[k].body
        <5>1. PICK i \in 1..Len(open) : open[i].kind = "function" /\ open[i].id = s[k].body
          BY <4>1
        <5>2. i # Len(open)
          BY <1>3, <1>5, <4>3, <5>1
        <5>3. i \in 1..Len(open') /\ open'[i] = open[i]
          BY <1>3, <5>2
        <5> QED
          BY <5>1, <5>3
      <4>5. ASSUME NEW i \in 1..Len(open'), open'[i].kind = "function"
            PROVE  \E k \in 1..Len(s) : open'[i].id = s[k].body
        <5>1. i \in 1..Len(open) /\ open'[i] = open[i]
          BY <1>3
        <5> QED
          BY <4>1, <4>5, <5>1
      <4> QED
        BY <2>1, <4>1, <4>4, <4>5 DEF FR!FunctionsAreStacked
    <3> QED
      BY <3>1, <3>2
  <2>4. \A n : FRDefaulted(n) => FRDefaulted(n)'
    BY <2>1 DEF FRDefaulted
  <2> QED
    BY <1>1, <1>2, <1>3, <1>4, <1>6, <1>7, <2>1, <2>2, <2>3, <2>4 DEF FRStackInv
<1> QED
  BY <1>8, <1>9

-----------------------------------------------------------------------------
(* ForRangeConstVisitor: the variables.                                      *)

FRShort == \A signature \in ConstSignatures : FRIsShort(signature)

(* A use of a variable counts for all that are reported with it.             *)
FRTouches(d, u) == \E e \in decls : u.var = e.var /\ FR!Together(d, e)

FRClean(d) == \A u \in uses : FRTouches(d, u) => ~FR!MustBeMutable(u)

(* Variables are numbered by their scope, and no two are the same; only      *)
(* those of scopes that are closed are reported.                             *)
FRVariablesAreFresh ==
  /\ \A d \in decls : d.scope < next /\ d.var[1] = d.scope /\ (d.loop => d.due)
  /\ \A d, e \in decls : d.var = e.var => d = e
  /\ \A d, e \in decls : d.scope = e.scope /\ d.loop => e.loop
  /\ \A d \in decls : \A i \in 1..Len(open) :
       open[i].id = d.scope => (d.loop <=> open[i].kind = "loop")
  /\ \A c \in m_checked_vars :
       /\ c.scope < next /\ c.self[1] = c.scope
       /\ FR!IsOpen(c.scope) => \E d \in decls : d.var = c.self
  /\ \A u \in uses : \E d \in decls : d.var = u.var
  /\ \A r \in reports : r.of[1] < next /\ ~FR!IsOpen(r.of[1])

FRCheckedAreKnown ==
  \A c \in m_checked_vars : FR!IsOpen(c.scope) \/ FRDefaulted(c.scope)

FRIsChecked(d) == \E c \in m_checked_vars : c.self = d.var

FRLoopsAreWhole ==
  \A d, e \in decls : d.loop /\ d.scope = e.scope /\ FRIsChecked(d) => FRIsChecked(e)

(* What is checked is what the check is meant to look at, and not modified;  *)
(* what is not used at all is checked, and later reported.                   *)
FRCheckedAreClean ==
  \A d \in decls : FRIsChecked(d) => (FRShort => d.due) /\ FRClean(d)

FRReportedAreClean ==
  \A d \in decls : FR!IsReported(d) => (FRShort => d.due) /\ FRClean(d)

FRUnusedAreKept ==
  FRShort => \A d \in decls :
    d.due /\ (\A u \in uses : ~FRTouches(d, u)) =>
      IF FR!IsOpen(d.scope) THEN FRIsChecked(d) ELSE FR!IsReported(d)

FRVariablesInv ==
  /\ FRVariablesAreFresh /\ FRCheckedAreKnown /\ FRLoopsAreWhole
  /\ FRCheckedAreClean /\ FRReportedAreClean /\ FRUnusedAreKept

FRInv == FR!TypeOK /\ FRStackInv /\ FRVariablesInv

(* What the types say of the variables. *)
LEMMA FRType ==
  ASSUME FR!TypeOK
  PROVE  /\ MaxNodes \in Nat /\ FR!Nodes = 1..MaxNodes /\ next \in Int
         /\ \A c \in m_checked_vars : c.scope \in Int /\ c.self[1] \in Int
         /\ \A d \in decls : d.scope \in Int /\ d.loop \in BOOLEAN /\ d.due \in BOOLEAN
         /\ \A r \in reports : r.of[1] \in Int
<1>1. MaxNodes \in Nat /\ FR!Nodes = 1..MaxNodes /\ next \in Int
  BY FRStackType DEF FR!TypeOK
<1>2. \A c \in m_checked_vars : c.scope \in 1..MaxNodes /\ c.self[1] \in 1..MaxNodes
  BY <1>1 DEF FR!TypeOK, FR!CheckedVar, FR!Variables
<1>3. \A d \in decls : d.scope \in 1..MaxNodes /\ d.loop \in BOOLEAN /\ d.due \in BOOLEAN
  BY <1>1 DEF FR!TypeOK, FR!Decl
<1>4. \A r \in reports : r.of[1] \in 1..MaxNodes
  BY <1>1 DEF FR!TypeOK, FR!Variables
<1> QED
  BY <1>1, <1>2, <1>3, <1>4

(* A variable is used, which takes it and those of its loop out of the       *)
(* checked ones, unless it need not be mutable for that.                     *)
FRIsUse(kept, used) ==
  \/ used = {} /\ kept = m_checked_vars
  \/ \E x \in FR!InScope, u \in FR!Use :
       /\ used = {u} /\ u.var = x
       /\ \/ kept = FR!removeCheckedVar(m_checked_vars, x)
          \/ kept = m_checked_vars /\ ~FR!MustBeMutable(u)

LEMMA FRUsed ==
  ASSUME FRInv, NEW kept, NEW used, FRIsUse(kept, used)
  PROVE  /\ kept \subseteq m_checked_vars
         /\ \A u \in used : u \in FR!Use /\ \E d \in decls : d.var = u.var /\ FR!IsOpen(d.scope)
         /\ \A d \in decls, u \in used :
              (\E c \in kept : c.self = d.var) /\ FRTouches(d, u) => ~FR!MustBeMutable(u)
         /\ \A d \in decls : FRIsChecked(d) /\ ~(\E c \in kept : c.self = d.var) =>
              \E u \in used : FRTouches(d, u)
         /\ \A d, e \in decls :
              d.loop /\ d.scope = e.scope /\ (\E c \in kept : c.self = d.var)
              => \E c \in kept : c.self = e.var
<1>1. FR!TypeOK /\ FRVariablesAreFresh /\ FRLoopsAreWhole
  BY DEF FRInv, FRVariablesInv
<1>2. /\ \A d \in decls : d.var[1] = d.scope
      /\ \A d, e \in decls : d.var = e.var => d = e
      /\ \A d, e \in decls : d.scope = e.scope /\ d.loop => e.loop
      /\ \A c \in m_checked_vars : c.self[1] = c.scope
  BY <1>1 DEF FRVariablesAreFresh
<1>3. CASE used = {} /\ kept = m_checked_vars
  BY <1>1, <1>3 DEF FRLoopsAreWhole, FRIsChecked
<1>4. CASE ~(used = {} /\ kept = m_checked_vars)
  <2>1. PICK x \in FR!InScope, u \in FR!Use :
          /\ used = {u} /\ u.var = x
          /\ \/ kept = FR!removeCheckedVar(m_checked_vars, x)
             \/ kept = m_checked_vars /\ ~FR!MustBeMutable(u)
    BY <1>4 DEF FRIsUse
  <2>2. PICK e \in decls : e.var = x /\ FR!IsOpen(e.scope)
    BY DEF FR!InScope, FR!IsOpen
  <2>3. CASE kept = m_checked_vars /\ ~FR!MustBeMutable(u)
    BY <1>1, <2>1, <2>2, <2>3 DEF FRLoopsAreWhole, FRIsChecked
  <2>4. CASE kept = FR!removeCheckedVar(m_checked_vars, x)
    <3>1. \A c : c \in kept <=>
            /\ c \in m_checked_vars /\ c.self # x
            /\ ~\E r \in m_checked_vars : r.self = x /\ r.scope = c.scope /\ FR!IsLoop(c.scope)
      BY <2>4 DEF FR!removeCheckedVar
    <3>2. \A d \in decls : d.loop => FR!IsLoop(d.scope)
      BY DEF FR!IsLoop
    <3>3. \A d \in decls : FR!IsLoop(d.scope) => d.loop
      BY <1>2 DEF FR!IsLoop
    <3>4. \A d \in decls, c \in m_checked_vars : c.self = d.var => c.scope = d.scope
      BY <1>2
    <3> HIDE DEF FR!IsLoop
    <3>5. ASSUME NEW d \in decls, NEW c \in kept, c.self = d.var, FRTouches(d, u)
          PROVE  FALSE
      <4>1. FR!Together(d, e)
        BY <1>2, <2>1, <2>2, <3>5 DEF FRTouches
      <4>2. d.var # e.var
        BY <2>2, <3>1, <3>5
      <4>3. d.loop /\ d.scope = e.scope
        BY <4>1, <4>2 DEF FR!Together
      <4>4. PICK r \in m_checked_vars : r.self = x
        BY <1>1, <2>2, <3>1, <3>5, <4>3 DEF FRLoopsAreWhole, FRIsChecked
      <4>5. r.scope = c.scope /\ c.scope = d.scope
        BY <2>2, <3>1, <3>4, <3>5, <4>3, <4>4
      <4> QED
        BY <3>1, <3>2, <3>5, <4>3, <4>4, <4>5
    <3>6. ASSUME NEW d \in decls, NEW c \in m_checked_vars, c.self = d.var, c \notin kept
          PROVE  FRTouches(d, u)
      <4>1. CASE c.self = x
        BY <2>1, <2>2, <3>6, <4>1 DEF FRTouches, FR!Together
      <4>2. CASE c.self # x
        <5>1. PICK r \in m_checked_vars : r.self = x /\ r.scope = c.scope /\ FR!IsLoop(c.scope)
          BY <3>1, <3>6, <4>2
        <5>2. d.scope = c.scope /\ e.scope = r.scope /\ d.loop
          BY <2>2, <3>3, <3>4, <3>6, <5>1
        <5> QED
          BY <2>1, <2>2, <5>1, <5>2 DEF FRTouches, FR!Together
      <4> QED
        BY <4>1, <4>2
    <3>7. ASSUME NEW d \in decls, NEW f \in decls, d.loop, d.scope = f.scope,
                 NEW c \in kept, c.self = d.var
          PROVE  \E k \in kept : k.self = f.var
      <4>1. PICK k \in m_checked_vars : k.self = f.var
        BY <1>1, <3>1, <3>7 DEF FRLoopsAreWhole, FRIsChecked
      <4>2. k.scope = c.scope /\ c.scope = d.scope
        BY <3>1, <3>4, <3>7, <4>1
      <4>3. k.self # x
        BY <3>1, <3>2, <3>7, <4>1, <4>2
      <4>4. k \in kept
        BY <3>1, <3>7, <4>1, <4>2, <4>3
      <4> QED
        BY <4>1, <4>4
    <3> QED
      BY <2>1, <2>2, <3>1, <3>5, <3>6, <3>7 DEF FRIsChecked
  <2> QED
    BY <2>1, <2>3, <2>4
<1> QED
  BY <1>3, <1>4

(* What a node adds to the variables that are declared and checked.          *)
FRIsNew(declared, checked) ==
  /\ \A d \in declared : d.scope = next /\ d.var[1] = next /\ (d.loop => d.due)
  /\ \A d, e \in declared : (d.var = e.var => d = e) /\ (d.loop => e.loop)
  /\ \A d \in declared : d.due /\ (d.loop \/ FRShort) => \E c \in checked : c.self = d.var
  /\ \A d \in declared : FRShort /\ (\E c \in checked : c.self = d.var) => d.due
  /\ \A c \in checked : c.scope = next /\ c.self[1] = next

(* What visiting a node, or entering one, does to the variables. *)
LEMMA FRVisited ==
  ASSUME FRInv, NEW kept, NEW used, NEW declared, NEW checked,
         FRIsUse(kept, used), FRIsNew(declared, checked),
         next' = next + 1, UNCHANGED reports,
         m_checked_vars' = checked \cup kept,
         decls' = decls \cup declared,
         uses' = uses \cup used,
         \A n : FR!IsOpen(n)' => FR!IsOpen(n) \/ n = next,
         \A n : FR!IsOpen(n) => FR!IsOpen(n)',
         \A i \in 1..Len(open') : open'[i].id # next => i \in 1..Len(open) /\ open'[i] = open[i],
         \A n : FRDefaulted(n) => FRDefaulted(n)',
         \A n : n = next =>
           /\ declared # {} => FR!IsOpen(n)'
           /\ checked # {} => FR!IsOpen(n)' \/ FRDefaulted(n)'
           /\ FR!IsOpen(n)' => \A c \in checked : \E d \in declared : d.var = c.self,
         \A d \in declared : \A i \in 1..Len(open') :
           open'[i].id = next => (d.loop <=> open'[i].kind = "loop")
  PROVE  FRVariablesInv'
<1>1. FR!TypeOK /\ FRVariablesInv /\ FRStackInv
  BY DEF FRInv
<1>2. /\ kept \subseteq m_checked_vars
      /\ \A u \in used : \E d \in decls : d.var = u.var /\ FR!IsOpen(d.scope)
      /\ \A d \in decls, u \in used :
           (\E c \in kept : c.self = d.var) /\ FRTouches(d, u) => ~FR!MustBeMutable(u)
      /\ \A d \in decls : FRIsChecked(d) /\ ~(\E c \in kept : c.self = d.var) =>
           \E u \in used : FRTouches(d, u)
      /\ \A d, e \in decls :
           d.loop /\ d.scope = e.scope /\ (\E c \in kept : c.self = d.var)
           => \E c \in kept : c.self = e.var
  BY FRUsed
<1>3. /\ next \in Int
      /\ \A c \in m_checked_vars : c.scope \in Int
      /\ \A d \in decls : d.scope \in Int /\ d.loop \in BOOLEAN
      /\ \A r \in reports : r.of[1] \in Int
  BY <1>1, FRType
<1>4. /\ \A d \in decls : d.scope < next /\ d.scope # next /\ d.var[1] = d.scope /\ (d.loop => d.due)
      /\ \A d, e \in decls : d.var = e.var => d = e
      /\ \A d, e \in decls : d.scope = e.scope /\ d.loop => e.loop
      /\ \A d \in decls : \A i \in 1..Len(open) :
           open[i].id = d.scope => (d.loop <=> open[i].kind = "loop")
      /\ \A c \in m_checked_vars :
           /\ c.scope < next /\ c.scope # next /\ c.self[1] = c.scope
           /\ FR!IsOpen(c.scope) => \E d \in decls : d.var = c.self
      /\ \A u \in uses : \E d \in decls : d.var = u.var
      /\ \A r \in reports : r.of[1] < next /\ r.of[1] # next /\ ~FR!IsOpen(r.of[1])
  BY <1>1, <1>3 DEF FRVariablesInv, FRVariablesAreFresh
<1>5. /\ \A d \in declared : d.scope = next /\ d.var[1] = next /\ (d.loop => d.due)
      /\ \A d, e \in declared : (d.var = e.var => d = e) /\ (d.loop => e.loop)
      /\ \A d \in declared : d.due /\ (d.loop \/ FRShort) => \E c \in checked : c.self = d.var
      /\ \A d \in declared : FRShort /\ (\E c \in checked : c.self = d.var) => d.due
      /\ \A c \in checked : c.scope = next /\ c.self[1] = next
  BY DEF FRIsNew
<1>6. /\ \A d \in decls, e \in declared : d.var # e.var /\ d.scope # e.scope
      /\ \A d \in decls, c \in checked : c.self # d.var
      /\ \A d \in declared, c \in m_checked_vars : c.self # d.var
  BY <1>4, <1>5
<1>7. \A u \in uses \cup used : \E d \in decls : d.var = u.var
  BY <1>2, <1>4
<1>8. \A d \in decls : FRIsChecked(d)' <=> \E c \in kept : c.self = d.var
  BY <1>6 DEF FRIsChecked
<1>9. \A d \in declared : FRIsChecked(d)' <=> \E c \in checked : c.self = d.var
  BY <1>2, <1>6 DEF FRIsChecked
<1>10. ASSUME NEW d \in decls, NEW u \in uses \cup used
       PROVE  FRTouches(d, u)' <=> FRTouches(d, u)
  <2>1. ~\E e \in declared : u.var = e.var
    BY <1>6, <1>7
  <2> QED
    BY <2>1 DEF FRTouches
<1>11. ASSUME NEW d \in declared, NEW u \in uses \cup used
       PROVE  ~FRTouches(d, u)'
  <2>1. ~\E e \in declared : u.var = e.var
    BY <1>6, <1>7
  <2>2. \A e \in decls : ~FR!Together(d, e)
    BY <1>6 DEF FR!Together
  <2> QED
    BY <2>1, <2>2 DEF FRTouches
<1>12. \A d \in decls : FR!IsReported(d)' <=> FR!IsReported(d)
  BY DEF FR!IsReported
<1>13. ASSUME NEW d \in decls, FR!IsReported(d)
       PROVE  ~FR!IsOpen(d.scope) /\ d.scope # next
  <2>1. PICK r \in reports : r.of[1] = d.scope
    <3>1. FR!Note("const-param", d.var).of[1] = d.scope
      BY <1>4 DEF FR!Note
    <3>2. FR!Note("for-range-const", <<d.scope, 0>>).of[1] = d.scope
      BY DEF FR!Note
    <3> QED
      BY <1>13, <3>1, <3>2 DEF FR!IsReported
  <2> QED
    BY <1>4, <2>1
<1>14. FRVariablesAreFresh'
  <2>1. \A d \in decls' : d.scope < next' /\ d.var[1] = d.scope /\ (d.loop => d.due)
    BY <1>3, <1>4, <1>5
  <2>2. \A d, e \in decls' : d.var = e.var => d = e
    BY <1>4, <1>5, <1>6
  <2>3. \A d, e \in decls' : d.scope = e.scope /\ d.loop => e.loop
    BY <1>4, <1>5, <1>6
  <2>4. ASSUME NEW d \in decls', NEW i \in 1..Len(open'), open'[i].id = d.scope
        PROVE  d.loop <=> open'[i].kind = "loop"
    <3>1. CASE d \in decls
      <4>1. i \in 1..Len(open) /\ open'[i] = open[i]
        BY <1>4, <2>4, <3>1
      <4> QED
        BY <1>4, <2>4, <3>1, <4>1
    <3>2. CASE d \in declared
      BY <1>5, <2>4, <3>2
    <3> QED
      BY <3>1, <3>2
  <2>5. ASSUME NEW c \in m_checked_vars'
        PROVE  c.scope < next' /\ c.self[1] = c.scope
    BY <1>2, <1>3, <1>4, <1>5
  <2>6. ASSUME NEW c \in m_checked_vars', FR!IsOpen(c.scope)'
        PROVE  \E d \in decls' : d.var = c.self
    <3>1. CASE c \in checked
      BY <1>5, <2>6, <3>1
    <3>2. CASE c \in kept
      <4>1. c \in m_checked_vars /\ FR!IsOpen(c.scope)
        BY <1>2, <1>4, <2>6, <3>2
      <4> QED
        BY <1>4, <4>1
    <3> QED
      BY <3>1, <3>2
  <2>7. \A u \in uses' : \E d \in decls' : d.var = u.var
    BY <1>7
  <2>8. ASSUME NEW r \in reports', NEW n, n = r.of[1]
        PROVE  n < next' /\ ~FR!IsOpen(n)'
    BY <1>3, <1>4, <2>8
  <2> QED
    BY <2>1, <2>2, <2>3, <2>4, <2>5, <2>6, <2>7, <2>8 DEF FRVariablesAreFresh
<1>15. FRCheckedAreKnown'
  <2> SUFFICES ASSUME NEW c \in m_checked_vars', NEW n, n = c.scope
               PROVE  FR!IsOpen(n)' \/ FRDefaulted(n)'
    BY DEF FRCheckedAreKnown
  <2>1. CASE c \in checked
    BY <1>5, <2>1
  <2>2. CASE c \in kept
    <3>1. FR!IsOpen(n) \/ FRDefaulted(n)
      BY <1>1, <1>2, <2>2 DEF FRVariablesInv, FRCheckedAreKnown
    <3> QED
      BY <3>1
  <2> QED
    BY <2>1, <2>2
<1>16. FRLoopsAreWhole'
  <2> SUFFICES ASSUME NEW d \in decls', NEW e \in decls', d.loop, d.scope = e.scope, FRIsChecked(d)'
               PROVE  FRIsChecked(e)'
    BY DEF FRLoopsAreWhole
  <2>1. CASE d \in decls
    <3>1. e \in decls
      BY <1>6, <2>1
    <3> QED
      BY <1>2, <1>8, <2>1, <3>1
  <2>2. CASE d \in declared
    <3>1. e \in declared
      BY <1>6, <2>2
    <3> QED
      BY <1>5, <1>9, <2>2, <3>1
  <2> QED
    BY <2>1, <2>2
<1>17. FRCheckedAreClean'
  <2> SUFFICES ASSUME NEW d \in decls', FRIsChecked(d)'
               PROVE  (FRShort => d.due) /\ FRClean(d)'
    BY DEF FRCheckedAreClean
  <2>1. CASE d \in decls
    <3>1. FRIsChecked(d) /\ \E c \in kept : c.self = d.var
      BY <1>2, <1>8, <2>1 DEF FRIsChecked
    <3>2. (FRShort => d.due) /\ FRClean(d)
      BY <1>1, <2>1, <3>1 DEF FRVariablesInv, FRCheckedAreClean
    <3> QED
      BY <1>2, <1>10, <2>1, <3>1, <3>2 DEF FRClean
  <2>2. CASE d \in declared
    BY <1>5, <1>9, <1>11, <2>2 DEF FRClean
  <2> QED
    BY <2>1, <2>2
<1>18. ASSUME NEW d \in declared
       PROVE  ~FR!IsReported(d)'
  <2>1. FR!Note("const-param", d.var).of[1] = next /\ FR!Note("for-range-const", <<d.scope, 0>>).of[1] = next
    BY <1>5 DEF FR!Note
  <2> QED
    BY <1>4, <2>1 DEF FR!IsReported
<1>19. FRReportedAreClean'
  <2> SUFFICES ASSUME NEW d \in decls', FR!IsReported(d)'
               PROVE  (FRShort => d.due) /\ FRClean(d)'
    BY DEF FRReportedAreClean
  <2>1. d \in decls /\ FR!IsReported(d)
    BY <1>12, <1>18
  <2>2. (FRShort => d.due) /\ FRClean(d)
    BY <1>1, <2>1 DEF FRVariablesInv, FRReportedAreClean
  <2>3. ASSUME NEW u \in used PROVE ~FRTouches(d, u)
    <3> SUFFICES ASSUME NEW e \in decls, u.var = e.var, FR!Together(d, e) PROVE FALSE
      BY DEF FRTouches
    <3>1. FR!IsOpen(e.scope)
      BY <1>2, <1>4
    <3>2. d.scope = e.scope
      BY <1>4, <2>1 DEF FR!Together
    <3> QED
      BY <1>13, <2>1, <3>1, <3>2
  <2> QED
    BY <1>10, <2>1, <2>2, <2>3 DEF FRClean
<1>20. FRUnusedAreKept'
  <2> SUFFICES ASSUME FRShort, NEW d \in decls', d.due, \A u \in uses' : ~FRTouches(d, u)',
                      NEW n, n = d.scope
               PROVE  IF FR!IsOpen(n)' THEN FRIsChecked(d)' ELSE FR!IsReported(d)'
    BY DEF FRUnusedAreKept, FRShort, FRIsShort
  <2>1. CASE d \in decls
    <3>1. \A u \in uses \cup used : ~FRTouches(d, u)
      BY <1>10, <2>1
    <3>2. IF FR!IsOpen(d.scope) THEN FRIsChecked(d) ELSE FR!IsReported(d)
      BY <1>1, <2>1, <3>1 DEF FRVariablesInv, FRUnusedAreKept
    <3>3. FR!IsOpen(n)' <=> FR!IsOpen(n)
      BY <1>4, <2>1
    <3>4. CASE FR!IsOpen(n)
      BY <1>2, <1>8, <2>1, <3>1, <3>2, <3>3, <3>4
    <3>5. CASE ~FR!IsOpen(n)
      BY <1>12, <2>1, <3>2, <3>3, <3>5
    <3> QED
      BY <3>4, <3>5
  <2>2. CASE d \in declared
    BY <1>5, <1>9, <2>2
  <2> QED
    BY <2>1, <2>2
<1> QED
  BY <1>14, <1>15, <1>16, <1>17, <1>19, <1>20 DEF FRVariablesInv

(* The indices stay as they are, or those of a template are added. *)
FRIsIndexed ==
  \/ UNCHANGED m_non_templated_params
  \/ \E signature \in ConstSignatures :
       /\ next \in FR!Nodes
       /\ m_non_templated_params' =
            [t \in DOMAIN m_non_templated_params \cup {next} |->
               IF t = next THEN FR!NonTemplated(signature) ELSE m_non_templated_params[t]]

(* The types of what FRVisited is about. *)
LEMMA FRVisitedType ==
  ASSUME FRInv, NEW kept, NEW used, FRIsUse(kept, used),
         NEW declared \in SUBSET FR!Decl, NEW checked \in SUBSET FR!CheckedVar,
         FRIsIndexed, UNCHANGED reports,
         m_checked_vars' = checked \cup kept,
         decls' = decls \cup declared,
         uses' = uses \cup used,
         FRStackInv'
  PROVE  FR!TypeOK'
<1> DEFINE N == m_non_templated_params
           I == Seq(0..(IndexValues - 1))
<1>1. FR!TypeOK
  BY DEF FRInv
<1>2. FR!TraversalTypeOK(FR!Kinds)' /\ m_function_decl_stack' \in Seq(FR!FunctionDecl)
  BY DEF FRStackInv
<1>3. kept \subseteq m_checked_vars /\ used \subseteq FR!Use
  BY FRUsed
<1>4. DOMAIN N' \subseteq FR!Nodes /\ \A t \in DOMAIN N' : N'[t] \in I
  <2>1. DOMAIN N \subseteq FR!Nodes /\ \A t \in DOMAIN N : N[t] \in I
    BY <1>1 DEF FR!TypeOK
  <2>2. CASE UNCHANGED N
    BY <2>1, <2>2
  <2>3. CASE ~UNCHANGED N
    <3>1. PICK signature \in ConstSignatures :
            /\ next \in FR!Nodes
            /\ N' = [t \in DOMAIN N \cup {next} |->
                      IF t = next THEN FR!NonTemplated(signature) ELSE N[t]]
      BY <2>3 DEF FRIsIndexed
    <3>2. FR!NonTemplated(signature) \in I
      BY FRNonTemplatedType
    <3> HIDE DEF I
    <3> QED
      BY <2>1, <3>1, <3>2
  <2> QED
    BY <2>2, <2>3
<1> QED
  BY <1>1, <1>2, <1>3, <1>4 DEF FR!TypeOK

(* The parameters that may be checked. *)
LEMMA FRMutable ==
  ASSUME NEW signature \in ConstSignatures
  PROVE  FR!Mutable(signature) \subseteq Nat /\ FR!Mutable(signature) \subseteq 1..Len(signature)
<1>1. FR!Mutable(signature) \subseteq 1..Len(signature)
  BY DEF FR!Mutable
<1>2. Len(signature) \in Nat
  BY FRAtIs
<1> QED
  BY <1>1, <1>2

LEMMA FREnterFunction ==
  ASSUME FRInv, NEW signature \in ConstSignatures, NEW ret \in BOOLEAN,
         NEW what \in {"function", "virtual", "instance", "early instance"},
         FR!EnterFunction(what, signature, ret)
  PROVE  FRInv'
<1> DEFINE M == FR!Mutable(signature)
           looked == {j \in M : \A line \in FR!Lines(what, signature) :
                        j \in FR!not_templated(line, Len(signature))}
           due(i) == what # "virtual" /\ (what = "instance" => ~signature[i].templated)
           var(i) == <<next, i>>
           declared == {[var |-> var(i), scope |-> next, loop |-> FALSE, due |-> due(i)] : i \in M}
           checked == IF what = "virtual" THEN {}
                      ELSE {[scope |-> next, self |-> var(i)] : i \in looked}
<1>1. FRStackInv /\ FR!TypeOK
  BY DEF FRInv
<1>2. /\ FR!Enter("function")
      /\ m_function_decl_stack' =
           Append(m_function_decl_stack, [body |-> next, ret |-> ret, defaulted |-> FALSE])
      /\ m_checked_vars' = checked \cup m_checked_vars
      /\ decls' = decls \cup declared
      /\ uses' = uses \cup {}
      /\ UNCHANGED <<m_non_templated_params, reports>>
  BY DEF FR!EnterFunction, FR!PushFunction, FR!Declare
<1>3. FRStackInv' /\ \A n : FRDefaulted(n) => FRDefaulted(n)'
  BY <1>1, <1>2, FRStackPush
<1>4. /\ next \in FR!Nodes /\ next' = next + 1
      /\ \A n : FR!IsOpen(n)' <=> FR!IsOpen(n) \/ n = next
      /\ \A i \in 1..Len(open') :
           \/ i \in 1..Len(open) /\ open'[i] = open[i]
           \/ open'[i].id = next /\ open'[i].kind = "function"
  BY <1>1, <1>2, FREnter DEF FR!Kinds
<1>5. M \subseteq Nat /\ looked \subseteq M /\ M \subseteq 1..Len(signature)
  <2>1. looked \subseteq M
    OBVIOUS
  <2> HIDE DEF looked
  <2> QED
    BY <2>1, FRMutable
<1>6. ASSUME FRShort, what = "instance", NEW i \in M
      PROVE  i \in looked <=> ~signature[i].templated
  <2>1. FR!not_templated(FR!NonTemplated(signature), Len(signature)) =
          {n \in 1..Len(signature) : ~signature[n].templated}
    BY <1>6, FRRoundTrip DEF FRShort
  <2>2. FR!Lines(what, signature) = {FR!NonTemplated(signature)}
    BY <1>6 DEF FR!Lines
  <2> QED
    BY <1>5, <2>1, <2>2
<1>7. ASSUME what # "instance" PROVE looked = M
  BY <1>7 DEF FR!Lines
<1> HIDE DEF M, looked
<1>8. \A i, j : var(i) = var(j) => i = j
  OBVIOUS
<1>9. \A i \in M : var(i)[1] = next /\ var(i) \in FR!Variables
  BY <1>4, <1>5 DEF FR!Variables
<1>10. \A i \in M : due(i) \in BOOLEAN
  OBVIOUS
<1>11. \A i \in M : FRShort /\ due(i) => i \in looked /\ what # "virtual"
  BY <1>6, <1>7
<1>12. \A i \in looked : FRShort /\ what # "virtual" => due(i)
  BY <1>5, <1>6
<1> HIDE DEF var, due
<1>13. /\ \A d \in declared : \E i \in M :
            d.var = var(i) /\ d.scope = next /\ d.loop = FALSE /\ d.due = due(i)
              /\ d = [var |-> var(i), scope |-> next, loop |-> FALSE, due |-> due(i)]
       /\ \A i \in M : \E d \in declared : d.var = var(i)
       /\ declared \subseteq FR!Decl
  <2>1. \A d \in declared : \E i \in M :
          d = [var |-> var(i), scope |-> next, loop |-> FALSE, due |-> due(i)]
    OBVIOUS
  <2>2. \A i \in M : [var |-> var(i), scope |-> next, loop |-> FALSE, due |-> due(i)] \in declared
    OBVIOUS
  <2>3. \A i \in M : [var |-> var(i), scope |-> next, loop |-> FALSE, due |-> due(i)] \in FR!Decl
    BY <1>4, <1>9, <1>10 DEF FR!Decl
  <2>4. ASSUME NEW d \in declared
        PROVE  /\ d \in FR!Decl
               /\ \E i \in M :
                    d.var = var(i) /\ d.scope = next /\ d.loop = FALSE /\ d.due = due(i)
                      /\ d = [var |-> var(i), scope |-> next, loop |-> FALSE, due |-> due(i)]
    <3> HIDE DEF declared
    <3>1. PICK i \in M :
            d = [var |-> var(i), scope |-> next, loop |-> FALSE, due |-> due(i)]
      BY <2>1
    <3>2. d.var = var(i) /\ d.scope = next /\ d.loop = FALSE /\ d.due = due(i)
      BY <3>1
    <3>3. d \in FR!Decl
      BY <2>3, <3>1
    <3> QED
      BY <3>1, <3>2, <3>3
  <2>5. ASSUME NEW i \in M
        PROVE  \E d \in declared : d.var = var(i)
    <3> HIDE DEF declared
    <3> DEFINE e == [var |-> var(i), scope |-> next, loop |-> FALSE, due |-> due(i)]
    <3>1. e \in declared /\ e.var = var(i)
      BY <2>2
    <3> HIDE DEF e
    <3> QED
      BY <3>1
  <2> HIDE DEF declared
  <2> QED
    BY <2>4, <2>5
<1>14. /\ \A c \in checked : what # "virtual" /\ \E i \in looked : c.scope = next /\ c.self = var(i)
       /\ \A i \in looked : what # "virtual" => \E c \in checked : c.self = var(i)
       /\ checked \subseteq FR!CheckedVar
  <2>1. \A c \in checked :
          what # "virtual" /\ \E i \in looked : c = [scope |-> next, self |-> var(i)]
    OBVIOUS
  <2>2. \A i \in looked : what # "virtual" => [scope |-> next, self |-> var(i)] \in checked
    OBVIOUS
  <2>3. \A i \in looked : [scope |-> next, self |-> var(i)] \in FR!CheckedVar
    BY <1>4, <1>5, <1>9 DEF FR!CheckedVar
  <2> HIDE DEF checked
  <2>4. ASSUME NEW c \in checked
        PROVE  /\ what # "virtual" /\ c \in FR!CheckedVar
               /\ \E i \in looked : c.scope = next /\ c.self = var(i)
    <3>1. PICK i \in looked : what # "virtual" /\ c = [scope |-> next, self |-> var(i)]
      BY <2>1
    <3> QED
      BY <2>3, <3>1
  <2>5. ASSUME NEW i \in looked, what # "virtual"
        PROVE  \E c \in checked : c.self = var(i)
    <3> DEFINE c == [scope |-> next, self |-> var(i)]
    <3>1. c \in checked /\ c.self = var(i)
      BY <2>2, <2>5
    <3> HIDE DEF c
    <3> QED
      BY <3>1
  <2> QED
    BY <2>4, <2>5
<1> HIDE DEF declared, checked
<1>15. FRIsNew(declared, checked)
  <2>1. \A d \in declared : d.scope = next /\ d.var[1] = next /\ (d.loop => d.due)
    BY <1>9, <1>13
  <2>2. ASSUME NEW d \in declared, NEW e \in declared
        PROVE  (d.var = e.var => d = e) /\ (d.loop => e.loop)
    <3>1. PICK i \in M :
            d.var = var(i) /\ d = [var |-> var(i), scope |-> next, loop |-> FALSE, due |-> due(i)]
      BY <1>13
    <3>2. PICK j \in M :
            e.var = var(j) /\ e = [var |-> var(j), scope |-> next, loop |-> FALSE, due |-> due(j)]
      BY <1>13
    <3>3. d.var = e.var => i = j
      BY <1>8, <3>1, <3>2
    <3>4. ~d.loop
      BY <3>1
    <3> QED
      BY <3>1, <3>2, <3>3, <3>4
  <2>3. ASSUME NEW d \in declared, d.due, d.loop \/ FRShort
        PROVE  \E c \in checked : c.self = d.var
    BY <1>11, <1>13, <1>14, <2>3
  <2>4. ASSUME NEW d \in declared, FRShort, NEW c \in checked, c.self = d.var
        PROVE  d.due
    <3>1. PICK i \in M : d.var = var(i) /\ d.due = due(i)
      BY <1>13
    <3>2. PICK j \in looked : what # "virtual" /\ c.self = var(j)
      BY <1>14
    <3>3. i = j
      BY <1>8, <2>4, <3>1, <3>2
    <3> QED
      BY <1>12, <2>4, <3>1, <3>2, <3>3
  <2>5. \A c \in checked : c.scope = next /\ c.self[1] = next
    BY <1>5, <1>9, <1>14
  <2> QED
    BY <2>1, <2>2, <2>3, <2>4, <2>5 DEF FRIsNew
<1>16. \A c \in checked : \E d \in declared : d.var = c.self
  BY <1>5, <1>13, <1>14
<1>17. FRIsUse(m_checked_vars, {})
  BY DEF FRIsUse
<1>18. FRVariablesInv'
  <2>1. \A d \in declared : \A i \in 1..Len(open') :
          open'[i].id = next => (d.loop <=> open'[i].kind = "loop")
    <3>1. \A i \in 1..Len(open) : open[i].id # next
      BY <1>1, FROpenBefore DEF FR!IsOpen
    <3>2. ASSUME NEW i \in 1..Len(open'), open'[i].id = next
          PROVE  open'[i].kind = "function"
      <4>1. ~(i \in 1..Len(open) /\ open'[i] = open[i])
        BY <3>1, <3>2
      <4> QED
        BY <1>4, <4>1
    <3> QED
      BY <1>13, <3>2
  <2>2. \A i \in 1..Len(open') : open'[i].id # next => i \in 1..Len(open) /\ open'[i] = open[i]
    BY <1>4
  <2> QED
    BY <1>2, <1>3, <1>4, <1>15, <1>16, <1>17, <2>1, <2>2, FRVisited
<1>19. FR!TypeOK'
  BY <1>2, <1>3, <1>13, <1>14, <1>17, FRVisitedType DEF FRIsIndexed
<1> QED
  BY <1>3, <1>18, <1>19 DEF FRInv

LEMMA FRVisitDefaulted ==
  ASSUME FRInv, NEW signature \in ConstSignatures, NEW ret \in BOOLEAN,
         FR!VisitDefaulted(signature, ret)
  PROVE  FRInv'
<1> DEFINE M == FR!Mutable(signature)
           looked == {j \in M : \A line \in FR!Lines("defaulted", signature) :
                        j \in FR!not_templated(line, Len(signature))}
           checked == {[scope |-> next, self |-> <<next, i>>] : i \in looked}
<1>1. FRStackInv /\ FR!TypeOK
  BY DEF FRInv
<1>2. /\ FR!VisitLeaf
      /\ m_function_decl_stack' =
           Append(m_function_decl_stack, [body |-> next, ret |-> ret, defaulted |-> TRUE])
      /\ m_checked_vars' = checked \cup m_checked_vars
      /\ decls' = decls \cup {}
      /\ uses' = uses \cup {}
      /\ UNCHANGED <<m_non_templated_params, reports>>
  BY DEF FR!VisitDefaulted, FR!PushFunction
<1>3. FRStackInv' /\ (\A n : FRDefaulted(n) => FRDefaulted(n)') /\ (\A n : n = next => FRDefaulted(n)')
  BY <1>1, <1>2, FRStackPush
<1>4. /\ next \in FR!Nodes /\ next' = next + 1 /\ open' = open
      /\ \A n : FR!IsOpen(n)' <=> FR!IsOpen(n)
  BY <1>1, <1>2, FRVisitLeaf
<1>5. \A i \in looked : i \in Nat
  BY FRMutable
<1> HIDE DEF looked
<1>6. checked \subseteq FR!CheckedVar /\ \A c \in checked : c.scope = next /\ c.self[1] = next
  BY <1>4, <1>5 DEF FR!CheckedVar, FR!Variables
<1> HIDE DEF checked
<1> DEFINE none == {}
<1>7. FRIsNew(none, checked)
  BY <1>6 DEF FRIsNew
<1>8. FRIsUse(m_checked_vars, none)
  BY DEF FRIsUse
<1>9. \A n : n = next => ~FR!IsOpen(n)'
  BY <1>1, <1>4, FROpenBefore
<1>10. none \in SUBSET FR!Decl /\ none = {}
  OBVIOUS
<1>11. decls' = decls \cup none /\ uses' = uses \cup none
  BY <1>2
<1> HIDE DEF none
<1>12. FRVariablesInv'
  BY <1>2, <1>3, <1>4, <1>7, <1>8, <1>9, <1>10, <1>11, FRVisited
<1>13. FR!TypeOK'
  BY <1>2, <1>3, <1>6, <1>8, <1>10, <1>11, FRVisitedType DEF FRIsIndexed
<1> QED
  BY <1>3, <1>12, <1>13 DEF FRInv

(* A node that declares nothing. *)
LEMMA FRQuiet ==
  ASSUME FRInv, NEW used, FRIsUse(m_checked_vars', used),
         uses' = uses \cup used,
         FRIsIndexed, UNCHANGED <<m_function_decl_stack, reports, decls>>,
         \/ FR!VisitLeaf
         \/ \E kind \in FR!Kinds \ {"function"} : FR!Enter(kind)
  PROVE  FRInv'
<1> DEFINE none == {}
           kept == m_checked_vars'
<1>1. FRStackInv
  BY DEF FRInv
<1>2. FRStackInv' /\ \A n : FRDefaulted(n) => FRDefaulted(n)'
  BY <1>1, FRStackSame
<1>3. /\ next' = next + 1
      /\ \A n : FR!IsOpen(n)' => FR!IsOpen(n) \/ n = next
      /\ \A n : FR!IsOpen(n) => FR!IsOpen(n)'
      /\ \A i \in 1..Len(open') : open'[i].id # next => i \in 1..Len(open) /\ open'[i] = open[i]
  <2>1. CASE FR!VisitLeaf
    BY <1>1, <2>1, FRVisitLeaf
  <2>2. CASE \E kind \in FR!Kinds \ {"function"} : FR!Enter(kind)
    <3>1. PICK kind \in FR!Kinds \ {"function"} : FR!Enter(kind)
      BY <2>2
    <3> QED
      BY <1>1, <3>1, FREnter
  <2> QED
    BY <2>1, <2>2
<1>4. FRIsNew(none, none)
  BY DEF FRIsNew
<1>5. /\ none \in SUBSET FR!Decl /\ none \in SUBSET FR!CheckedVar /\ none = {}
      /\ m_checked_vars' = none \cup kept /\ decls' = decls \cup none
  OBVIOUS
<1>6. FRIsUse(kept, used)
  OBVIOUS
<1> HIDE DEF none, kept
<1>7. FRVariablesInv'
  BY <1>2, <1>3, <1>4, <1>5, <1>6, FRVisited
<1>8. FR!TypeOK'
  BY <1>2, <1>5, <1>6, FRVisitedType
<1> QED
  BY <1>2, <1>7, <1>8 DEF FRInv

LEMMA FREnterTemplate ==
  ASSUME FRInv, NEW signature \in ConstSignatures, FR!EnterTemplate(signature)
  PROVE  FRInv'
<1>1. /\ FR!Enter("template") /\ "template" \in FR!Kinds \ {"function"}
      /\ UNCHANGED <<m_checked_vars, m_function_decl_stack, reports, decls, uses>>
  BY DEF FR!EnterTemplate, FR!Kinds
<1>2. FRStackInv
  BY DEF FRInv
<1>3. next \in FR!Nodes
  BY <1>1, <1>2, FREnter
<1>4. FRIsIndexed
  BY <1>3 DEF FRIsIndexed, FR!EnterTemplate
<1>5. FRIsUse(m_checked_vars', {})
  BY <1>1 DEF FRIsUse
<1>6. uses' = uses \cup {}
  BY <1>1
<1> QED
  BY <1>1, <1>4, <1>5, <1>6, FRQuiet

LEMMA FREnterLambda ==
  ASSUME FRInv, FR!EnterLambda
  PROVE  FRInv'
<1>1. /\ FR!Enter("lambda") /\ "lambda" \in FR!Kinds \ {"function"}
      /\ UNCHANGED <<m_checked_vars, m_function_decl_stack, reports, decls, uses>>
      /\ FRIsIndexed
  BY DEF FR!EnterLambda, FR!Kinds, FRIsIndexed
<1>2. FRIsUse(m_checked_vars', {})
  BY <1>1 DEF FRIsUse
<1>3. uses' = uses \cup {}
  BY <1>1
<1> QED
  BY <1>1, <1>2, <1>3, FRQuiet

(* The uses of a variable, other than for a loop. *)
LEMMA FRVisitUse ==
  ASSUME FRInv, NEW x \in FR!InScope, NEW how \in FR!Hows \ {"looped"},
         NEW path \in Seq(FR!Step), NEW found,
         FR!VisitLeaf, FR!RemoveIf(found, x), FR!Remember(x, how, path),
         how \in {"modified", "returned"} /\ FR!IsSeen(path) => found,
         UNCHANGED <<m_non_templated_params, m_function_decl_stack, reports, decls>>
  PROVE  FRInv'
<1> DEFINE u == [var |-> x, how |-> how, path |-> path]
<1>1. uses' = uses \cup {u}
  BY DEF FR!Remember
<1>2. m_checked_vars' = IF found THEN FR!removeCheckedVar(m_checked_vars, x) ELSE m_checked_vars
  BY DEF FR!RemoveIf
<1>3. u \in FR!Use /\ u.var = x
  <2>1. FR!TypeOK
    BY DEF FRInv
  <2>2. PICK d \in decls : d.var = x
    BY DEF FR!InScope
  <2>3. x \in FR!Variables
    BY <2>1, <2>2 DEF FR!TypeOK, FR!Decl
  <2> QED
    BY <2>3 DEF FR!Use
<1>4. ~found => ~FR!MustBeMutable(u)
  BY DEF FR!MustBeMutable
<1> HIDE DEF u
<1>5. FRIsUse(m_checked_vars', {u})
  BY <1>2, <1>3, <1>4 DEF FRIsUse
<1> QED
  BY <1>1, <1>5, FRQuiet DEF FRIsIndexed

LEMMA FRVisitModification ==
  ASSUME FRInv, NEW x \in FR!InScope, NEW path \in Paths, FR!VisitModification(x, path)
  PROVE  FRInv'
<1>1. path \in Seq(FR!Step)
  BY FunctionsAssumption DEF FR!ForRangeConstAssumption
<1>2. /\ FR!VisitLeaf /\ FR!RemoveIf(FR!Finds(path), x) /\ FR!Remember(x, "modified", path)
      /\ UNCHANGED <<m_non_templated_params, m_function_decl_stack, reports, decls>>
      /\ "modified" \in FR!Hows \ {"looped"}
  BY DEF FR!VisitModification, FR!Hows
<1>3. FR!IsSeen(path) => FR!Finds(path)
  BY <1>1, FRFindsSeen
<1> QED
  BY <1>1, <1>2, <1>3, FRVisitUse

LEMMA FRVisitIncrement ==
  ASSUME FRInv, NEW x \in FR!InScope, FR!VisitIncrement(x)
  PROVE  FRInv'
<1>1. /\ FR!VisitLeaf /\ FR!RemoveIf(FALSE, x) /\ FR!Remember(x, "incremented", <<>>)
      /\ UNCHANGED <<m_non_templated_params, m_function_decl_stack, reports, decls>>
      /\ "incremented" \in FR!Hows \ {"looped"} /\ <<>> \in Seq(FR!Step)
  BY DEF FR!VisitIncrement, FR!Hows, FR!RemoveIf
<1> QED
  BY <1>1, FRVisitUse

LEMMA FRVisitHiddenDecl ==
  ASSUME FRInv, NEW x \in FR!InScope, FR!VisitHiddenDecl(x)
  PROVE  FRInv'
<1>1. /\ FR!VisitLeaf /\ FR!RemoveIf(FALSE, x) /\ FR!Remember(x, "hidden", <<>>)
      /\ UNCHANGED <<m_non_templated_params, m_function_decl_stack, reports, decls>>
      /\ "hidden" \in FR!Hows \ {"looped"} /\ <<>> \in Seq(FR!Step)
  BY DEF FR!VisitHiddenDecl, FR!Hows, FR!RemoveIf
<1> QED
  BY <1>1, FRVisitUse

LEMMA FRVisitReturnStmt ==
  ASSUME FRInv, NEW x \in FR!InScope, NEW path \in Paths, FR!VisitReturnStmt(x, path)
  PROVE  FRInv'
<1> DEFINE s == m_function_decl_stack
           found == s # <<>> /\ s[Len(s)].ret /\ FR!Finds(path)
<1>1. path \in Seq(FR!Step)
  BY FunctionsAssumption DEF FR!ForRangeConstAssumption
<1>2. FR!IsSeen(path) => FR!Finds(path)
  BY <1>1, FRFindsSeen
<1>3. /\ FR!VisitLeaf /\ FR!RemoveIf(found, x)
      /\ UNCHANGED <<m_non_templated_params, m_function_decl_stack, reports, decls>>
      /\ "returned" \in FR!Hows \ {"looped"} /\ "strayed" \in FR!Hows \ {"looped"}
  BY DEF FR!VisitReturnStmt, FR!Hows, FR!Top
<1>4. CASE FR!IsOwn
  <2>1. s[Len(s)].ret /\ FR!Remember(x, "returned", path) /\ s # <<>>
    BY <1>4 DEF FR!VisitReturnStmt, FR!Top, FR!IsOwn
  <2>2. FR!IsSeen(path) => found
    BY <1>2, <2>1
  <2> HIDE DEF found
  <2> QED
    BY <1>1, <1>3, <2>1, <2>2, FRVisitUse
<1>5. CASE ~FR!IsOwn
  <2>1. FR!Remember(x, "strayed", path)
    BY <1>5 DEF FR!VisitReturnStmt
  <2> HIDE DEF found
  <2> QED
    BY <1>1, <1>3, <2>1, FRVisitUse
<1> QED
  BY <1>4, <1>5

LEMMA FREnterLoop ==
  ASSUME FRInv, NEW loop \in FR!Loop, NEW range \in FR!Ranges,
         FR!EnterLoop(loop, range)
  PROVE  FRInv'
<1> DEFINE I == 1..loop.bindings
           var(i) == <<next, i>>
           dec(i) == [var |-> var(i), scope |-> next, loop |-> TRUE, due |-> TRUE]
           declared == {dec(i) : i \in I}
           checked == {[scope |-> next, self |-> var(i)] : i \in I}
           used == {[var |-> r.var, how |-> "looped", path |-> r.path] : r \in range}
           kept == IF \E r \in range : FR!Extracts(r.path)
                     THEN UNION {FR!removeCheckedVar(m_checked_vars, r.var) : r \in range}
                     ELSE m_checked_vars
<1>1. FRStackInv /\ FR!TypeOK
  BY DEF FRInv
<1>2. /\ FR!Enter("loop") /\ "loop" \in FR!Kinds \ {"function"}
      /\ m_checked_vars' = checked \cup kept
      /\ decls' = decls \cup declared
      /\ uses' = uses \cup used
      /\ UNCHANGED <<m_non_templated_params, m_function_decl_stack, reports>>
  BY DEF FR!EnterLoop, FR!Kinds
<1>3. FRStackInv' /\ \A n : FRDefaulted(n) => FRDefaulted(n)'
  BY <1>1, <1>2, FRStackSame
<1>4. /\ next \in FR!Nodes /\ next' = next + 1
      /\ \A n : FR!IsOpen(n)' <=> FR!IsOpen(n) \/ n = next
      /\ \A i \in 1..Len(open') :
           \/ i \in 1..Len(open) /\ open'[i] = open[i]
           \/ open'[i].id = next /\ open'[i].kind = "loop"
  BY <1>1, <1>2, FREnter
<1>5. I \subseteq Nat
  <2>1. loop.bindings \in Nat
    BY DEF FR!Loop
  <2> QED
    BY <2>1
<1>6. FRIsUse(kept, used)
  <2>1. CASE range = {}
    <3>1. used = {} /\ kept = m_checked_vars
      BY <2>1
    <3> QED
      BY <3>1 DEF FRIsUse
  <2>2. CASE range # {}
    <3>1. PICK x \in FR!InScope, p \in Paths : range = {[var |-> x, path |-> p]}
      BY <2>2 DEF FR!Ranges
    <3> DEFINE r == [var |-> x, path |-> p]
               u == [var |-> x, how |-> "looped", path |-> p]
    <3>2. used = {u}
      BY <3>1
    <3>3. kept = IF FR!Extracts(p) THEN FR!removeCheckedVar(m_checked_vars, x) ELSE m_checked_vars
      <4>1. r.path = p /\ r.var = x /\ range = {r}
        BY <3>1
      <4> HIDE DEF r
      <4> QED
        BY <4>1
    <3>4. u \in FR!Use /\ u.var = x
      <4>1. PICK d \in decls : d.var = x
        BY DEF FR!InScope
      <4>2. x \in FR!Variables
        BY <1>1, <4>1 DEF FR!TypeOK, FR!Decl
      <4>3. p \in Seq(FR!Step)
        BY FunctionsAssumption DEF FR!ForRangeConstAssumption
      <4> QED
        BY <4>2, <4>3 DEF FR!Use, FR!Hows
    <3>5. ~FR!Extracts(p) => ~FR!MustBeMutable(u)
      BY DEF FR!MustBeMutable, FR!IsPlain, FR!Extracts
    <3> HIDE DEF u, used, kept
    <3> QED
      BY <3>2, <3>3, <3>4, <3>5 DEF FRIsUse
  <2> QED
    BY <2>1, <2>2
<1> HIDE DEF I, used, kept
<1>7. \A i, j \in I : var(i) = var(j) => i = j
  OBVIOUS
<1>8. \A i \in I : var(i)[1] = next /\ var(i) \in FR!Variables
  BY <1>4, <1>5 DEF FR!Variables
<1> HIDE DEF var
<1>9. /\ \A i \in I : /\ dec(i) \in FR!Decl /\ dec(i).var = var(i) /\ dec(i).scope = next
                      /\ dec(i).loop /\ dec(i).due
  BY <1>4, <1>8 DEF FR!Decl
<1> HIDE DEF dec
<1>10. /\ \A d \in declared : \E i \in I : d = dec(i)
       /\ \A i \in I : dec(i) \in declared
       /\ declared \subseteq FR!Decl
       /\ \A c \in checked : \E i \in I : c = [scope |-> next, self |-> var(i)]
       /\ \A i \in I : [scope |-> next, self |-> var(i)] \in checked
       /\ checked \subseteq FR!CheckedVar
  <2>1. /\ \A d \in declared : \E i \in I : d = dec(i)
        /\ \A i \in I : dec(i) \in declared
    OBVIOUS
  <2>2. /\ \A c \in checked : \E i \in I : c = [scope |-> next, self |-> var(i)]
        /\ \A i \in I : [scope |-> next, self |-> var(i)] \in checked
    OBVIOUS
  <2>3. \A i \in I : [scope |-> next, self |-> var(i)] \in FR!CheckedVar
    BY <1>4, <1>8 DEF FR!CheckedVar
  <2> HIDE DEF declared, checked
  <2> QED
    BY <1>9, <2>1, <2>2, <2>3
<1> HIDE DEF declared, checked
<1>11. ASSUME NEW d \in declared
       PROVE  /\ d.scope = next /\ d.var[1] = next /\ d.loop /\ d.due
              /\ \E c \in checked : c.self = d.var
              /\ \A e \in declared : d.var = e.var => d = e
  <2>1. PICK i \in I : d = dec(i)
    BY <1>10
  <2>2. d.scope = next /\ d.var = var(i) /\ d.loop /\ d.due
    BY <1>9, <2>1
  <2>3. [scope |-> next, self |-> var(i)] \in checked /\ [scope |-> next, self |-> var(i)].self = d.var
    BY <1>10, <2>2
  <2>4. ASSUME NEW e \in declared, d.var = e.var PROVE d = e
    <3>1. PICK j \in I : e = dec(j)
      BY <1>10
    <3>2. i = j
      <4>1. e.var = var(j)
        BY <1>9, <3>1
      <4>2. var(i) = var(j)
        BY <2>2, <2>4, <4>1
      <4> QED
        BY <1>7, <4>2
    <3> QED
      BY <2>1, <3>1, <3>2
  <2> QED
    BY <1>8, <2>2, <2>3, <2>4
<1>12. ASSUME NEW c \in checked
       PROVE  /\ c.scope = next /\ c.self[1] = next
              /\ \E d \in declared : d.var = c.self
  <2>1. PICK i \in I : c = [scope |-> next, self |-> var(i)]
    BY <1>10
  <2>2. c.scope = next /\ c.self = var(i)
    BY <2>1
  <2>3. dec(i) \in declared /\ dec(i).var = c.self
    BY <1>9, <1>10, <2>2
  <2> QED
    BY <1>8, <2>2, <2>3
<1>13. FRIsNew(declared, checked)
  BY <1>11, <1>12 DEF FRIsNew
<1>14. FRVariablesInv'
  <2>1. \A d \in declared : \A i \in 1..Len(open') :
          open'[i].id = next => (d.loop <=> open'[i].kind = "loop")
    <3>1. \A i \in 1..Len(open) : open[i].id # next
      BY <1>1, FROpenBefore DEF FR!IsOpen
    <3>2. ASSUME NEW i \in 1..Len(open'), open'[i].id = next
          PROVE  open'[i].kind = "loop"
      <4>1. ~(i \in 1..Len(open) /\ open'[i] = open[i])
        BY <3>1, <3>2
      <4> QED
        BY <1>4, <4>1
    <3> QED
      BY <1>11, <3>2
  <2>2. \A i \in 1..Len(open') : open'[i].id # next => i \in 1..Len(open) /\ open'[i] = open[i]
    BY <1>4
  <2> QED
    BY <1>2, <1>3, <1>4, <1>6, <1>12, <1>13, <2>1, <2>2, FRVisited
<1>15. FR!TypeOK'
  <2>1. FRIsIndexed /\ UNCHANGED reports
    BY <1>2 DEF FRIsIndexed
  <2>2. declared \in SUBSET FR!Decl /\ checked \in SUBSET FR!CheckedVar
    BY <1>10
  <2> QED
    BY <1>2, <1>3, <1>6, <2>1, <2>2, FRVisitedType
<1> QED
  BY <1>3, <1>14, <1>15 DEF FRInv

(* The variables of the node that is left are reported, all that are checked. *)
LEMMA FRLeave ==
  ASSUME FRInv, FR!Leave
  PROVE  FRInv'
<1> DEFINE top == open[Len(open)]
           mine == {c \in m_checked_vars : c.scope = top.id}
<1>1. FRStackInv /\ FR!TypeOK /\ FRVariablesInv
  BY DEF FRInv
<1>2. /\ reports' = reports \cup FR!Reported(top, mine)
      /\ m_checked_vars' = m_checked_vars \ mine
      /\ UNCHANGED <<m_non_templated_params, decls, uses>>
  BY DEF FR!Leave, FR!Top
<1>3. /\ FRStackInv' /\ next' = next /\ Len(open) \in 1..Len(open)
      /\ \A n : FR!IsOpen(n)' <=> FR!IsOpen(n) /\ n # top.id
      /\ \A n : FRDefaulted(n) => FRDefaulted(n)'
      /\ \A i \in 1..Len(open') : i \in 1..Len(open) /\ open'[i] = open[i]
  BY <1>1, FRStackLeave
<1>4. FR!IsOpen(top.id)
  BY <1>3 DEF FR!IsOpen
<1>5. /\ next \in Int
      /\ \A c \in m_checked_vars : c.scope \in Int
      /\ \A d \in decls : d.scope \in Int /\ d.loop \in BOOLEAN
      /\ \A r \in reports : r.of[1] \in Int
  BY <1>1, FRType
<1>6. /\ \A d \in decls : d.scope < next /\ d.var[1] = d.scope /\ (d.loop => d.due)
      /\ \A d, e \in decls : d.var = e.var => d = e
      /\ \A d, e \in decls : d.scope = e.scope /\ d.loop => e.loop
      /\ \A d \in decls : \A i \in 1..Len(open) :
           open[i].id = d.scope => (d.loop <=> open[i].kind = "loop")
      /\ \A c \in m_checked_vars :
           /\ c.scope < next /\ c.self[1] = c.scope
           /\ FR!IsOpen(c.scope) => \E d \in decls : d.var = c.self
      /\ \A u \in uses : \E d \in decls : d.var = u.var
      /\ \A r \in reports : r.of[1] < next /\ ~FR!IsOpen(r.of[1])
  BY <1>1 DEF FRVariablesInv, FRVariablesAreFresh
<1>7. /\ \A c \in m_checked_vars' : c \in m_checked_vars /\ c.scope # top.id
      /\ \A c \in m_checked_vars : c.scope # top.id => c \in m_checked_vars'
  BY <1>2
<1>8. \A d \in decls : FRIsChecked(d)' <=> FRIsChecked(d) /\ d.scope # top.id
  BY <1>6, <1>7 DEF FRIsChecked
<1>9. \A d \in decls, u \in uses : FRTouches(d, u)' <=> FRTouches(d, u)
  BY <1>2 DEF FRTouches
<1>10. \A d \in decls : FRClean(d)' <=> FRClean(d)
  BY <1>2, <1>9 DEF FRClean
<1>11. ASSUME NEW r \in FR!Reported(top, mine)
       PROVE  \E c \in mine :
                r = IF top.kind = "loop" THEN FR!Note("for-range-const", <<c.scope, 0>>)
                    ELSE FR!Note("const-param", c.self)
  BY DEF FR!Reported
<1>12. ASSUME NEW c \in mine
       PROVE  (IF top.kind = "loop" THEN FR!Note("for-range-const", <<c.scope, 0>>)
               ELSE FR!Note("const-param", c.self)) \in FR!Reported(top, mine)
  BY DEF FR!Reported
<1>13. \A c \in mine : c \in m_checked_vars /\ c.scope = top.id /\ c.self[1] = top.id
  BY <1>6
<1>14. \A c \in m_checked_vars : c.scope = top.id => c \in mine
  OBVIOUS
<1> HIDE DEF mine
<1>15. \A r \in FR!Reported(top, mine) :
         r.of[1] = top.id /\ r \in [what : FR!Messages, of : FR!Variables]
  <2> SUFFICES ASSUME NEW r \in FR!Reported(top, mine)
               PROVE  r.of[1] = top.id /\ r \in [what : FR!Messages, of : FR!Variables]
    OBVIOUS
  <2>1. PICK c \in mine :
          r = IF top.kind = "loop" THEN FR!Note("for-range-const", <<c.scope, 0>>)
              ELSE FR!Note("const-param", c.self)
    BY <1>11
  <2>2. c.scope = top.id /\ c.self[1] = top.id
    BY <1>13
  <2>3. c.scope \in FR!Nodes /\ c.self \in FR!Variables
    BY <1>1, <1>13 DEF FR!TypeOK, FR!CheckedVar
  <2>4. CASE top.kind = "loop"
    <3>1. r = [what |-> "for-range-const", of |-> <<c.scope, 0>>]
      BY <2>1, <2>4 DEF FR!Note
    <3> QED
      BY <2>2, <2>3, <3>1 DEF FR!Messages, FR!Variables
  <2>5. CASE top.kind # "loop"
    <3>1. r = [what |-> "const-param", of |-> c.self]
      BY <2>1, <2>5 DEF FR!Note
    <3> QED
      BY <2>2, <2>3, <3>1 DEF FR!Messages
  <2> QED
    BY <2>4, <2>5
<1>16. FR!TypeOK'
  <2>1. FR!TraversalTypeOK(FR!Kinds)' /\ m_function_decl_stack' \in Seq(FR!FunctionDecl)
    BY <1>3 DEF FRStackInv
  <2> QED
    BY <1>1, <1>2, <1>7, <1>15, <2>1 DEF FR!TypeOK
<1>17. FRVariablesAreFresh'
  <2>1. /\ \A d \in decls' : d.scope < next' /\ d.var[1] = d.scope /\ (d.loop => d.due)
        /\ \A d, e \in decls' : d.var = e.var => d = e
        /\ \A d, e \in decls' : d.scope = e.scope /\ d.loop => e.loop
        /\ \A u \in uses' : \E d \in decls' : d.var = u.var
    BY <1>2, <1>3, <1>6
  <2>2. \A d \in decls' : \A i \in 1..Len(open') :
          open'[i].id = d.scope => (d.loop <=> open'[i].kind = "loop")
    BY <1>2, <1>3, <1>6
  <2>3. ASSUME NEW c \in m_checked_vars'
        PROVE  /\ c.scope < next' /\ c.self[1] = c.scope
               /\ FR!IsOpen(c.scope)' => \E d \in decls' : d.var = c.self
    BY <1>2, <1>3, <1>6, <1>7
  <2>4. ASSUME NEW r \in reports', NEW n, n = r.of[1]
        PROVE  n < next' /\ ~FR!IsOpen(n)'
    <3>1. CASE r \in reports
      BY <1>3, <1>6, <2>4, <3>1
    <3>2. CASE r \in FR!Reported(top, mine)
      BY <1>1, <1>3, <1>4, <1>15, <2>4, <3>2, FROpenBefore
    <3> QED
      BY <1>2, <3>1, <3>2
  <2> QED
    BY <2>1, <2>2, <2>3, <2>4 DEF FRVariablesAreFresh
<1>18. FRCheckedAreKnown'
  <2> SUFFICES ASSUME NEW c \in m_checked_vars', NEW n, n = c.scope
               PROVE  FR!IsOpen(n)' \/ FRDefaulted(n)'
    BY DEF FRCheckedAreKnown
  <2>1. FR!IsOpen(n) \/ FRDefaulted(n)
    BY <1>1, <1>7 DEF FRVariablesInv, FRCheckedAreKnown
  <2> QED
    BY <1>3, <1>7, <2>1
<1>19. FRLoopsAreWhole'
  BY <1>1, <1>2, <1>8 DEF FRVariablesInv, FRLoopsAreWhole
<1>20. FRCheckedAreClean'
  BY <1>1, <1>2, <1>8, <1>10 DEF FRVariablesInv, FRCheckedAreClean
<1>21. ASSUME NEW d \in decls, FR!IsReported(d)'
       PROVE  FR!IsReported(d) \/ FRIsChecked(d)
  <2> DEFINE r == IF d.loop THEN FR!Note("for-range-const", <<d.scope, 0>>)
                  ELSE FR!Note("const-param", d.var)
  <2>1. r \in reports'
    BY <1>21 DEF FR!IsReported
  <2>2. CASE r \in reports
    BY <2>2 DEF FR!IsReported
  <2>3. CASE r \in FR!Reported(top, mine)
    <3>1. PICK c \in mine :
            r = IF top.kind = "loop" THEN FR!Note("for-range-const", <<c.scope, 0>>)
                ELSE FR!Note("const-param", c.self)
      BY <1>11, <2>3
    <3>2. CASE d.loop
      <4>1. r.what = "for-range-const" /\ r.of = <<d.scope, 0>>
        BY <3>2 DEF FR!Note
      <4>2. top.kind = "loop"
        BY <3>1, <4>1 DEF FR!Note
      <4>3. r.of = <<c.scope, 0>>
        BY <3>1, <4>2 DEF FR!Note
      <4>4. d.scope = c.scope
        BY <4>1, <4>3
      <4>5. PICK e \in decls : e.var = c.self
        BY <1>4, <1>6, <1>13
      <4>6. e.scope = d.scope /\ FRIsChecked(e)
        BY <1>6, <1>13, <4>4, <4>5 DEF FRIsChecked
      <4>7. e.loop
        BY <1>6, <3>2, <4>6
      <4> QED
        BY <1>1, <4>6, <4>7 DEF FRVariablesInv, FRLoopsAreWhole
    <3>3. CASE ~d.loop
      <4>1. r.what = "const-param" /\ r.of = d.var
        BY <3>3 DEF FR!Note
      <4>2. top.kind # "loop"
        BY <3>1, <4>1 DEF FR!Note
      <4>3. r.of = c.self
        BY <3>1, <4>2 DEF FR!Note
      <4> QED
        BY <1>13, <4>1, <4>3 DEF FRIsChecked
    <3> QED
      BY <3>2, <3>3
  <2> HIDE DEF r
  <2> QED
    BY <1>2, <2>1, <2>2, <2>3
<1>22. FRReportedAreClean'
  BY <1>1, <1>2, <1>10, <1>21 DEF FRVariablesInv, FRCheckedAreClean, FRReportedAreClean
<1>23. FRUnusedAreKept'
  <2> SUFFICES ASSUME FRShort, NEW d \in decls', d.due, \A u \in uses' : ~FRTouches(d, u)',
                      NEW n, n = d.scope
               PROVE  IF FR!IsOpen(n)' THEN FRIsChecked(d)' ELSE FR!IsReported(d)'
    BY DEF FRUnusedAreKept, FRShort, FRIsShort
  <2>1. d \in decls /\ \A u \in uses : ~FRTouches(d, u)
    BY <1>2, <1>9
  <2>2. IF FR!IsOpen(d.scope) THEN FRIsChecked(d) ELSE FR!IsReported(d)
    BY <1>1, <2>1 DEF FRVariablesInv, FRUnusedAreKept
  <2>3. CASE FR!IsOpen(n)'
    BY <1>3, <1>8, <2>1, <2>2, <2>3
  <2>4. CASE ~FR!IsOpen(n)
    BY <1>2, <1>3, <2>2, <2>4 DEF FR!IsReported
  <2>5. CASE n = top.id
    <3>1. PICK c \in m_checked_vars : c.self = d.var
      BY <1>4, <2>2, <2>5 DEF FRIsChecked
    <3>2. c \in mine /\ c.scope = d.scope
      <4>1. c.self[1] = c.scope /\ d.var[1] = d.scope
        BY <1>6, <2>1, <3>1
      <4>2. c.scope = top.id
        BY <2>5, <3>1, <4>1
      <4> QED
        BY <1>14, <2>5, <3>1, <4>2
    <3>3. d.loop <=> top.kind = "loop"
      <4>1. \A i \in 1..Len(open) : open[i].id = d.scope => (d.loop <=> open[i].kind = "loop")
        BY <1>6, <2>1
      <4> QED
        BY <1>3, <2>5, <4>1
    <3>4. (IF d.loop THEN FR!Note("for-range-const", <<d.scope, 0>>)
           ELSE FR!Note("const-param", d.var)) \in reports'
      BY <1>2, <1>12, <3>1, <3>2, <3>3
    <3>5. ~FR!IsOpen(n)'
      BY <1>3, <2>5
    <3> QED
      BY <3>4, <3>5 DEF FR!IsReported
  <2> QED
    BY <1>3, <2>3, <2>4, <2>5
<1> QED
  BY <1>3, <1>16, <1>17, <1>18, <1>19, <1>20, <1>22, <1>23 DEF FRInv, FRVariablesInv

LEMMA FRInit ==
  ASSUME FR!Init
  PROVE  FRInv
<1>1. /\ open = <<>> /\ next = 1 /\ m_checked_vars = {} /\ m_non_templated_params = <<>>
      /\ m_function_decl_stack = <<>> /\ reports = {} /\ decls = {} /\ uses = {}
  BY DEF FR!Init, FR!TraversalInit
<1>2. /\ Len(open) = 0 /\ Len(m_function_decl_stack) = 0
      /\ next \in 1..(MaxNodes + 1) /\ open \in Seq([id : FR!Nodes, kind : FR!Kinds])
      /\ m_function_decl_stack \in Seq(FR!FunctionDecl)
      /\ DOMAIN m_non_templated_params = {}
  BY <1>1, TraversalAssumption
<1>3. FR!TypeOK
  BY <1>1, <1>2 DEF FR!TypeOK, FR!TraversalTypeOK
<1>4. FRStackInv
  <2>1. OpenIsOrdered /\ FRDefaultedAreClosed
    BY <1>2 DEF OpenIsOrdered, FRDefaultedAreClosed
  <2>2. FR!FunctionsAreStacked
    BY <1>2 DEF FR!FunctionsAreStacked
  <2> QED
    BY <1>3, <2>1, <2>2 DEF FRStackInv, FR!TypeOK
<1>5. FRVariablesInv
  BY <1>1 DEF FRVariablesInv, FRVariablesAreFresh, FRCheckedAreKnown, FRLoopsAreWhole,
     FRCheckedAreClean, FRReportedAreClean, FRUnusedAreKept
<1> QED
  BY <1>3, <1>4, <1>5 DEF FRInv

LEMMA FRNext ==
  ASSUME FRInv, FR!Next
  PROVE  FRInv'
<1>1. ASSUME NEW signature \in ConstSignatures, NEW ret \in BOOLEAN,
             \/ \E what \in {"function", "virtual", "instance", "early instance"} :
                  FR!EnterFunction(what, signature, ret)
             \/ FR!VisitDefaulted(signature, ret)
      PROVE  FRInv'
  BY <1>1, FREnterFunction, FRVisitDefaulted
<1>2. ASSUME NEW x \in FR!InScope, NEW path \in Paths,
             FR!VisitModification(x, path) \/ FR!VisitReturnStmt(x, path)
      PROVE  FRInv'
  BY <1>2, FRVisitModification, FRVisitReturnStmt
<1> QED
  BY <1>1, <1>2, FREnterTemplate, FREnterLambda, FREnterLoop, FRVisitIncrement,
     FRVisitHiddenDecl, FRLeave
     DEF FR!Next

LEMMA FRStutter ==
  ASSUME FRInv, UNCHANGED FR!vars
  PROVE  FRInv'
<1>1. UNCHANGED <<open, next, m_checked_vars, m_non_templated_params,
                  m_function_decl_stack, reports, decls, uses>>
  BY DEF FR!vars
<1>2. FR!TypeOK /\ FRStackInv /\ FRVariablesInv
  BY DEF FRInv
<1>3. FR!TypeOK'
  BY <1>1, <1>2 DEF FR!TypeOK, FR!TraversalTypeOK
<1>4. \A n : (FR!IsOpen(n)' <=> FR!IsOpen(n)) /\ (FRDefaulted(n)' <=> FRDefaulted(n))
  BY <1>1 DEF FR!IsOpen, FRDefaulted
<1>5. FRStackInv'
  BY <1>1, <1>2 DEF FRStackInv, FR!TraversalTypeOK, OpenIsOrdered, FRDefaultedAreClosed,
     FR!FunctionsAreStacked, FR!IsOpen
<1>6. \A d : /\ FRIsChecked(d)' <=> FRIsChecked(d)
             /\ FRClean(d)' <=> FRClean(d)
             /\ FR!IsReported(d)' <=> FR!IsReported(d)
             /\ \A u : FRTouches(d, u)' <=> FRTouches(d, u)
  BY <1>1 DEF FRIsChecked, FRClean, FR!IsReported, FRTouches
<1>7. FRVariablesAreFresh' /\ FRCheckedAreKnown'
  BY <1>1, <1>2, <1>4 DEF FRVariablesInv, FRVariablesAreFresh, FRCheckedAreKnown
<1>8. FRLoopsAreWhole' /\ FRCheckedAreClean' /\ FRReportedAreClean' /\ FRUnusedAreKept'
  BY <1>1, <1>2, <1>4, <1>6 DEF FRVariablesInv, FRLoopsAreWhole, FRCheckedAreClean,
     FRReportedAreClean, FRUnusedAreKept
<1> QED
  BY <1>3, <1>5, <1>7, <1>8 DEF FRInv, FRVariablesInv

(* What the invariant says in the end. *)
LEMMA FRPositions ==
  ASSUME FRInv
  PROVE  FR!FunctionsAreStacked /\ FR!CheckedVarsAreOpen
<1>1. FR!FunctionsAreStacked /\ FRCheckedAreKnown /\ FRLoopsAreWhole
  BY DEF FRInv, FRStackInv, FRVariablesInv
<1>2. FR!CheckedVarsAreOpen
  BY <1>1 DEF FR!CheckedVarsAreOpen, FRCheckedAreKnown, FRLoopsAreWhole, FRDefaulted, FRIsChecked
<1> QED
  BY <1>1, <1>2

LEMMA FRReports ==
  ASSUME FRInv, FRShort
  PROVE  FR!ConstablesAreUnmodified /\ FR!UnmodifiedAreReported
<1>1. FRReportedAreClean /\ FRUnusedAreKept
  BY DEF FRInv, FRVariablesInv
<1>2. FR!ConstablesAreUnmodified
  BY <1>1 DEF FR!ConstablesAreUnmodified, FRReportedAreClean, FRClean, FRTouches
<1>3. FR!UnmodifiedAreReported
  BY <1>1 DEF FR!UnmodifiedAreReported, FRUnusedAreKept, FRTouches
<1> QED
  BY <1>2, <1>3

-----------------------------------------------------------------------------
(* The four visitors together.  Init starts all of them, so that each       *)
(* invariant holds at first; then only that of the enabled one is kept.     *)

FVInv ==
  /\ visitor = "ForRangeConst" => FRInv
  /\ visitor = "RemoveCStr" => RCInv
  /\ visitor = "ImproperMove" => IVInv
  /\ visitor = "Noexcept" => NEInv

LEMMA FVInit ==
  ASSUME Init
  PROVE  FVInv
BY FRInit, RCInit, IVInit, NEInit DEF Init, FVInv

LEMMA FVNext ==
  ASSUME FVInv, Next
  PROVE  FVInv'
<1>1. CASE ForRangeConstNext
  <2>1. visitor = "ForRangeConst" /\ visitor' = "ForRangeConst" /\ FR!Next /\ FRInv
    BY <1>1 DEF ForRangeConstNext, FVInv
  <2> QED
    BY <2>1, FRNext DEF FVInv
<1>2. CASE RemoveCStrNext
  <2>1. visitor = "RemoveCStr" /\ visitor' = "RemoveCStr" /\ RC!Next /\ RCInv
    BY <1>2 DEF RemoveCStrNext, FVInv
  <2> QED
    BY <2>1, RCNext DEF FVInv
<1>3. CASE ImproperMoveNext
  <2>1. visitor = "ImproperMove" /\ visitor' = "ImproperMove" /\ IV!Next /\ IVInv
    BY <1>3 DEF ImproperMoveNext, FVInv
  <2> QED
    BY <2>1, IVNext DEF FVInv
<1>4. CASE NoexceptNext
  <2>1. visitor = "Noexcept" /\ visitor' = "Noexcept" /\ NE!Next /\ NEInv
    BY <1>4 DEF NoexceptNext, FVInv
  <2> QED
    BY <2>1, NENext DEF FVInv
<1> QED
  BY <1>1, <1>2, <1>3, <1>4 DEF Next

LEMMA FVStutter ==
  ASSUME FVInv, UNCHANGED vars
  PROVE  FVInv'
<1>1. /\ UNCHANGED <<open, next, visitor, reports>>
      /\ UNCHANGED ofForRangeConst /\ UNCHANGED ofRemoveCStr
      /\ UNCHANGED ofImproperMove /\ UNCHANGED ofNoexcept
  BY DEF vars
<1>2. UNCHANGED FR!vars
  BY <1>1 DEF FR!vars, ofForRangeConst
<1>3. UNCHANGED RC!vars
  BY <1>1 DEF RC!vars, ofRemoveCStr
<1>4. UNCHANGED IV!vars
  BY <1>1 DEF IV!vars, ofImproperMove
<1>5. UNCHANGED NE!vars
  BY <1>1 DEF NE!vars, ofNoexcept
<1>6. visitor' = visitor
  BY <1>1
<1> QED
  BY <1>2, <1>3, <1>4, <1>5, <1>6, FRStutter, RCStutter, IVStutter, NEStutter DEF FVInv

(* The invariant of the enabled visitor is inductive. *)
THEOREM FunctionsInductive == Spec => []FVInv
<1>1. Init => FVInv
  BY FVInit
<1>2. FVInv /\ [Next]_vars => FVInv'
  BY FVNext, FVStutter
<1> QED
  BY <1>1, <1>2, PTL DEF Spec

(* The members of every visitor keep their types: the parameters that       *)
(* ImproperMoveVisitor searches stay sorted, and the indices that           *)
(* ForRangeConstVisitor keeps of a template are bytes, however many         *)
(* parameters it has.                                                       *)
THEOREM FunctionTypesAreKept == Spec => []FunctionsTypeOK
<1>1. FVInv => FunctionsTypeOK
  BY DEF FVInv, FunctionsTypeOK, FRInv, RCInv, IVInv, NEInv
<1> QED
  BY <1>1, FunctionsInductive, PTL

(* ForRangeConstVisitor's m_function_decl_stack is that of the open         *)
(* functions until a defaulted one is visited, m_checked_vars outlive no    *)
(* scope, and those of a loop are checked all or none; ImproperMoveVisitor's *)
(* m_last_const_cast never dangles.                                         *)
THEOREM FunctionPositionsStayExact == Spec => []PositionsAreExact
<1>1. FVInv => PositionsAreExact
  BY FRPositions DEF FVInv, PositionsAreExact, IVInv
<1> QED
  BY <1>1, FunctionsInductive, PTL

(* ForRangeConstVisitor reports no variable that, or another of whose loop, *)
(* must be mutable, nor one that depends on template arguments: uses are    *)
(* found below any calls, and an instance reads the indices of its template *)
(* as they were written.  No function has more parameters than there are    *)
(* indices, 256 for a uint8_t, which is what C++ asks of compilers: those of *)
(* one that has would be taken for others.                                  *)
THEOREM ConstablesStayUnmodified ==
  ASSUME \A signature \in ConstSignatures : Len(signature) <= IndexValues
  PROVE  Spec => []ConstablesAreUnmodified
<1>1. FRShort
  BY DEF FRShort, FRIsShort
<1>2. FVInv => ConstablesAreUnmodified
  BY <1>1, FRReports DEF FVInv, ConstablesAreUnmodified
<1> QED
  BY <1>2, FunctionsInductive, PTL

(* ForRangeConstVisitor reports, when the scope is left, every variable     *)
(* that it saw no use of, for functions of no more parameters.              *)
THEOREM UnmodifiedStayReported ==
  ASSUME \A signature \in ConstSignatures : Len(signature) <= IndexValues
  PROVE  Spec => []UnmodifiedAreReported
<1>1. FRShort
  BY DEF FRShort, FRIsShort
<1>2. FVInv => UnmodifiedAreReported
  BY <1>1, FRReports DEF FVInv, UnmodifiedAreReported
<1> QED
  BY <1>2, FunctionsInductive, PTL

(* RemoveCStrVisitor never tells a function to call itself: the overload    *)
(* that forwards its string is always recognised.                           *)
THEOREM SuggestionsStayFinite == Spec => []SuggestionsEnd
<1>1. FVInv => SuggestionsEnd
  BY DEF FVInv, SuggestionsEnd, RCInv
<1> QED
  BY <1>1, FunctionsInductive, PTL

(* RemoveCStrVisitor passes a call over only in a method whose parameters   *)
(* are those of the overload but for one string at most.                    *)
THEOREM SilentCallsStayInOverloads == Spec => []SilentCallsAreInOverloads
<1>1. FVInv => SilentCallsAreInOverloads
  BY DEF FVInv, SilentCallsAreInOverloads, RCInv
<1> QED
  BY <1>1, FunctionsInductive, PTL

(* ImproperMoveVisitor reports a moved lvalue reference if and only if it   *)
(* is a parameter of the function visited last, wherever the parameters lie *)
(* in memory: std::lower_bound finds every one of them.                     *)
THEOREM OwnMovesStayExact == Spec => []OwnMovesAreExact
<1>1. FVInv => OwnMovesAreExact
  BY DEF FVInv, OwnMovesAreExact, IVInv
<1> QED
  BY <1>1, FunctionsInductive, PTL

(* ImproperMoveVisitor reports no const rvalue whose type depends on        *)
(* template arguments.                                                      *)
THEOREM ConstRvaluesStaySound == Spec => []ConstRvaluesAreSound
<1>1. FVInv => ConstRvaluesAreSound
  BY DEF FVInv, ConstRvaluesAreSound, IVInv
<1> QED
  BY <1>1, FunctionsInductive, PTL

(* NoexceptVisitor reports a function once, only if it is noexcept and has  *)
(* a statement that may throw outside of try blocks, lambdas and functions  *)
(* in its body.                                                             *)
THEOREM NotesStayThrows == Spec => []NotesAreThrows
<1>1. FVInv => NotesAreThrows
  BY DEF FVInv, NotesAreThrows, NEInv
<1> QED
  BY <1>1, FunctionsInductive, PTL

(* NoexceptVisitor misses no noexcept function with such a statement, but   *)
(* for calls of defaulted functions.                                        *)
THEOREM FirstThrowStaysNoted == Spec => []FirstThrowIsNoted
<1>1. FVInv => FirstThrowIsNoted
  BY DEF FVInv, FirstThrowIsNoted, NEInv
<1> QED
  BY <1>1, FunctionsInductive, PTL

=============================================================================
