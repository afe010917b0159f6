----------------------------- MODULE Identical ------------------------------
(***************************************************************************)
(* isIdenticalStmt, by which find-emplace decides that two calls have the  *)
(* same container and the same key.  It is only called for expressions.    *)
(* An expression is the sequence of its nodes in the order of the source,  *)
(* a node before its children; the environment writes two of them, node by *)
(* node, and the result is looked at when both are complete.               *)
(***************************************************************************)
EXTENDS Integers, Sequences, FiniteSetsExt

CONSTANTS
  Tokens,    \* what an expression is made of, see Token
  MaxLength  \* bound on the nodes of an expression

(* "kind" is what the switch over the class of a statement does: "plain"    *)
(* compares nothing more (calls, parentheses, casts, this), "valued"        *)
(* compares what the node has (a literal's value, a declaration, an         *)
(* opcode), "other" is the default case.  "effect" tells if the node has a  *)
(* side effect, as a call; "macro" if it comes from one.                    *)
Token == [class : STRING, kind : {"plain", "valued", "other"}, value : Nat, children : Nat,
          effect : BOOLEAN, macro : BOOLEAN]

(* What the constants must be; assumed where they get their values. *)
IdenticalAssumption ==
  /\ \A t \in Tokens : t \in Token
  /\ \A s, t \in Tokens : s.class = t.class => s.kind = t.kind
  /\ \A s, t \in Tokens :  \* a side effect is that of the class, or of what the node has
       s.class = t.class /\ (s.kind = "valued" => s.value = t.value) => s.effect = t.effect
  /\ MaxLength \in Nat

VARIABLES
  stmt1, stmt2,         \* the two expressions
  ignore_side_effects   \* the argument

vars == <<stmt1, stmt2, ignore_side_effects>>

-----------------------------------------------------------------------------

(* How many expressions are missing to complete one, after n nodes. *)
Missing(stmt) ==
  LET missing[n \in 0..Len(stmt)] ==
        IF n = 0 THEN 1 ELSE missing[n - 1] - 1 + stmt[n].children
  IN  missing

(* The root of the n-th child of node i: the node behind the first place    *)
(* where n - 1 children of i are complete.                                  *)
Child(stmt, i, n) ==
  1 + Min({m \in i..Len(stmt) : Missing(stmt)[m] = Missing(stmt)[i] - n + 1})

(* Node i and what is below it: what is written until i is complete. *)
Below(stmt, i) ==
  {k \in i..Len(stmt) : \A m \in i..(k - 1) : Missing(stmt)[m] >= Missing(stmt)[i - 1]}

(* Clang's HasSideEffects: of the node or one below. *)
HasSideEffects(stmt, i) == \E k \in Below(stmt, i) : stmt[k].effect

(* Faulty variant of EqualChildren: the lengths are not compared. *)
EqualChildren_Prefix(m, n) == m <= n

(* std::equal over the children, as far as their numbers go. *)
EqualChildren(m, n) == m = n

(* What isIdenticalStmt compares of two nodes. *)
IsSameNode(t1, t2) ==
  /\ t1.class = t2.class
  /\ ~t1.macro /\ ~t2.macro
  /\ t1.kind # "other" /\ (t1.kind = "valued" => t1.value = t2.value)

(* Faulty variant of IsAccepted: ignore_side_effects is not looked at. *)
IsAccepted_Pure(stmt, i, ignore) == ~HasSideEffects(stmt, i)

IsAccepted(stmt, i, ignore) == ignore \/ ~HasSideEffects(stmt, i)

isIdenticalStmt(s1, s2, ignore) ==
  LET same[p \in (1..Len(s1)) \X (1..Len(s2))] ==
        LET i == p[1]
            j == p[2]
        IN  /\ IsSameNode(s1[i], s2[j])
            /\ IsAccepted(s1, i, ignore)
            /\ EqualChildren(s1[i].children, s2[j].children)
            /\ \A n \in 1..s1[i].children :
                 same[<<Child(s1, i, n), Child(s2, j, n)>>]
  IN  same[<<1, 1>>]

-----------------------------------------------------------------------------

Init ==
  /\ stmt1 = <<>> /\ stmt2 = <<>>
  /\ ignore_side_effects \in BOOLEAN

IsWhole(stmt) == Missing(stmt)[Len(stmt)] = 0

CanGrow(stmt, t) ==
  /\ ~IsWhole(stmt)
  /\ Len(stmt) + Missing(stmt)[Len(stmt)] + t.children <= MaxLength

WriteFirst(t) ==
  /\ CanGrow(stmt1, t)
  /\ stmt1' = Append(stmt1, t)
  /\ UNCHANGED <<stmt2, ignore_side_effects>>

WriteSecond(t) ==
  /\ IsWhole(stmt1) /\ CanGrow(stmt2, t)
  /\ stmt2' = Append(stmt2, t)
  /\ UNCHANGED <<stmt1, ignore_side_effects>>

Next == \E t \in Tokens : WriteFirst(t) \/ WriteSecond(t)

Spec == Init /\ [][Next]_vars

-----------------------------------------------------------------------------

IsComplete == IsWhole(stmt1) /\ IsWhole(stmt2)
Result == isIdenticalStmt(stmt1, stmt2, ignore_side_effects)

(* Two expressions that read the same: the trees are equal if and only if   *)
(* the sequences of their nodes are.                                        *)
Shape(stmt) == [i \in 1..Len(stmt) |->
  <<stmt[i].class, stmt[i].children, IF stmt[i].kind = "valued" THEN stmt[i].value ELSE 0>>]

(* Only expressions that read the same are identical; if side effects are   *)
(* not to be ignored neither has any, and none is from a macro.             *)
IdenticalIsSound ==
  IsComplete /\ Result =>
    /\ Shape(stmt1) = Shape(stmt2)
    /\ \A i \in 1..Len(stmt1) : ~stmt1[i].macro /\ ~stmt2[i].macro
    /\ ~ignore_side_effects => \A i \in 1..Len(stmt1) : ~stmt1[i].effect /\ ~stmt2[i].effect

(* Expressions that read the same are identical, but for macros, for nodes  *)
(* that isIdenticalStmt does not know, and for side effects.                *)
IdenticalIsComplete ==
  /\ IsComplete /\ Shape(stmt1) = Shape(stmt2)
  /\ \A i \in 1..Len(stmt1) :
       /\ stmt1[i].kind # "other" /\ ~stmt1[i].macro /\ ~stmt2[i].macro
       /\ ignore_side_effects \/ ~stmt1[i].effect
  => Result

=============================================================================
