--------------------------- MODULE MatchersProofs ---------------------------
(* TLAPS proofs for Matchers: what isIdenticalStmt compares, and what the    *)
(* fix-it of emplace-default-value leaves, for expressions and calls of any  *)
(* length.                                                                   *)
EXTENDS Matchers, VectorLemmas

-----------------------------------------------------------------------------
(* Expressions.                                                              *)

(* How many expressions are missing after n nodes is the recursion that      *)
(* Missing defines.                                                          *)
IDMissing(stmt) ==
  CHOOSE missing :
    missing = [n \in 0..Len(stmt) |->
                 IF n = 0 THEN 1 ELSE missing[n - 1] - 1 + stmt[n].children]

LEMMA IDMissingIs ==
  ASSUME NEW stmt \in Seq(ID!Token)
  PROVE  /\ ID!Missing(stmt) \in [0..Len(stmt) -> Int]
         /\ ID!Missing(stmt)[0] = 1
         /\ \A n \in 1..Len(stmt) :
              ID!Missing(stmt)[n] = ID!Missing(stmt)[n - 1] - 1 + stmt[n].children
<1> DEFINE L == Len(stmt)
           E(missing) == [n \in 0..L |->
                            IF n = 0 THEN 1 ELSE missing[n - 1] - 1 + stmt[n].children]
           step == [p \in (1..L) \X Int |-> p[2] - 1 + stmt[p[1]].children]
<1>1. L \in Nat
  OBVIOUS
<1>2. \A n \in 1..L : stmt[n].children \in Nat
  <2>1. \A n \in 1..L : stmt[n] \in ID!Token
    OBVIOUS
  <2> QED
    BY <2>1 DEF ID!Token
<1>0. 1 \in Int
  OBVIOUS
<1>3. step \in [(1..L) \X Int -> Int]
  <2> SUFFICES ASSUME NEW p \in (1..L) \X Int
               PROVE  p[2] - 1 + stmt[p[1]].children \in Int
    OBVIOUS
  <2>1. p[1] \in 1..L /\ p[2] \in Int
    OBVIOUS
  <2> QED
    BY <1>2, <2>1
<1>4. \A n \in 1..L, x \in Int : step[<<n, x>>] = x - 1 + stmt[n].children
  OBVIOUS
<1> HIDE DEF L, step
<1>5. PICK f :
        /\ f \in [0..L -> Int] /\ f[0] = 1
        /\ \A n \in 1..L : f[n] = step[<<n, f[n - 1]>>]
  <2>1. \E f : IsRecursive(f, L, Int, 1, step)
    BY <1>0, <1>1, <1>3, Recursion, Zenon
  <2> QED
    BY <2>1 DEF IsRecursive
<1>6. \A n \in 0..L : n = 0 \/ (n \in 1..L /\ n - 1 \in 0..L)
  BY <1>1
<1>7. \A n \in 0..L : f[n] = IF n = 0 THEN 1 ELSE f[n - 1] - 1 + stmt[n].children
  BY <1>4, <1>5, <1>6
<1>8. f = E(f)
  BY <1>5, <1>7
<1> DEFINE missing == ID!Missing(stmt)
<1>9. missing = CHOOSE g : g = E(g)
  BY DEF ID!Missing, L
<1>10. missing = E(missing)
  BY <1>8, <1>9
<1> HIDE DEF missing
<1>11. \A n \in 0..L : missing[n] = E(missing)[n]
  BY <1>10
<1>12. missing[0] = 1
  BY <1>1, <1>11
<1>13. \A n \in 1..L : missing[n] = missing[n - 1] - 1 + stmt[n].children
  BY <1>1, <1>11
<1>14. \A n \in 0..L : missing[n] \in Int
  <2> DEFINE T == {n \in 0..L : missing[n] \in Int}
  <2>1. 0 \in T
    BY <1>1, <1>12
  <2>2. ASSUME NEW n \in 1..L, n - 1 \in T
        PROVE  n \in T
    BY <1>1, <1>2, <1>13, <2>2
  <2> HIDE DEF T
  <2>3. \A n \in 0..L : n \in T
    BY <1>1, <2>1, <2>2, Induct
  <2> QED
    BY <2>3 DEF T
<1>15. missing = [n \in 0..L |-> missing[n]]
  BY <1>10
<1> QED
  BY <1>12, <1>13, <1>14, <1>15 DEF missing, L

(* Two expressions whose first nodes have equally many children miss equally *)
(* many expressions after them.                                              *)
LEMMA IDMissingAgrees ==
  ASSUME NEW s1 \in Seq(ID!Token), NEW s2 \in Seq(ID!Token),
         NEW N \in Nat, N <= Len(s1), N <= Len(s2),
         \A k \in 1..N : s1[k].children = s2[k].children
  PROVE  \A n \in 0..N : ID!Missing(s1)[n] = ID!Missing(s2)[n]
<1> DEFINE M1 == ID!Missing(s1)
           M2 == ID!Missing(s2)
           T == {n \in 0..N : M1[n] = M2[n]}
<1>1. M1[0] = 1 /\ \A n \in 1..Len(s1) : M1[n] = M1[n - 1] - 1 + s1[n].children
  BY IDMissingIs
<1>2. M2[0] = 1 /\ \A n \in 1..Len(s2) : M2[n] = M2[n - 1] - 1 + s2[n].children
  BY IDMissingIs
<1> HIDE DEF M1, M2
<1>3. 0 \in T
  BY <1>1, <1>2
<1>4. ASSUME NEW n \in 1..N, n - 1 \in T
      PROVE  n \in T
  <2>1. M1[n - 1] = M2[n - 1] /\ n \in 0..N /\ n \in 1..Len(s1) /\ n \in 1..Len(s2)
    BY <1>4
  <2>2. M1[n] = M2[n]
    BY <1>1, <1>2, <1>4, <2>1
  <2> QED
    BY <2>1, <2>2
<1> HIDE DEF T
<1>5. \A n \in 0..N : n \in T
  BY <1>3, <1>4, Induct
<1> QED
  BY <1>5 DEF T, M1, M2

(* Another node leaves what was missing before it. *)
LEMMA IDMissingKept ==
  ASSUME NEW stmt \in Seq(ID!Token), NEW t \in ID!Token
  PROVE  /\ Append(stmt, t) \in Seq(ID!Token) /\ Len(stmt) \in Nat
         /\ Len(Append(stmt, t)) = Len(stmt) + 1
         /\ \A n \in 0..Len(stmt) :
              ID!Missing(Append(stmt, t))[n] = ID!Missing(stmt)[n]
         /\ ID!Missing(Append(stmt, t))[Len(stmt) + 1] =
              ID!Missing(stmt)[Len(stmt)] - 1 + t.children
<1> DEFINE more == Append(stmt, t)
           L == Len(stmt)
<1>1. /\ more \in Seq(ID!Token) /\ L \in Nat /\ Len(more) = L + 1 /\ more[L + 1] = t
      /\ \A n \in 1..L : more[n] = stmt[n]
  BY PushBack
<1> HIDE DEF more
<1>2. L <= Len(stmt) /\ L <= Len(more)
  BY <1>1
<1>3. \A n \in 0..L : ID!Missing(more)[n] = ID!Missing(stmt)[n]
  BY <1>1, <1>2, IDMissingAgrees
<1>4. ID!Missing(more)[L + 1] = ID!Missing(more)[L] - 1 + more[L + 1].children
  <2>1. L + 1 \in 1..Len(more) /\ L + 1 - 1 = L
    BY <1>1
  <2> QED
    BY <1>1, <2>1, IDMissingIs
<1>5. ID!Missing(more)[L + 1] = ID!Missing(stmt)[L] - 1 + t.children
  BY <1>1, <1>3, <1>4
<1> QED
  BY <1>1, <1>3, <1>5 DEF more, L

(* What is known of an expression while it is written: it is whole only at   *)
(* its end.                                                                  *)
IDIsWritten(stmt) ==
  /\ stmt \in Seq(ID!Token)
  /\ \A n \in 0..(Len(stmt) - 1) : ID!Missing(stmt)[n] >= 1
  /\ ID!Missing(stmt)[Len(stmt)] >= 0

(* Min of a set of numbers. *)
LEMMA IDMinIs ==
  ASSUME NEW T, T \subseteq Nat, T # {}
  PROVE  ID!Min(T) \in T /\ \A n \in T : ID!Min(T) <= n
BY Least DEF ID!Min

(* The children of a node of a whole expression are nodes of it, behind the  *)
(* node.                                                                     *)
LEMMA IDChildIsBehind ==
  ASSUME NEW stmt, IDIsWritten(stmt), ID!IsWhole(stmt),
         NEW i \in 1..Len(stmt), NEW n \in 1..stmt[i].children
  PROVE  ID!Child(stmt, i, n) \in (i + 1)..Len(stmt)
<1> DEFINE L == Len(stmt)
           M == ID!Missing(stmt)
           v == M[i] - n + 1
           U == {m \in i..L : M[m] < v}
           W == {m \in i..L : M[m] = v}
<1>1. stmt \in Seq(ID!Token) /\ L \in Nat
  BY DEF IDIsWritten
<1>2. \A k \in 1..L : stmt[k].children \in Nat
  <2>1. \A k \in 1..L : stmt[k] \in ID!Token
    BY <1>1
  <2> QED
    BY <2>1 DEF ID!Token
<1>3. /\ M \in [0..L -> Int]
      /\ \A k \in 1..L : M[k] = M[k - 1] - 1 + stmt[k].children
  BY <1>1, IDMissingIs
<1>4. M[L] = 0 /\ \A k \in 0..(L - 1) : M[k] >= 1
  BY DEF IDIsWritten, ID!IsWhole
<1>5. ID!Child(stmt, i, n) = 1 + ID!Min(W)
  BY DEF ID!Child
<1>6. i \in Nat /\ n \in Nat /\ i >= 1 /\ i <= L /\ n >= 1 /\ n <= stmt[i].children
  BY <1>1, <1>2
<1> HIDE DEF L, M
<1>7. i - 1 \in 0..(L - 1) /\ i \in 1..L /\ i \in 0..L
  BY <1>1, <1>6
<1>8. M[i] \in Int /\ M[i - 1] \in Int /\ M[i - 1] >= 1 /\ stmt[i].children \in Nat
  BY <1>1, <1>2, <1>3, <1>4, <1>7
<1>9. v \in Int /\ v >= 1 /\ M[i] >= v
  <2> DEFINE after == M[i]
             before == M[i - 1]
             children == stmt[i].children
  <2>1. /\ after \in Int /\ before \in Int /\ before >= 1 /\ children \in Nat
        /\ after = before - 1 + children
    BY <1>3, <1>7, <1>8
  <2>2. n \in Nat /\ n >= 1 /\ n <= children /\ v = after - n + 1
    BY <1>6
  <2> HIDE DEF after, before, children, v
  <2>3. v \in Int /\ v >= 1 /\ after >= v
    BY <2>1, <2>2
  <2> QED
    BY <2>3 DEF after
<1> HIDE DEF v
<1>10. U \subseteq Nat /\ W \subseteq Nat
  BY <1>1, <1>6
<1>11. L \in U
  BY <1>1, <1>4, <1>6, <1>9
<1>12. PICK x \in U : \A y \in U : x <= y
  BY <1>10, <1>11, Least
<1>13. x \in i..L /\ M[x] < v /\ x # i
  <2>1. x \in i..L /\ M[x] < v
    BY <1>12
  <2>2. ~(M[i] < v)
    BY <1>8, <1>9
  <2> QED
    BY <2>1, <2>2
<1>14. x \in 1..L /\ x - 1 \in i..L /\ x \in 0..L /\ x - 1 \in 0..L /\ ~(x <= x - 1)
  BY <1>1, <1>6, <1>13
<1>15. ~(M[x - 1] < v)
  BY <1>12, <1>14
<1>16. /\ M[x] \in Int /\ M[x - 1] \in Int /\ stmt[x].children \in Nat
       /\ M[x] = M[x - 1] - 1 + stmt[x].children
  BY <1>2, <1>3, <1>14
<1>17. M[x - 1] = v
  BY <1>9, <1>13, <1>15, <1>16
<1>18. x - 1 \in W
  BY <1>14, <1>17
<1> HIDE DEF U, W
<1>19. ID!Min(W) \in W /\ ID!Min(W) <= x - 1
  BY <1>10, <1>18, IDMinIs
<1>20. ID!Min(W) \in i..L
  BY <1>19 DEF W
<1>21. 1 + ID!Min(W) \in (i + 1)..L
  BY <1>1, <1>6, <1>13, <1>19, <1>20
<1> QED
  BY <1>5, <1>21 DEF L

(* Node k is the first place behind i where n - 1 children of i are complete. *)
IDIsChild(stmt, i, n, k) ==
  /\ ID!Missing(stmt)[k - 1] = ID!Missing(stmt)[i] - n + 1
  /\ \A m \in i..(k - 2) : ID!Missing(stmt)[m] # ID!Missing(stmt)[k - 1]

LEMMA IDChildIs ==
  ASSUME NEW stmt \in Seq(ID!Token), NEW i \in 1..Len(stmt), NEW n \in Nat,
         NEW k \in (i + 1)..Len(stmt), IDIsChild(stmt, i, n, k)
  PROVE  ID!Child(stmt, i, n) = k
<1> DEFINE L == Len(stmt)
           M == ID!Missing(stmt)
           W == {m \in i..L : M[m] = M[i] - n + 1}
<1>1. L \in Nat /\ i \in Nat /\ i <= L /\ k \in Nat /\ i + 1 <= k /\ k <= L
  OBVIOUS
<1>2. M[k - 1] = M[i] - n + 1 /\ \A m \in i..(k - 2) : M[m] # M[k - 1]
  BY DEF IDIsChild
<1>3. ID!Child(stmt, i, n) = 1 + ID!Min(W)
  BY DEF ID!Child
<1> HIDE DEF L, M
<1>4. k - 1 \in W /\ W \subseteq Nat
  BY <1>1, <1>2
<1>5. \A m \in W : m \in i..L /\ M[m] = M[k - 1]
  BY <1>2
<1> HIDE DEF W
<1>6. ID!Min(W) \in W /\ ID!Min(W) <= k - 1
  BY <1>4, IDMinIs
<1>7. ID!Min(W) \in i..L /\ ~(ID!Min(W) \in i..(k - 2))
  BY <1>2, <1>5, <1>6
<1>8. ID!Min(W) = k - 1
  BY <1>1, <1>6, <1>7
<1> QED
  BY <1>1, <1>3, <1>8

(* Every node but the first is a child of a node before it. *)
LEMMA IDHasParent ==
  ASSUME NEW stmt, IDIsWritten(stmt), NEW k \in 2..Len(stmt)
  PROVE  \E i \in 1..(k - 1) : \E n \in 1..stmt[i].children : IDIsChild(stmt, i, n, k)
<1> DEFINE L == Len(stmt)
           M == ID!Missing(stmt)
           U == {a \in 1..(k - 1) : M[k - a - 1] <= M[k - 1]}
<1>1. stmt \in Seq(ID!Token) /\ L \in Nat
  BY DEF IDIsWritten
<1>2. \A j \in 1..L : stmt[j].children \in Nat
  <2>1. \A j \in 1..L : stmt[j] \in ID!Token
    BY <1>1
  <2> QED
    BY <2>1 DEF ID!Token
<1>3. /\ M \in [0..L -> Int] /\ M[0] = 1
      /\ \A j \in 1..L : M[j] = M[j - 1] - 1 + stmt[j].children
  BY <1>1, IDMissingIs
<1>4. \A j \in 0..(L - 1) : M[j] >= 1
  BY DEF IDIsWritten
<1> HIDE DEF M
<1>5. k \in Nat /\ k >= 2 /\ k <= L /\ k - 1 \in 0..(L - 1) /\ k - 1 \in 0..L
  BY <1>1
<1> HIDE DEF L
<1>6. M[k - 1] \in Int /\ M[k - 1] >= 1
  BY <1>3, <1>4, <1>5
<1>7. k - 1 \in U
  <2>1. k - 1 \in 1..(k - 1) /\ k - (k - 1) - 1 = 0
    BY <1>5
  <2> QED
    BY <1>3, <1>6, <2>1
<1>8. U \subseteq Nat
  BY <1>5
<1>9. PICK a \in U : \A b \in U : a <= b
  BY <1>7, <1>8, Least
<1> DEFINE i == k - a
           n == M[i] - M[k - 1] + 1
<1>10. a \in 1..(k - 1) /\ M[i - 1] <= M[k - 1]
  BY <1>9
<1>11. i \in 1..(k - 1) /\ i \in 1..L /\ i - 1 \in 0..L /\ i \in 0..L /\ i \in Nat
  BY <1>1, <1>5, <1>10
<1>12. ASSUME NEW m \in i..(k - 2)
       PROVE  M[m] > M[k - 1]
  <2>1. k - 1 - m \in 1..(k - 1) /\ ~(a <= k - 1 - m) /\ k - (k - 1 - m) - 1 = m
    BY <1>5, <1>10, <1>12
  <2>2. ~(k - 1 - m \in U)
    BY <1>9, <2>1
  <2>3. ~(M[m] <= M[k - 1])
    BY <2>1, <2>2
  <2>4. m \in 0..L
    BY <1>1, <1>5, <1>11, <1>12
  <2>5. M[m] \in Int
    BY <1>3, <2>4
  <2> QED
    BY <1>6, <2>3, <2>5
<1> HIDE DEF U, i
<1>13. /\ M[i] \in Int /\ M[i - 1] \in Int /\ stmt[i].children \in Nat
       /\ M[i] = M[i - 1] - 1 + stmt[i].children
  BY <1>2, <1>3, <1>11
<1>14. M[i] >= M[k - 1]
  <2>1. i = k - 1 \/ i \in i..(k - 2)
    BY <1>5, <1>11
  <2>2. M[i] = M[k - 1] \/ M[i] > M[k - 1]
    BY <1>12, <2>1
  <2> QED
    BY <1>6, <1>13, <2>2
<1>15. n \in 1..stmt[i].children /\ n \in Int /\ M[i] - n + 1 = M[k - 1]
  <2> DEFINE after == M[i]
             before == M[i - 1]
             children == stmt[i].children
             last == M[k - 1]
  <2>1. /\ after \in Int /\ before \in Int /\ children \in Nat
        /\ after = before - 1 + children
    BY <1>13
  <2>2. before <= last
    BY <1>10 DEF i
  <2>3. after >= last /\ last \in Int
    BY <1>6, <1>14
  <2>4. n = after - last + 1
    OBVIOUS
  <2> HIDE DEF after, before, children, last, n
  <2>5. n \in 1..children /\ n \in Int /\ after - n + 1 = last
    BY <2>1, <2>2, <2>3, <2>4
  <2> QED
    BY <2>5 DEF after, children, last
<1> HIDE DEF n
<1>16. ASSUME NEW m \in i..(k - 2)
       PROVE  M[m] # M[k - 1]
  <2>1. ~(M[k - 1] > M[k - 1])
    BY <1>6
  <2> QED
    BY <1>12, <2>1
<1>17. IDIsChild(stmt, i, n, k)
  BY <1>15, <1>16 DEF IDIsChild, M
<1> QED
  BY <1>11, <1>15, <1>17

(* The nodes are compared as the recursion of isIdenticalStmt says. *)
IDSame(s1, s2, ignore) ==
  CHOOSE same :
    same = [p \in (1..Len(s1)) \X (1..Len(s2)) |->
              LET i == p[1]
                  j == p[2]
              IN  /\ ID!IsSameNode(s1[i], s2[j])
                  /\ ID!IsAccepted(s1, i, ignore)
                  /\ ID!EqualChildren(s1[i].children, s2[j].children)
                  /\ \A n \in 1..s1[i].children :
                       same[<<ID!Child(s1, i, n), ID!Child(s2, j, n)>>]]

(* What is compared of two nodes apart from their children. *)
IDIsAlike(s1, s2, ignore, i, j) ==
  /\ ID!IsSameNode(s1[i], s2[j])
  /\ ID!IsAccepted(s1, i, ignore)
  /\ s1[i].children = s2[j].children

LEMMA IDSameIs ==
  ASSUME NEW s1, NEW s2, NEW ignore,
         IDIsWritten(s1), ID!IsWhole(s1), IDIsWritten(s2), ID!IsWhole(s2)
  PROVE  /\ ID!isIdenticalStmt(s1, s2, ignore) = IDSame(s1, s2, ignore)[<<1, 1>>]
         /\ \A i \in 1..Len(s1), j \in 1..Len(s2) :
              IDSame(s1, s2, ignore)[<<i, j>>] <=>
                /\ IDIsAlike(s1, s2, ignore, i, j)
                /\ \A n \in 1..s1[i].children :
                     IDSame(s1, s2, ignore)[<<ID!Child(s1, i, n), ID!Child(s2, j, n)>>]
<1> DEFINE P == (1..Len(s1)) \X (1..Len(s2))
           alike == {p \in P : IDIsAlike(s1, s2, ignore, p[1], p[2])}
           below(p) == {<<ID!Child(s1, p[1], n), ID!Child(s2, p[2], n)>> : n \in 1..s1[p[1]].children}
           kept == {X \in SUBSET alike : \A p \in X : below(p) \subseteq X}
           S == UNION kept
           f == [p \in P |-> p \in S]
           at(same, p) == /\ IDIsAlike(s1, s2, ignore, p[1], p[2])
                          /\ \A n \in 1..s1[p[1]].children :
                               same[<<ID!Child(s1, p[1], n), ID!Child(s2, p[2], n)>>]
           E(same) == [p \in P |-> at(same, p)]
<1>1. \A p \in alike : below(p) \subseteq P
  <2> SUFFICES ASSUME NEW p \in alike, NEW n \in 1..s1[p[1]].children
               PROVE  <<ID!Child(s1, p[1], n), ID!Child(s2, p[2], n)>> \in P
    OBVIOUS
  <2> DEFINE i == p[1]
             j == p[2]
  <2>1. i \in 1..Len(s1) /\ j \in 1..Len(s2) /\ s1[i].children = s2[j].children
    BY DEF IDIsAlike
  <2>2. n \in 1..s1[i].children /\ n \in 1..s2[j].children
    BY <2>1
  <2> HIDE DEF i, j
  <2>3. ID!Child(s1, i, n) \in (i + 1)..Len(s1)
    BY <2>1, <2>2, IDChildIsBehind
  <2>4. ID!Child(s2, j, n) \in (j + 1)..Len(s2)
    BY <2>1, <2>2, IDChildIsBehind
  <2>5. Len(s1) \in Nat /\ Len(s2) \in Nat
    BY DEF IDIsWritten
  <2>6. ID!Child(s1, i, n) \in 1..Len(s1) /\ ID!Child(s2, j, n) \in 1..Len(s2)
    BY <2>1, <2>3, <2>4, <2>5
  <2> QED
    BY <2>6 DEF i, j
<1>2. alike \subseteq P
  OBVIOUS
<1>3. \A p \in P : \A n \in 1..s1[p[1]].children :
        <<ID!Child(s1, p[1], n), ID!Child(s2, p[2], n)>> \in below(p)
  OBVIOUS
<1>4. \A p \in P : \A q \in below(p) : \E n \in 1..s1[p[1]].children :
        q = <<ID!Child(s1, p[1], n), ID!Child(s2, p[2], n)>>
  OBVIOUS
<1>5. \A p \in P : p \in alike <=> IDIsAlike(s1, s2, ignore, p[1], p[2])
  OBVIOUS
<1> HIDE DEF alike, below, P
<1>6. S \subseteq alike /\ \A p \in S : below(p) \subseteq S
  OBVIOUS
<1>7. ASSUME NEW p \in alike, below(p) \subseteq S
      PROVE  p \in S
  <2> DEFINE X == S \cup {p}
  <2>1. X \subseteq alike
    BY <1>6, <1>7
  <2>2. \A q \in X : below(q) \subseteq X
    BY <1>6, <1>7
  <2>3. X \in kept
    BY <2>1, <2>2
  <2> QED
    BY <2>3
<1> HIDE DEF S, kept
<1>8. \A p \in P : p \in S <=> (p \in alike /\ \A q \in below(p) : q \in S)
  BY <1>6, <1>7
<1>9. f = E(f)
  <2> SUFFICES ASSUME NEW p \in P
               PROVE  (p \in S) <=> at(f, p)
    <3> DEFINE g == f
    <3> HIDE DEF g
    <3>0. \A p \in P : (p \in S) <=> at(g, p)
      BY DEF g
    <3>1. ASSUME NEW p \in P
          PROVE  (p \in S) = at(g, p)
      <4> DEFINE a == at(g, p)
      <4>1. a \in BOOLEAN
        OBVIOUS
      <4>2. (p \in S) <=> a
        BY <3>0, <3>1
      <4> HIDE DEF a
      <4>3. (p \in S) = a
        BY <4>1, <4>2
      <4> QED
        BY <4>3 DEF a
    <3> HIDE DEF at
    <3>2. [p \in P |-> p \in S] = [p \in P |-> at(g, p)]
      BY <3>1
    <3> QED
      BY <3>2 DEF g
  <2>1. \A q \in P : f[q] <=> q \in S
    OBVIOUS
  <2> HIDE DEF f
  <2>2. CASE p \in alike
    <3>1. \A q \in below(p) : f[q] <=> q \in S
      BY <1>1, <2>1, <2>2
    <3>2. (\A q \in below(p) : q \in S) <=>
            \A n \in 1..s1[p[1]].children :
              f[<<ID!Child(s1, p[1], n), ID!Child(s2, p[2], n)>>]
      BY <1>3, <1>4, <3>1
    <3> QED
      BY <1>5, <1>8, <2>2, <3>2
  <2>3. CASE p \notin alike
    BY <1>5, <1>8, <2>3
  <2> QED
    BY <2>2, <2>3
<1> DEFINE same == IDSame(s1, s2, ignore)
<1>10. same = CHOOSE g : g = E(g)
  BY DEF IDSame, P, IDIsAlike, ID!EqualChildren
<1>11. same = E(same)
  <2> HIDE DEF same, f, E
  <2> QED
    BY <1>9, <1>10
<1>12. ID!isIdenticalStmt(s1, s2, ignore) = same[<<1, 1>>]
  BY DEF ID!isIdenticalStmt, IDSame
<1> HIDE DEF same
<1>13. \A p \in P : same[p] = E(same)[p]
  BY <1>11
<1>14. ASSUME NEW i \in 1..Len(s1), NEW j \in 1..Len(s2)
       PROVE  same[<<i, j>>] <=>
                /\ IDIsAlike(s1, s2, ignore, i, j)
                /\ \A n \in 1..s1[i].children :
                     same[<<ID!Child(s1, i, n), ID!Child(s2, j, n)>>]
  <2>1. <<i, j>> \in P
    BY DEF P
  <2> QED
    BY <1>13, <2>1
<1> QED
  BY <1>12, <1>14 DEF same

(* What the assumption says of the nodes of two expressions. *)
LEMMA IDTokens ==
  ASSUME NEW stmt \in Seq(Tokens)
  PROVE  stmt \in Seq(ID!Token) /\ \A i \in 1..Len(stmt) : stmt[i] \in Tokens
<1>1. Tokens \subseteq ID!Token
  BY MatchersAssumption DEF ID!IdenticalAssumption
<1> HIDE DEF ID!Token
<1> QED
  BY <1>1

(* If isIdenticalStmt takes two expressions for the same, then it has        *)
(* compared every node with the one at the same place.                       *)
LEMMA IDAllCompared ==
  ASSUME NEW s1, NEW s2, NEW ignore,
         IDIsWritten(s1), ID!IsWhole(s1), IDIsWritten(s2), ID!IsWhole(s2),
         ID!isIdenticalStmt(s1, s2, ignore)
  PROVE  /\ Len(s1) \in Nat /\ Len(s1) = Len(s2)
         /\ \A k \in 1..Len(s1) : IDIsAlike(s1, s2, ignore, k, k)
<1> DEFINE L1 == Len(s1)
           L2 == Len(s2)
           M1 == ID!Missing(s1)
           M2 == ID!Missing(s2)
           same == IDSame(s1, s2, ignore)
           T == {n \in 0..L1 : n <= L2 /\ \A k \in 1..n : same[<<k, k>>]}
<1>1. /\ s1 \in Seq(ID!Token) /\ L1 \in Nat /\ M1[L1] = 0 /\ M1[0] = 1
      /\ \A n \in 0..(L1 - 1) : M1[n] >= 1
  BY IDMissingIs DEF IDIsWritten, ID!IsWhole
<1>2. /\ s2 \in Seq(ID!Token) /\ L2 \in Nat /\ M2[L2] = 0 /\ M2[0] = 1
      /\ \A n \in 0..(L2 - 1) : M2[n] >= 1
  BY IDMissingIs DEF IDIsWritten, ID!IsWhole
<1>3. /\ same[<<1, 1>>]
      /\ \A i \in 1..L1, j \in 1..L2 :
           same[<<i, j>>] =>
             /\ IDIsAlike(s1, s2, ignore, i, j)
             /\ \A n \in 1..s1[i].children :
                  same[<<ID!Child(s1, i, n), ID!Child(s2, j, n)>>]
  BY IDSameIs
<1>4. \A k \in 1..L1 : s1[k].children \in Nat
  <2>1. \A k \in 1..L1 : s1[k] \in ID!Token
    BY <1>1
  <2> QED
    BY <2>1 DEF ID!Token
<1> HIDE DEF same
<1>5. L1 # 0 /\ L2 # 0
  BY <1>1, <1>2
<1>6. ASSUME NEW N \in 0..L1, N <= L2, \A k \in 1..N : same[<<k, k>>]
      PROVE  \A n \in 0..N : M1[n] = M2[n]
  <2>1. N \in Nat /\ N <= Len(s1) /\ N <= Len(s2)
    BY <1>1, <1>2, <1>6
  <2>2. \A k \in 1..N : k \in 1..L1 /\ k \in 1..L2
    BY <1>1, <1>2, <1>6
  <2>3. \A k \in 1..N : s1[k].children = s2[k].children
    BY <1>3, <1>6, <2>2 DEF IDIsAlike
  <2> QED
    BY <1>1, <1>2, <2>1, <2>3, IDMissingAgrees
<1> HIDE DEF M1, M2, L1, L2
<1>7. 0 \in T
  BY <1>1, <1>2
<1>8. ASSUME NEW n \in 1..L1, n - 1 \in T
      PROVE  n \in T
  <2>1. n - 1 \in 0..L1 /\ n - 1 <= L2 /\ \A k \in 1..(n - 1) : same[<<k, k>>]
    BY <1>8
  <2>2. \A m \in 0..(n - 1) : M1[m] = M2[m]
    BY <1>6, <2>1
  <2>3. n <= L2
    <3>1. n - 1 \in 0..(n - 1) /\ n - 1 \in 0..(L1 - 1)
      BY <1>1, <1>8
    <3>2. M2[n - 1] >= 1
      BY <1>1, <2>2, <3>1
    <3>3. n - 1 # L2
      BY <1>2, <3>2
    <3> QED
      BY <1>2, <2>1, <3>3
  <2>4. same[<<n, n>>]
    <3>1. CASE n = 1
      BY <1>3, <3>1
    <3>2. CASE n # 1
      <4>1. n \in 2..L1 /\ n \in 2..Len(s1)
        BY <1>1, <1>8, <3>2 DEF L1
      <4>2. PICK i \in 1..(n - 1) : \E q \in 1..s1[i].children : IDIsChild(s1, i, q, n)
        BY <4>1, IDHasParent
      <4>3. PICK q \in 1..s1[i].children : IDIsChild(s1, i, q, n)
        BY <4>2
      <4>4. /\ i \in 1..L1 /\ i \in 1..L2 /\ n \in (i + 1)..L1 /\ n \in (i + 1)..L2
            /\ i \in 0..(n - 1) /\ n - 1 \in 0..(n - 1)
            /\ \A m \in i..(n - 2) : m \in 0..(n - 1)
        BY <1>1, <1>2, <1>8, <2>3
      <4>5. q \in Nat
        BY <1>4, <4>4
      <4>6. /\ M1[n - 1] = M1[i] - q + 1
            /\ \A m \in i..(n - 2) : M1[m] # M1[n - 1]
        BY <4>3 DEF IDIsChild, M1
      <4>7. /\ M2[n - 1] = M2[i] - q + 1
            /\ \A m \in i..(n - 2) : M2[m] # M2[n - 1]
        BY <2>2, <4>4, <4>6
      <4>8. IDIsChild(s2, i, q, n)
        BY <4>7 DEF IDIsChild, M2
      <4>9. ID!Child(s1, i, q) = n
        BY <1>1, <4>3, <4>4, <4>5, IDChildIs DEF L1
      <4>10. ID!Child(s2, i, q) = n
        BY <1>2, <4>4, <4>5, <4>8, IDChildIs DEF L2
      <4>11. same[<<i, i>>]
        BY <2>1
      <4>12. same[<<ID!Child(s1, i, q), ID!Child(s2, i, q)>>]
        BY <1>3, <4>3, <4>4, <4>11
      <4> QED
        BY <4>9, <4>10, <4>12
    <3> QED
      BY <3>1, <3>2
  <2>5. \A k \in 1..n : k \in 1..(n - 1) \/ k = n
    BY <1>8
  <2>6. \A k \in 1..n : same[<<k, k>>]
    BY <2>1, <2>4, <2>5
  <2>7. n \in 0..L1
    BY <1>8
  <2> QED
    BY <2>3, <2>6, <2>7
<1> HIDE DEF T
<1>9. \A n \in 0..L1 : n \in T
  BY <1>1, <1>7, <1>8, Induct
<1>10. L1 \in T /\ L1 \in 0..L1
  BY <1>1, <1>9
<1>11. L1 <= L2 /\ \A k \in 1..L1 : same[<<k, k>>]
  BY <1>10 DEF T
<1>12. M2[L1] = 0
  BY <1>1, <1>6, <1>10, <1>11
<1>13. L1 = L2
  <2>1. ~(L1 \in 0..(L2 - 1))
    BY <1>2, <1>12
  <2> QED
    BY <1>1, <1>2, <1>11, <2>1
<1>14. \A k \in 1..L1 : IDIsAlike(s1, s2, ignore, k, k)
  BY <1>3, <1>11, <1>13
<1> QED
  BY <1>1, <1>13, <1>14 DEF L1, L2

(* What Shape tells of a node. *)
LEMMA IDShapeIs ==
  ASSUME NEW s1 \in Seq(Tokens), NEW s2 \in Seq(Tokens)
  PROVE  ID!Shape(s1) = ID!Shape(s2) <=>
           /\ Len(s1) = Len(s2)
           /\ \A i \in 1..Len(s1) :
                /\ s1[i].class = s2[i].class
                /\ s1[i].children = s2[i].children
                /\ s1[i].kind = "valued" => s1[i].value = s2[i].value
<1> DEFINE at(stmt, i) == <<stmt[i].class, stmt[i].children,
                            IF stmt[i].kind = "valued" THEN stmt[i].value ELSE 0>>
<1>1. Len(s1) \in Nat /\ Len(s2) \in Nat
  OBVIOUS
<1>2. \A i \in 1..Len(s1) : s1[i] \in Tokens
  OBVIOUS
<1>3. \A i \in 1..Len(s2) : s2[i] \in Tokens
  OBVIOUS
<1>4. \A t, u \in Tokens : t.class = u.class => t.kind = u.kind
  BY MatchersAssumption DEF ID!IdenticalAssumption
<1>5. ASSUME Len(s1) = Len(s2), NEW i \in 1..Len(s1)
      PROVE  at(s1, i) = at(s2, i) <=>
               /\ s1[i].class = s2[i].class
               /\ s1[i].children = s2[i].children
               /\ s1[i].kind = "valued" => s1[i].value = s2[i].value
  <2>1. s1[i] \in Tokens /\ s2[i] \in Tokens
    BY <1>2, <1>3, <1>5
  <2>2. s1[i].class = s2[i].class => s1[i].kind = s2[i].kind
    BY <1>4, <2>1
  <2> QED
    BY <2>2
<1> HIDE DEF at
<1>6. ID!Shape(s1) = [i \in 1..Len(s1) |-> at(s1, i)]
  BY DEF ID!Shape, at
<1>7. ID!Shape(s2) = [i \in 1..Len(s2) |-> at(s2, i)]
  BY DEF ID!Shape, at
<1>8. ASSUME ID!Shape(s1) = ID!Shape(s2)
      PROVE  Len(s1) = Len(s2) /\ \A i \in 1..Len(s1) : at(s1, i) = at(s2, i)
  <2>1. 1..Len(s1) = 1..Len(s2)
    BY <1>6, <1>7, <1>8
  <2>2. Len(s1) = Len(s2)
    BY <1>1, <2>1
  <2>3. \A i \in 1..Len(s1) : ID!Shape(s1)[i] = at(s1, i) /\ ID!Shape(s2)[i] = at(s2, i)
    BY <1>6, <1>7, <2>1
  <2> QED
    BY <1>8, <2>2, <2>3
<1>9. ASSUME Len(s1) = Len(s2), \A i \in 1..Len(s1) : at(s1, i) = at(s2, i)
      PROVE  ID!Shape(s1) = ID!Shape(s2)
  BY <1>6, <1>7, <1>9
<1> QED
  BY <1>5, <1>8, <1>9

(* What isIdenticalStmt takes for the same reads the same, has no node from  *)
(* a macro, and no side effect that is not to be ignored.                    *)
LEMMA IDIsSound ==
  ASSUME NEW s1 \in Seq(Tokens), NEW s2 \in Seq(Tokens), NEW ignore \in BOOLEAN,
         IDIsWritten(s1), ID!IsWhole(s1), IDIsWritten(s2), ID!IsWhole(s2),
         ID!isIdenticalStmt(s1, s2, ignore)
  PROVE  /\ ID!Shape(s1) = ID!Shape(s2)
         /\ \A i \in 1..Len(s1) : ~s1[i].macro /\ ~s2[i].macro
         /\ ~ignore => \A i \in 1..Len(s1) : ~s1[i].effect /\ ~s2[i].effect
<1>1. /\ Len(s1) \in Nat /\ Len(s1) = Len(s2)
      /\ \A k \in 1..Len(s1) : IDIsAlike(s1, s2, ignore, k, k)
  BY IDAllCompared
<1>2. \A k \in 1..Len(s1) : s1[k] \in Tokens /\ s2[k] \in Tokens
  BY <1>1
<1>3. \A k \in 1..Len(s1) :
        /\ s1[k].class = s2[k].class /\ s1[k].children = s2[k].children
        /\ ~s1[k].macro /\ ~s2[k].macro
        /\ s1[k].kind = "valued" => s1[k].value = s2[k].value
  BY <1>1 DEF IDIsAlike, ID!IsSameNode
<1>4. ID!Shape(s1) = ID!Shape(s2)
  BY <1>1, <1>3, IDShapeIs
<1>5. ASSUME ~ignore, NEW k \in 1..Len(s1)
      PROVE  ~s1[k].effect /\ ~s2[k].effect
  <2>1. ~ID!HasSideEffects(s1, k)
    BY <1>1, <1>5 DEF IDIsAlike, ID!IsAccepted
  <2>2. k \in k..Len(s1) /\ \A m \in k..(k - 1) : FALSE
    BY <1>1
  <2>3. k \in ID!Below(s1, k)
    BY <2>2 DEF ID!Below
  <2>4. ~s1[k].effect
    BY <2>1, <2>3 DEF ID!HasSideEffects
  <2>5. \A t, u \in Tokens :
          t.class = u.class /\ (t.kind = "valued" => t.value = u.value) => t.effect = u.effect
    BY MatchersAssumption DEF ID!IdenticalAssumption
  <2>6. s1[k].effect = s2[k].effect
    BY <1>2, <1>3, <2>5
  <2> QED
    BY <2>4, <2>6
<1> QED
  BY <1>3, <1>4, <1>5

(* Expressions that read the same, of nodes that isIdenticalStmt accepts,    *)
(* are the same for it.                                                      *)
LEMMA IDIsComplete ==
  ASSUME NEW s1 \in Seq(Tokens), NEW s2 \in Seq(Tokens), NEW ignore \in BOOLEAN,
         IDIsWritten(s1), ID!IsWhole(s1), IDIsWritten(s2), ID!IsWhole(s2),
         ID!Shape(s1) = ID!Shape(s2),
         \A i \in 1..Len(s1) :
           /\ s1[i].kind # "other" /\ ~s1[i].macro /\ ~s2[i].macro
           /\ ignore \/ ~s1[i].effect
  PROVE  ID!isIdenticalStmt(s1, s2, ignore)
<1> DEFINE L == Len(s1)
           same == IDSame(s1, s2, ignore)
           T == {d \in 0..L : \A k \in (L - d + 1)..L : same[<<k, k>>]}
<1>1. L \in Nat
  OBVIOUS
<1>2. /\ L = Len(s2)
      /\ \A i \in 1..L :
           /\ s1[i].class = s2[i].class /\ s1[i].children = s2[i].children
           /\ s1[i].kind = "valued" => s1[i].value = s2[i].value
  BY IDShapeIs
<1>3. s1 \in Seq(ID!Token) /\ s2 \in Seq(ID!Token)
  BY DEF IDIsWritten
<1>4. \A n \in 0..L : ID!Missing(s1)[n] = ID!Missing(s2)[n]
  <2>1. L <= Len(s1) /\ L <= Len(s2)
    BY <1>1, <1>2
  <2> QED
    BY <1>1, <1>2, <1>3, <2>1, IDMissingAgrees
<1>5. ASSUME NEW i \in 1..L, NEW n \in 1..s1[i].children
      PROVE  ID!Child(s1, i, n) = ID!Child(s2, i, n) /\ ID!Child(s1, i, n) \in (i + 1)..L
  <2>1. \A m \in i..L : m \in 0..L
    OBVIOUS
  <2>2. i \in 0..L
    BY <1>1
  <2>3. {m \in i..L : ID!Missing(s1)[m] = ID!Missing(s1)[i] - n + 1}
          = {m \in i..L : ID!Missing(s2)[m] = ID!Missing(s2)[i] - n + 1}
    BY <1>4, <2>1, <2>2
  <2>4. ID!Child(s1, i, n) = ID!Child(s2, i, n)
    BY <1>2, <2>3 DEF ID!Child
  <2> QED
    BY <2>4, IDChildIsBehind
<1>6. ASSUME NEW i \in 1..L
      PROVE  IDIsAlike(s1, s2, ignore, i, i)
  <2>1. \A k \in ID!Below(s1, i) : k \in 1..L
    BY <1>1 DEF ID!Below
  <2>2. ID!IsAccepted(s1, i, ignore)
    BY <2>1 DEF ID!IsAccepted, ID!HasSideEffects
  <2>3. ID!IsSameNode(s1[i], s2[i])
    BY <1>2 DEF ID!IsSameNode
  <2> QED
    BY <1>2, <2>2, <2>3 DEF IDIsAlike
<1>7. /\ ID!isIdenticalStmt(s1, s2, ignore) = same[<<1, 1>>]
      /\ \A i \in 1..L, j \in 1..Len(s2) :
           same[<<i, j>>] <=>
             /\ IDIsAlike(s1, s2, ignore, i, j)
             /\ \A n \in 1..s1[i].children :
                  same[<<ID!Child(s1, i, n), ID!Child(s2, j, n)>>]
  BY IDSameIs
<1> HIDE DEF same
<1>8. \A i \in 1..L :
        (\A n \in 1..s1[i].children : same[<<ID!Child(s1, i, n), ID!Child(s1, i, n)>>])
          => same[<<i, i>>]
  BY <1>2, <1>5, <1>6, <1>7
<1>9. ID!Missing(s1)[0] = 1 /\ ID!Missing(s1)[L] = 0
  BY <1>3, IDMissingIs DEF ID!IsWhole
<1>10. L >= 1
  BY <1>1, <1>9
<1> HIDE DEF L
<1>11. 0 \in T
  BY <1>1
<1>12. ASSUME NEW d \in 1..L, d - 1 \in T
       PROVE  d \in T
  <2> DEFINE i == L - d + 1
  <2>1. \A k \in (i + 1)..L : same[<<k, k>>]
    <3>1. L - (d - 1) + 1 = i + 1
      BY <1>1, <1>12
    <3> QED
      BY <1>12, <3>1
  <2>2. i \in 1..L
    BY <1>1, <1>12
  <2> HIDE DEF i
  <2>3. same[<<i, i>>]
    BY <1>5, <1>8, <2>1, <2>2
  <2>4. \A k \in i..L : k = i \/ k \in (i + 1)..L
    BY <1>1, <2>2
  <2>5. \A k \in i..L : same[<<k, k>>]
    BY <2>1, <2>3, <2>4
  <2> QED
    BY <1>12, <2>5 DEF i
<1> HIDE DEF T
<1>13. \A d \in 0..L : d \in T
  BY <1>1, <1>11, <1>12, Induct
<1>14. L \in T
  BY <1>1, <1>13
<1>15. 1 \in (L - L + 1)..L
  BY <1>1, <1>10
<1>16. same[<<1, 1>>]
  BY <1>14, <1>15 DEF T
<1> QED
  BY <1>7, <1>16

-----------------------------------------------------------------------------
(* The text of a call and the fix-it.                                        *)

(* The pieces of a text. *)
EDPiece ==
  STRING \cup {ED!Comma, ED!Opening, ED!Closing, "emplace", "_hint", "try_emplace", "try_"}

LEMMA EDPieceIs ==
  /\ ED!Comma \in EDPiece /\ ED!Opening \in EDPiece /\ ED!Closing \in EDPiece
  /\ "emplace" \in EDPiece /\ "_hint" \in EDPiece /\ "try_emplace" \in EDPiece /\ "try_" \in EDPiece
  /\ Seq(STRING) \subseteq Seq(EDPiece)
<1>1. STRING \subseteq EDPiece
  BY DEF EDPiece
<1>2. \A S, T : S \subseteq T => Seq(S) \subseteq Seq(T)
  OBVIOUS
<1>3. Seq(STRING) \subseteq Seq(EDPiece)
  BY <1>1, <1>2
<1> QED
  BY <1>3 DEF EDPiece

LEMMA EDConcat ==
  ASSUME NEW s \in Seq(EDPiece), NEW t \in Seq(EDPiece)
  PROVE  /\ s \o t \in Seq(EDPiece) /\ Len(s) \in Nat /\ Len(t) \in Nat
         /\ Len(s \o t) = Len(s) + Len(t)
         /\ \A i \in 1..Len(s) : (s \o t)[i] = s[i]
         /\ \A i \in 1..Len(t) : (s \o t)[Len(s) + i] = t[i]
OBVIOUS

(* The text of the arguments is the recursion that ArgsText defines. *)
EDArgsText(args) ==
  CHOOSE text :
    text = [n \in 0..Len(args) |->
              IF n = 0 THEN <<>>
              ELSE (IF n = 1 THEN <<>> ELSE Append(text[n - 1], ED!Comma)) \o args[n].pieces]

LEMMA EDArgsTextIs ==
  ASSUME NEW args \in Seq(ED!Arg)
  PROVE  /\ ED!ArgsText(args) \in [0..Len(args) -> Seq(EDPiece)]
         /\ ED!ArgsText(args)[0] = <<>>
         /\ \A n \in 1..Len(args) :
              ED!ArgsText(args)[n] =
                (IF n = 1 THEN <<>> ELSE Append(ED!ArgsText(args)[n - 1], ED!Comma)) \o args[n].pieces
<1> DEFINE L == Len(args)
           S == Seq(EDPiece)
           next(n, x) == (IF n = 1 THEN <<>> ELSE Append(x, ED!Comma)) \o args[n].pieces
           E(text) == [n \in 0..L |-> IF n = 0 THEN <<>> ELSE next(n, text[n - 1])]
           step == [p \in (1..L) \X S |-> next(p[1], p[2])]
<1>1. L \in Nat
  OBVIOUS
<1>2. \A n \in 1..L : args[n].pieces \in S
  <2>1. \A n \in 1..L : args[n] \in ED!Arg
    OBVIOUS
  <2>2. \A n \in 1..L : args[n].pieces \in Seq(STRING)
    BY <2>1 DEF ED!Arg
  <2> QED
    BY <2>2, EDPieceIs
<1>3. <<>> \in S /\ ED!Comma \in EDPiece
  BY EDPieceIs
<1>4. ASSUME NEW n \in 1..L, NEW x \in S
      PROVE  next(n, x) \in S
  <2>1. Append(x, ED!Comma) \in S
    BY <1>3, PushBack
  <2>2. (IF n = 1 THEN <<>> ELSE Append(x, ED!Comma)) \in S
    BY <1>3, <2>1
  <2> QED
    BY <1>2, <2>2, ConcatProperties
<1> HIDE DEF next, S
<1>5. step \in [(1..L) \X S -> S]
  <2> SUFFICES ASSUME NEW p \in (1..L) \X S
               PROVE  next(p[1], p[2]) \in S
    OBVIOUS
  <2>1. p[1] \in 1..L /\ p[2] \in S
    OBVIOUS
  <2> QED
    BY <1>4, <2>1
<1>6. \A n \in 1..L, x \in S : step[<<n, x>>] = next(n, x)
  OBVIOUS
<1> HIDE DEF L, step
<1>7. PICK f :
        /\ f \in [0..L -> S] /\ f[0] = <<>>
        /\ \A n \in 1..L : f[n] = step[<<n, f[n - 1]>>]
  <2>1. \E f : IsRecursive(f, L, S, <<>>, step)
    BY <1>1, <1>3, <1>5, Recursion, Zenon
  <2> QED
    BY <2>1 DEF IsRecursive
<1>8. \A n \in 0..L : n = 0 \/ (n \in 1..L /\ n - 1 \in 0..L)
  BY <1>1
<1>9. \A n \in 0..L : f[n] = IF n = 0 THEN <<>> ELSE next(n, f[n - 1])
  BY <1>6, <1>7, <1>8
<1>10. f = E(f)
  BY <1>7, <1>9
<1> DEFINE text == ED!ArgsText(args)
<1>11. text = CHOOSE g : g = E(g)
  BY DEF ED!ArgsText, L, next
<1>12. text = E(text)
  <2> HIDE DEF text, E
  <2> QED
    BY <1>10, <1>11
<1> HIDE DEF text
<1>13. \A n \in 0..L : text[n] = E(text)[n]
  BY <1>12
<1>14. text[0] = <<>>
  BY <1>1, <1>13
<1>15. \A n \in 1..L : text[n] = next(n, text[n - 1])
  BY <1>1, <1>13
<1>16. \A n \in 0..L : text[n] \in S
  <2> DEFINE T == {n \in 0..L : text[n] \in S}
  <2>1. 0 \in T
    BY <1>1, <1>3, <1>14
  <2>2. ASSUME NEW n \in 1..L, n - 1 \in T
        PROVE  n \in T
    BY <1>1, <1>4, <1>15, <2>2
  <2> HIDE DEF T
  <2>3. \A n \in 0..L : n \in T
    BY <1>1, <2>1, <2>2, Induct
  <2> QED
    BY <2>3 DEF T
<1>17. text = [n \in 0..L |-> text[n]]
  BY <1>12
<1> QED
  BY <1>14, <1>15, <1>16, <1>17 DEF text, L, S, next

(* Where the name of a call ends, and where the fix-it starts to remove. *)
EDNameEnd(call) == Len(ED!Name(call.method))
EDKept(call) == ED!Before(call, Len(call.args) - 1)

(* The calls that makeReport is given. *)
EDIsReportable(call) ==
  /\ call.args \in Seq(Args) /\ Len(call.args) >= 2
  /\ call.method \in {"emplace", "try_emplace", "emplace_hint"}

(* The text of a call: the parenthesis that closes it is behind all that the *)
(* fix-it removes.                                                           *)
LEMMA EDTextIs ==
  ASSUME NEW call, EDIsReportable(call)
  PROVE  /\ ED!Text(call) \in Seq(EDPiece)
         /\ Len(ED!Text(call)) \in Nat /\ EDKept(call) \in Nat
         /\ EDKept(call) >= EDNameEnd(call) + 1
         /\ ED!RemovalStart(call) \in (EDKept(call) + 1)..(Len(ED!Text(call)) - 1)
         /\ ED!Text(call)[Len(ED!Text(call))] = ED!Closing
         /\ ED!Text(call)[1] = ED!Name(call.method)[1]
         /\ EDNameEnd(call) = IF call.method = "emplace_hint" THEN 2 ELSE 1
<1> DEFINE args == call.args
           K == Len(args)
           A == ED!ArgsText(args)
           name == ED!Name(call.method)
           text == ED!Text(call)
           front == name \o <<ED!Opening>>
<1>1. \A a \in Args : a \in ED!Arg /\ a.loc \in 1..Len(a.pieces)
  BY MatchersAssumption DEF ED!EmplaceDefaultValueAssumption
<1>2. args \in Seq(ED!Arg) /\ K \in Nat /\ K >= 2
  <2>1. Args \subseteq ED!Arg
    BY <1>1
  <2> HIDE DEF ED!Arg
  <2> QED
    BY <2>1 DEF EDIsReportable
<1>3. \A n \in 1..K : /\ args[n].pieces \in Seq(EDPiece) /\ Len(args[n].pieces) \in Nat
                      /\ args[n].loc \in Nat /\ args[n].loc >= 1
                      /\ args[n].loc <= Len(args[n].pieces)
  <2>1. \A n \in 1..K : args[n] \in Args
    BY DEF EDIsReportable
  <2>2. \A n \in 1..K : args[n].pieces \in Seq(EDPiece)
    <3>1. \A n \in 1..K : args[n].pieces \in Seq(STRING)
      BY <1>1, <2>1 DEF ED!Arg
    <3> QED
      BY <3>1, EDPieceIs
  <2>3. \A n \in 1..K : Len(args[n].pieces) \in Nat
    BY <2>2
  <2>4. \A n \in 1..K : args[n].loc \in 1..Len(args[n].pieces)
    BY <1>1, <2>1
  <2> QED
    BY <2>2, <2>3, <2>4
<1>4. /\ A \in [0..K -> Seq(EDPiece)] /\ A[0] = <<>>
      /\ \A n \in 1..K : A[n] = (IF n = 1 THEN <<>> ELSE Append(A[n - 1], ED!Comma)) \o args[n].pieces
  BY <1>2, EDArgsTextIs
<1>5. \A n \in 0..K : A[n] \in Seq(EDPiece) /\ Len(A[n]) \in Nat
  BY <1>4
<1>6. /\ name \in Seq(EDPiece) /\ EDNameEnd(call) = Len(name)
      /\ Len(name) = IF call.method = "emplace_hint" THEN 2 ELSE 1
  BY EDPieceIs DEF ED!Name, EDNameEnd, EDIsReportable
<1>7. text = (front \o A[K]) \o <<ED!Closing>>
  BY DEF ED!Text
<1> HIDE DEF args, K, A, name, text
<1>8. Len(name) \in Nat /\ Len(name) >= 1 /\ 1 \in 1..Len(name)
  BY <1>6
<1>9. /\ <<ED!Opening>> \in Seq(EDPiece) /\ Len(<<ED!Opening>>) = 1
      /\ <<ED!Closing>> \in Seq(EDPiece) /\ Len(<<ED!Closing>>) = 1
      /\ <<ED!Closing>>[1] = ED!Closing /\ 1 \in 1..1
  BY EDPieceIs
<1>10. /\ K \in 1..K /\ K - 1 \in 1..K /\ K \in 0..K /\ K - 1 \in 0..K
       /\ K - 1 - 1 \in 0..K /\ K # 1
  BY <1>2
<1>11. /\ front \in Seq(EDPiece) /\ Len(front) = Len(name) + 1 /\ front[1] = name[1]
  BY <1>6, <1>8, <1>9, EDConcat
<1> HIDE DEF front
<1> DEFINE all == A[K]
           most == A[K - 1]
           some == A[K - 1 - 1]
           key == args[K - 1].pieces
           value == args[K].pieces
           loc == args[K - 1].loc
<1>12. /\ all \in Seq(EDPiece) /\ Len(all) \in Nat
       /\ most \in Seq(EDPiece) /\ Len(most) \in Nat
       /\ some \in Seq(EDPiece) /\ Len(some) \in Nat
  BY <1>5, <1>10
<1>13. /\ key \in Seq(EDPiece) /\ Len(key) \in Nat
       /\ value \in Seq(EDPiece) /\ Len(value) \in Nat
       /\ loc \in Nat /\ loc >= 1 /\ loc <= Len(key)
  BY <1>3, <1>10
<1>14. EDKept(call) = Len(name) + 1 + IF K - 1 = 1 THEN 0 ELSE Len(some) + 1
  BY DEF EDKept, ED!Before, K, A, name, args
<1>15. ED!RemovalStart(call) = EDKept(call) + loc
  BY DEF ED!RemovalStart, ED!is_ok, EDKept, K, args
<1>16. K - 1 = 1 => most = <<>> \o key
  BY <1>4, <1>10
<1>17. K - 1 # 1 => most = Append(some, ED!Comma) \o key
  BY <1>4, <1>10
<1>18. all = Append(most, ED!Comma) \o value
  BY <1>4, <1>10
<1> HIDE DEF all, most, some, key, value, loc
<1>19. \A s \in Seq(EDPiece) :
         Append(s, ED!Comma) \in Seq(EDPiece) /\ Len(Append(s, ED!Comma)) = Len(s) + 1
  BY EDPieceIs, PushBack
<1>20. Len(all) = Len(most) + 1 + Len(value)
  <2> DEFINE head == Append(most, ED!Comma)
  <2>1. head \in Seq(EDPiece) /\ Len(head) = Len(most) + 1
    BY <1>12, <1>19
  <2> HIDE DEF head
  <2>2. all = head \o value
    BY <1>18 DEF head
  <2>3. Len(all) = Len(head) + Len(value)
    BY <1>13, <2>1, <2>2, EDConcat
  <2> QED
    BY <2>1, <2>3
<1>21. EDKept(call) \in Nat /\ EDKept(call) >= Len(name) + 1
       /\ Len(most) = EDKept(call) - Len(name) - 1 + Len(key)
  <2>1. CASE K - 1 = 1
    <3>1. <<>> \in Seq(EDPiece) /\ Len(<<>>) = 0
      OBVIOUS
    <3>2. Len(most) = Len(<<>>) + Len(key)
      BY <1>13, <1>16, <2>1, <3>1, EDConcat
    <3>3. EDKept(call) = Len(name) + 1
      BY <1>8, <1>14, <2>1
    <3> QED
      BY <1>8, <1>13, <3>1, <3>2, <3>3
  <2>2. CASE K - 1 # 1
    <3> DEFINE head == Append(some, ED!Comma)
    <3>1. head \in Seq(EDPiece) /\ Len(head) = Len(some) + 1
      BY <1>12, <1>19
    <3>2. most = head \o key
      BY <1>17, <2>2
    <3> HIDE DEF head
    <3>3. Len(most) = Len(head) + Len(key)
      BY <1>13, <3>1, <3>2, EDConcat
    <3>4. EDKept(call) = Len(name) + 1 + (Len(some) + 1)
      BY <1>14, <2>2
    <3> QED
      BY <1>8, <1>12, <1>13, <3>1, <3>3, <3>4
  <2> QED
    BY <2>1, <2>2
<1>22. text = (front \o all) \o <<ED!Closing>>
  BY <1>7 DEF front, all
<1> DEFINE body == front \o all
<1>23. /\ body \in Seq(EDPiece) /\ Len(body) = Len(front) + Len(all)
       /\ body[1] = front[1]
  <2>1. 1 \in 1..Len(front)
    BY <1>8, <1>11
  <2> QED
    BY <1>11, <1>12, <2>1, EDConcat
<1> HIDE DEF body
<1>24. Len(body) \in Nat /\ Len(body) >= 1 /\ Len(body) = Len(name) + 1 + Len(all)
  BY <1>8, <1>11, <1>12, <1>23
<1>25. /\ text \in Seq(EDPiece) /\ Len(text) = Len(body) + 1
       /\ text[1] = body[1] /\ text[Len(body) + 1] = ED!Closing
  <2>1. 1 \in 1..Len(body)
    BY <1>24
  <2>2. text = body \o <<ED!Closing>>
    BY <1>22 DEF body
  <2> QED
    BY <1>9, <1>23, <2>1, <2>2, EDConcat
<1>26. Len(text) \in Nat /\ text[Len(text)] = ED!Closing /\ text[1] = name[1]
  BY <1>11, <1>23, <1>24, <1>25
<1>27. /\ EDKept(call) + loc \in Nat /\ EDKept(call) + loc >= EDKept(call) + 1
       /\ EDKept(call) + loc <= Len(text) - 1
  <2>1. Len(text) - 1 = Len(name) + 1 + Len(all)
    BY <1>24, <1>25
  <2>2. Len(all) >= Len(most) + 1
    BY <1>12, <1>13, <1>20
  <2>3. Len(most) >= EDKept(call) + loc - Len(name) - 1
    BY <1>8, <1>13, <1>21
  <2>4. EDKept(call) + loc <= Len(text) - 1
    BY <1>8, <1>12, <1>13, <1>21, <2>1, <2>2, <2>3
  <2> QED
    BY <1>13, <1>21, <2>4
<1>28. ED!RemovalStart(call) \in (EDKept(call) + 1)..(Len(text) - 1)
  BY <1>15, <1>21, <1>26, <1>27
<1> QED
  BY <1>6, <1>21, <1>25, <1>26, <1>28 DEF text, name

(* The edits of the fix-it are the recursion that Fixed defines. *)
EDLeft(call) ==
  CHOOSE left :
    left = [i \in 0..Len(ED!Text(call)) |->
              IF i = 0 THEN <<>>
              ELSE IF i \in ED!Removed(call) THEN left[i - 1]
              ELSE Append(left[i - 1], ED!Text(call)[i])]

LEMMA EDLeftIs ==
  ASSUME NEW call, EDIsReportable(call)
  PROVE  /\ ED!Fixed(call) = (IF call.method = "try_emplace" THEN <<>> ELSE <<"try_">>) \o
                               EDLeft(call)[Len(ED!Text(call))]
         /\ EDLeft(call) \in [0..Len(ED!Text(call)) -> Seq(EDPiece)]
         /\ EDLeft(call)[0] = <<>>
         /\ \A i \in 1..Len(ED!Text(call)) :
              EDLeft(call)[i] = IF i \in ED!Removed(call) THEN EDLeft(call)[i - 1]
                                ELSE Append(EDLeft(call)[i - 1], ED!Text(call)[i])
<1> DEFINE text == ED!Text(call)
           L == Len(text)
           R == ED!Removed(call)
           S == Seq(EDPiece)
           next(i, x) == IF i \in R THEN x ELSE Append(x, text[i])
           E(left) == [i \in 0..L |-> IF i = 0 THEN <<>> ELSE next(i, left[i - 1])]
           step == [p \in (1..L) \X S |-> next(p[1], p[2])]
<1>1. text \in S /\ L \in Nat
  BY EDTextIs
<1>2. ED!Fixed(call) = (IF call.method = "try_emplace" THEN <<>> ELSE <<"try_">>) \o EDLeft(call)[L]
  BY DEF ED!Fixed, EDLeft
<1> DEFINE left == EDLeft(call)
<1>3. left = CHOOSE g : g = E(g)
  BY DEF EDLeft
<1> HIDE DEF text, R, left
<1>4. <<>> \in S
  OBVIOUS
<1>5. ASSUME NEW i \in 1..L, NEW x \in S
      PROVE  next(i, x) \in S
  <2>1. text[i] \in EDPiece
    BY <1>1
  <2>2. Append(x, text[i]) \in S
    BY <2>1, PushBack
  <2> QED
    BY <2>2
<1> HIDE DEF next, S, L
<1>6. step \in [(1..L) \X S -> S]
  <2> SUFFICES ASSUME NEW p \in (1..L) \X S
               PROVE  next(p[1], p[2]) \in S
    OBVIOUS
  <2>1. p[1] \in 1..L /\ p[2] \in S
    OBVIOUS
  <2> QED
    BY <1>5, <2>1
<1>7. \A i \in 1..L, x \in S : step[<<i, x>>] = next(i, x)
  OBVIOUS
<1> HIDE DEF step
<1>8. PICK f :
        /\ f \in [0..L -> S] /\ f[0] = <<>>
        /\ \A i \in 1..L : f[i] = step[<<i, f[i - 1]>>]
  <2>1. \E f : IsRecursive(f, L, S, <<>>, step)
    BY <1>1, <1>4, <1>6, Recursion, Zenon
  <2> QED
    BY <2>1 DEF IsRecursive
<1>9. \A i \in 0..L : i = 0 \/ (i \in 1..L /\ i - 1 \in 0..L)
  BY <1>1
<1>10. \A i \in 0..L : f[i] = IF i = 0 THEN <<>> ELSE next(i, f[i - 1])
  BY <1>7, <1>8, <1>9
<1>11. f = E(f)
  BY <1>8, <1>10
<1>12. left = E(left)
  <2> HIDE DEF E
  <2> QED
    BY <1>3, <1>11
<1>13. \A i \in 0..L : left[i] = E(left)[i]
  BY <1>12
<1>14. left[0] = <<>>
  BY <1>1, <1>13
<1>15. \A i \in 1..L : left[i] = next(i, left[i - 1])
  BY <1>1, <1>13
<1>16. \A i \in 0..L : left[i] \in S
  <2> DEFINE T == {i \in 0..L : left[i] \in S}
  <2>1. 0 \in T
    BY <1>1, <1>4, <1>14
  <2>2. ASSUME NEW i \in 1..L, i - 1 \in T
        PROVE  i \in T
    BY <1>1, <1>5, <1>15, <2>2
  <2> HIDE DEF T
  <2>3. \A i \in 0..L : i \in T
    BY <1>1, <2>1, <2>2, Induct
  <2> QED
    BY <2>3 DEF T
<1>17. left = [i \in 0..L |-> left[i]]
  BY <1>12
<1>18. left \in [0..L -> S]
  BY <1>16, <1>17
<1> QED
  BY <1>2, <1>14, <1>15, <1>18 DEF left, L, S, next, text, R

(* As many pieces of the name are removed. *)
EDCut(call) == IF call.method = "emplace_hint" THEN 1 ELSE 0

(* Before the last two arguments nothing is removed but the suffix of        *)
(* emplace_hint.                                                             *)
LEMMA EDFrontIsKept ==
  ASSUME NEW call, EDIsReportable(call),
         NEW i \in (EDCut(call) + 1)..EDKept(call)
  PROVE  /\ Len(EDLeft(call)[i]) = i - EDCut(call)
         /\ EDLeft(call)[i][1] = ED!Text(call)[1]
         /\ \A q \in 2..(i - EDCut(call)) :
              EDLeft(call)[i][q] = ED!Text(call)[q + EDCut(call)]
<1> DEFINE text == ED!Text(call)
           L == Len(text)
           R == ED!Removed(call)
           left == EDLeft(call)
           h == EDCut(call)
           B == EDKept(call)
           Is(j) == /\ Len(left[j]) = j - h
                    /\ left[j][1] = text[1]
                    /\ \A q \in 2..(j - h) : left[j][q] = text[q + h]
           N == B - 1 - h
           T == {d \in 0..N : Is(d + 1 + h)}
<1>1. /\ text \in Seq(EDPiece) /\ L \in Nat /\ B \in Nat
      /\ ED!RemovalStart(call) \in (B + 1)..(L - 1)
      /\ B >= h + 2
  BY EDTextIs DEF EDCut
<1>2. h = 0 \/ h = 1
  BY DEF EDCut
<1>3. \A j \in 1..B : j \in R <=> (h = 1 /\ j = 2)
  BY <1>1 DEF ED!Removed, EDCut
<1>4. /\ left \in [0..L -> Seq(EDPiece)] /\ left[0] = <<>>
      /\ \A j \in 1..L : left[j] = IF j \in R THEN left[j - 1] ELSE Append(left[j - 1], text[j])
  BY EDLeftIs
<1> HIDE DEF text, R, left, h, B
<1>5. B <= L /\ N \in Nat
  BY <1>1, <1>2
<1> HIDE DEF L
<1>6. ASSUME NEW j \in 1..B, j \notin R
      PROVE  /\ left[j] = Append(left[j - 1], text[j])
             /\ left[j - 1] \in Seq(EDPiece) /\ text[j] \in EDPiece
  <2>1. j \in 1..L /\ j - 1 \in 0..L
    BY <1>1, <1>5
  <2>2. text[j] \in EDPiece
    BY <1>1, <2>1 DEF L
  <2>3. left[j - 1] \in Seq(EDPiece)
    BY <1>4, <2>1
  <2>4. left[j] = Append(left[j - 1], text[j])
    BY <1>4, <1>6, <2>1
  <2> QED
    BY <2>2, <2>3, <2>4
<1>7. left[1] = <<text[1]>>
  <2>1. 1 \in 1..B /\ 1 \notin R
    BY <1>1, <1>2, <1>3
  <2> QED
    BY <1>4, <1>6, <2>1
<1>8. Is(1 + h)
  <2>1. left[1 + h] = <<text[1]>>
    <3>1. CASE h = 0
      BY <1>7, <3>1
    <3>2. CASE h = 1
      <4>1. 2 \in 1..L /\ 2 \in R
        BY <1>1, <1>2, <1>3, <1>5, <3>2
      <4> QED
        BY <1>4, <1>7, <3>2, <4>1
    <3> QED
      BY <1>2, <3>1, <3>2
  <2>2. \A q \in 2..(1 + h - h) : FALSE
    BY <1>2
  <2> QED
    BY <1>2, <2>1, <2>2
<1>9. ASSUME NEW j \in (h + 2)..B, Is(j - 1)
      PROVE  Is(j)
  <2>1. j \in 1..B /\ j \notin R /\ j - 1 \in Nat
    BY <1>1, <1>2, <1>3
  <2>2. /\ left[j] = Append(left[j - 1], text[j])
        /\ left[j - 1] \in Seq(EDPiece) /\ text[j] \in EDPiece
    BY <1>6, <2>1
  <2>3. Len(left[j - 1]) = j - 1 - h
    BY <1>9
  <2> DEFINE prev == left[j - 1]
  <2>4. /\ Len(left[j]) = Len(prev) + 1 /\ left[j][Len(prev) + 1] = text[j]
        /\ \A q \in 1..Len(prev) : left[j][q] = prev[q]
    BY <2>2, PushBack
  <2>5. prev[1] = text[1] /\ \A q \in 2..(j - 1 - h) : prev[q] = text[q + h]
    BY <1>9
  <2> HIDE DEF prev
  <2>6. Len(prev) = j - 1 - h
    BY <2>3 DEF prev
  <2>7. Len(left[j]) = j - h /\ left[j][1] = text[1]
    BY <1>2, <2>4, <2>5, <2>6
  <2>8. ASSUME NEW q \in 2..(j - h)
        PROVE  left[j][q] = text[q + h]
    <3>1. CASE q = j - h
      BY <1>2, <2>4, <2>6, <3>1
    <3>2. CASE q # j - h
      <4>1. q \in 2..(j - 1 - h) /\ q \in 1..Len(prev)
        BY <1>2, <2>6, <3>2
      <4> QED
        BY <2>4, <2>5, <4>1
    <3> QED
      BY <3>1, <3>2
  <2> QED
    BY <2>7, <2>8
<1> HIDE DEF Is
<1>10. 0 \in T
  BY <1>2, <1>5, <1>8
<1>11. ASSUME NEW d \in 1..N, d - 1 \in T
       PROVE  d \in T
  <2>1. Is(d - 1 + 1 + h)
    BY <1>11
  <2> DEFINE j == d + 1 + h
  <2>2. j \in (h + 2)..B /\ d - 1 + 1 + h = j - 1
    BY <1>1, <1>2
  <2> HIDE DEF j
  <2>3. Is(j - 1)
    BY <2>1, <2>2
  <2>4. Is(j)
    BY <1>9, <2>2, <2>3
  <2> QED
    BY <2>4 DEF j
<1> HIDE DEF T
<1>12. \A d \in 0..N : d \in T
  BY <1>5, <1>10, <1>11, Induct
<1>13. i - 1 - h \in 0..N /\ i - 1 - h + 1 + h = i
  BY <1>1, <1>2 DEF h, B
<1>14. Is(i - 1 - h + 1 + h)
  BY <1>12, <1>13 DEF T
<1>15. Is(i)
  BY <1>13, <1>14
<1> QED
  BY <1>15 DEF Is, left, text, h

(* What the fix-it leaves of the front stays in front. *)
LEMMA EDFrontStays ==
  ASSUME NEW call, EDIsReportable(call), NEW i \in EDKept(call)..Len(ED!Text(call))
  PROVE  /\ EDLeft(call)[i] \in Seq(EDPiece)
         /\ Len(EDLeft(call)[i]) >= Len(EDLeft(call)[EDKept(call)])
         /\ \A q \in 1..Len(EDLeft(call)[EDKept(call)]) :
              EDLeft(call)[i][q] = EDLeft(call)[EDKept(call)][q]
<1> DEFINE text == ED!Text(call)
           L == Len(text)
           R == ED!Removed(call)
           left == EDLeft(call)
           B == EDKept(call)
           front == left[B]
           N == L - B
           Is(j) == /\ left[j] \in Seq(EDPiece)
                    /\ Len(left[j]) >= Len(front)
                    /\ \A q \in 1..Len(front) : left[j][q] = front[q]
           T == {d \in 0..N : Is(d + B)}
<1>1. /\ text \in Seq(EDPiece) /\ L \in Nat /\ B \in Nat /\ B <= L
  BY EDTextIs
<1>2. \A j \in 1..L : text[j] \in EDPiece
  BY <1>1
<1>3. /\ left \in [0..L -> Seq(EDPiece)]
      /\ \A j \in 1..L : left[j] = IF j \in R THEN left[j - 1] ELSE Append(left[j - 1], text[j])
  BY EDLeftIs
<1> HIDE DEF text, L, R, left, B
<1>4. front \in Seq(EDPiece)
  BY <1>1, <1>3
<1> HIDE DEF front
<1>5. Len(front) \in Nat
  BY <1>4
<1>6. Is(B)
  BY <1>4, <1>5 DEF front
<1>7. ASSUME NEW j \in (B + 1)..L, Is(j - 1)
      PROVE  Is(j)
  <2>1. j \in 1..L
    BY <1>1
  <2>2. CASE j \in R
    <3>1. left[j] = left[j - 1]
      BY <1>3, <2>1, <2>2
    <3> QED
      BY <1>7, <3>1
  <2>3. CASE j \notin R
    <3> DEFINE prev == left[j - 1]
    <3>1. left[j] = Append(prev, text[j]) /\ text[j] \in EDPiece
      BY <1>2, <1>3, <2>1, <2>3
    <3>2. /\ prev \in Seq(EDPiece) /\ Len(prev) >= Len(front)
          /\ \A q \in 1..Len(front) : prev[q] = front[q]
      BY <1>7
    <3> HIDE DEF prev
    <3>3. /\ left[j] \in Seq(EDPiece) /\ Len(prev) \in Nat /\ Len(left[j]) = Len(prev) + 1
          /\ \A q \in 1..Len(prev) : left[j][q] = prev[q]
      BY <3>1, <3>2, PushBack
    <3>4. \A q \in 1..Len(front) : q \in 1..Len(prev)
      BY <1>5, <3>2, <3>3
    <3>5. Len(left[j]) >= Len(front)
      BY <1>5, <3>2, <3>3
    <3> QED
      BY <3>2, <3>3, <3>4, <3>5
  <2> QED
    BY <2>2, <2>3
<1> HIDE DEF Is
<1>8. N \in Nat
  BY <1>1
<1>9. 0 \in T
  BY <1>1, <1>6, <1>8
<1>10. ASSUME NEW d \in 1..N, d - 1 \in T
       PROVE  d \in T
  <2>1. Is(d - 1 + B)
    BY <1>10
  <2> DEFINE j == d + B
  <2>2. j \in (B + 1)..L /\ d - 1 + B = j - 1
    BY <1>1
  <2> HIDE DEF j
  <2>3. Is(j - 1)
    BY <2>1, <2>2
  <2>4. Is(j)
    BY <1>7, <2>2, <2>3
  <2> QED
    BY <2>4 DEF j
<1> HIDE DEF T
<1>11. \A d \in 0..N : d \in T
  BY <1>8, <1>9, <1>10, Induct
<1>12. i - B \in 0..N /\ i - B + B = i
  BY <1>1 DEF B, L, text
<1>13. Is(i - B + B)
  BY <1>11, <1>12 DEF T
<1>14. Is(i)
  BY <1>12, <1>13
<1> QED
  BY <1>14 DEF Is, front, left, B

(* The parenthesis that closes the call is not removed. *)
LEMMA EDEndIsKept ==
  ASSUME NEW call, EDIsReportable(call)
  PROVE  LET left == EDLeft(call)[Len(ED!Text(call))]
         IN  left \in Seq(EDPiece) /\ Len(left) >= 1 /\ left[Len(left)] = ED!Closing
<1> DEFINE text == ED!Text(call)
           L == Len(text)
           R == ED!Removed(call)
           left == EDLeft(call)
<1>1. /\ text \in Seq(EDPiece) /\ L \in Nat /\ text[L] = ED!Closing
      /\ ED!RemovalStart(call) \in (EDKept(call) + 1)..(L - 1)
      /\ EDKept(call) \in Nat /\ EDKept(call) >= 2
  BY EDTextIs
<1>2. L >= 4
  BY <1>1
<1>3. L \notin R
  BY <1>1, <1>2 DEF ED!Removed
<1>4. /\ left \in [0..L -> Seq(EDPiece)]
      /\ \A j \in 1..L : left[j] = IF j \in R THEN left[j - 1] ELSE Append(left[j - 1], text[j])
  BY EDLeftIs
<1>5. L \in 1..L /\ L - 1 \in 0..L
  BY <1>1, <1>2
<1>6. text[L] \in EDPiece
  BY <1>1, <1>5
<1> HIDE DEF text, L, R, left
<1> DEFINE prev == left[L - 1]
<1>7. prev \in Seq(EDPiece) /\ left[L] = Append(prev, ED!Closing) /\ ED!Closing \in EDPiece
  BY <1>1, <1>3, <1>4, <1>5, <1>6
<1> HIDE DEF prev
<1>8. /\ left[L] \in Seq(EDPiece) /\ Len(prev) \in Nat /\ Len(left[L]) = Len(prev) + 1
      /\ left[L][Len(prev) + 1] = ED!Closing
  BY <1>7, PushBack
<1>9. Len(left[L]) >= 1 /\ left[L][Len(left[L])] = ED!Closing
  BY <1>8
<1> QED
  BY <1>8, <1>9 DEF left, L, text

(* A sequence that has the length and the elements of another's front is a   *)
(* prefix of it.                                                             *)
LEMMA EDPrefixIs ==
  ASSUME NEW s \in Seq(EDPiece), NEW t \in Seq(EDPiece), Len(s) <= Len(t),
         \A q \in 1..Len(s) : s[q] = t[q]
  PROVE  ED!IsPrefix(s, t)
<1>1. SubSeq(s, 1, Len(s)) = SubSeq(t, 1, Len(s))
  OBVIOUS
<1> QED
  BY <1>1 DEF ED!IsPrefix

(* What makeReport's fix-it leaves of a call: the name try_emplace, then all *)
(* that is between the name and the last two arguments; and the end.         *)
LEMMA EDFixIs ==
  ASSUME NEW call, EDIsReportable(call)
  PROVE  LET rest == SubSeq(ED!Text(call), Len(ED!Name(call.method)) + 1,
                            ED!Before(call, Len(call.args) - 1))
             name == IF call.method = "try_emplace" THEN <<"try_emplace">>
                     ELSE <<"try_", "emplace">>
         IN  /\ ED!IsPrefix(name \o rest, ED!Fixed(call))
             /\ ED!Last(ED!Fixed(call)) = ED!Closing
<1> DEFINE text == ED!Text(call)
           N == EDNameEnd(call)
           B == EDKept(call)
           h == EDCut(call)
           rest == SubSeq(text, N + 1, B)
           name == IF call.method = "try_emplace" THEN <<"try_emplace">>
                   ELSE <<"try_", "emplace">>
           added == IF call.method = "try_emplace" THEN <<>> ELSE <<"try_">>
           left == EDLeft(call)[Len(text)]
           fixed == ED!Fixed(call)
           front == EDLeft(call)[B]
<1>1. /\ text \in Seq(EDPiece) /\ Len(text) \in Nat /\ B \in Nat /\ B >= N + 1
      /\ B <= Len(text) /\ text[1] = ED!Name(call.method)[1]
      /\ N = IF call.method = "emplace_hint" THEN 2 ELSE 1
  BY EDTextIs
<1>2. h = IF call.method = "emplace_hint" THEN 1 ELSE 0
  BY DEF EDCut
<1>3. fixed = added \o left
  BY EDLeftIs
<1>4. left \in Seq(EDPiece) /\ Len(left) >= 1 /\ left[Len(left)] = ED!Closing
  BY EDEndIsKept
<1>5. N = h + 1 /\ h \in {0, 1} /\ N \in {1, 2}
  BY <1>1, <1>2
<1>6. /\ Len(front) = B - h /\ front[1] = text[1]
      /\ \A q \in 2..(B - h) : front[q] = text[q + h]
  <2>1. B \in (h + 1)..B
    BY <1>1, <1>5
  <2> QED
    BY <2>1, EDFrontIsKept
<1>7. Len(left) >= Len(front) /\ \A q \in 1..Len(front) : left[q] = front[q]
  <2>1. Len(text) \in B..Len(text)
    BY <1>1
  <2> QED
    BY <2>1, EDFrontStays
<1> HIDE DEF text, left, front, h, N, B
<1>8. /\ Len(left) \in Nat /\ Len(left) >= B - h /\ left[1] = text[1]
      /\ \A q \in 2..(B - h) : left[q] = text[q + h]
  <2>1. B - h >= 1 /\ B - h \in Nat
    BY <1>1, <1>5
  <2>2. \A q \in 1..(B - h) : left[q] = front[q]
    BY <1>6, <1>7
  <2>3. 1 \in 1..(B - h) /\ \A q \in 2..(B - h) : q \in 1..(B - h)
    BY <2>1
  <2> QED
    BY <1>4, <1>6, <1>7, <2>2, <2>3
<1>9. /\ rest \in Seq(EDPiece) /\ Len(rest) = B - N
      /\ \A q \in 1..(B - N) : rest[q] = text[N + q]
  <2>1. /\ N + 1 \in Int /\ B \in Int /\ B - (N + 1) + 1 = B - N /\ N + 1 <= B
    BY <1>1, <1>5
  <2>2. \A q \in (N + 1)..B : text[q] \in EDPiece
    BY <1>1, <1>5
  <2> DEFINE m == N + 1
  <2>3. \A q : m + q - 1 = N + 1 + q - 1
    OBVIOUS
  <2> HIDE DEF m
  <2>4. /\ SubSeq(text, m, B) \in Seq(EDPiece)
        /\ Len(SubSeq(text, m, B)) = B - m + 1
        /\ \A q \in 1..(B - m + 1) : SubSeq(text, m, B)[q] = text[m + q - 1]
    BY <2>1, <2>2, SubSeqProperties DEF m
  <2>5. B - m + 1 = B - N
    BY <2>1 DEF m
  <2>6. \A q \in 1..(B - N) : m + q - 1 = N + q
    BY <1>1, <1>5 DEF m
  <2> QED
    BY <2>4, <2>5, <2>6 DEF m
<1> HIDE DEF rest
<1>10. /\ name \in Seq(EDPiece) /\ added \in Seq(EDPiece)
       /\ Len(name) = Len(added) + 1
       /\ name[Len(added) + 1] = text[1]
       /\ Len(added) = 1 => name[1] = added[1]
       /\ Len(added) \in {0, 1}
  <2>1. CASE call.method = "try_emplace"
    <3>1. text[1] = "try_emplace"
      BY <1>1, <2>1 DEF ED!Name
    <3>2. name = <<"try_emplace">> /\ added = <<>>
      BY <2>1
    <3> QED
      BY <3>1, <3>2, EDPieceIs
  <2>2. CASE call.method # "try_emplace"
    <3>1. text[1] = "emplace"
      BY <1>1, <2>2 DEF ED!Name, EDIsReportable
    <3>2. name = <<"try_", "emplace">> /\ added = <<"try_">>
      BY <2>2
    <3> QED
      BY <3>1, <3>2, EDPieceIs
  <2> QED
    BY <2>1, <2>2
<1> HIDE DEF name, added
<1>11. /\ fixed \in Seq(EDPiece) /\ Len(fixed) = Len(added) + Len(left)
       /\ \A q \in 1..Len(added) : fixed[q] = added[q]
       /\ \A q \in 1..Len(left) : fixed[Len(added) + q] = left[q]
  BY <1>3, <1>4, <1>10, EDConcat
<1> HIDE DEF fixed
<1>12. ED!Last(fixed) = ED!Closing
  <2>1. Len(left) \in 1..Len(left)
    BY <1>4, <1>8
  <2> QED
    BY <1>4, <1>11, <2>1 DEF ED!Last
<1> DEFINE head == name \o rest
<1>13. /\ head \in Seq(EDPiece) /\ Len(head) = Len(name) + Len(rest)
       /\ \A q \in 1..Len(name) : head[q] = name[q]
       /\ \A q \in 1..Len(rest) : head[Len(name) + q] = rest[q]
  BY <1>9, <1>10, EDConcat
<1> HIDE DEF head
<1>14. Len(head) = Len(added) + 1 + (B - N) /\ Len(head) <= Len(fixed)
  <2>1. Len(name) = Len(added) + 1 /\ Len(added) \in Nat
    BY <1>10
  <2>2. Len(head) = Len(added) + 1 + (B - N)
    BY <1>9, <1>13, <2>1
  <2>3. Len(left) >= B - h /\ B - h = 1 + (B - N)
    BY <1>1, <1>5, <1>8
  <2>4. Len(fixed) = Len(added) + Len(left)
    BY <1>11
  <2>5. Len(head) <= Len(fixed)
    BY <1>1, <1>5, <1>8, <2>1, <2>2, <2>3, <2>4
  <2> QED
    BY <2>2, <2>5
<1>15. ASSUME NEW q \in 1..Len(head)
       PROVE  head[q] = fixed[q]
  <2>0. q \in Nat /\ q >= 1 /\ Len(added) \in Nat
    BY <1>10
  <2>1. CASE q <= Len(added)
    <3> DEFINE a == Len(added)
    <3>1. a \in {0, 1} /\ q <= a
      BY <1>10, <2>1
    <3> HIDE DEF a
    <3>2. a = 1 /\ q = 1
      BY <2>0, <3>1
    <3>3. 1 \in 1..Len(name) /\ 1 \in 1..Len(added)
      BY <1>10, <3>2 DEF a
    <3> QED
      BY <1>10, <1>11, <1>13, <3>2, <3>3 DEF a
  <2>2. CASE q = Len(added) + 1
    <3>1. /\ q \in 1..Len(name) /\ 1 \in 1..Len(left)
      BY <1>4, <1>8, <1>10, <2>2
    <3>2. head[q] = text[1]
      BY <1>10, <1>13, <2>2, <3>1
    <3>3. fixed[q] = left[1]
      BY <1>11, <2>2, <3>1
    <3> QED
      BY <1>8, <3>2, <3>3
  <2>3. CASE q > Len(added) + 1
    <3> DEFINE p == q - Len(added) - 1
    <3>1. /\ p \in 1..(B - N) /\ q = Len(name) + p
      BY <1>1, <1>5, <1>10, <1>14, <2>3
    <3>2. /\ q = Len(added) + (p + 1) /\ p + 1 \in 2..(B - h) /\ p + 1 + h = N + p
      BY <1>1, <1>5, <1>10, <1>14, <2>3
    <3>3. p + 1 \in 1..Len(left) /\ p \in 1..Len(rest)
      BY <1>1, <1>5, <1>8, <1>9, <3>1, <3>2
    <3> HIDE DEF p
    <3>4. head[q] = rest[p] /\ rest[p] = text[N + p]
      BY <1>9, <1>13, <3>1, <3>3
    <3>5. fixed[q] = left[p + 1] /\ left[p + 1] = text[p + 1 + h]
      BY <1>8, <1>11, <3>2, <3>3
    <3> QED
      BY <3>2, <3>4, <3>5
  <2> QED
    BY <2>0, <2>1, <2>2, <2>3
<1>16. ED!IsPrefix(head, fixed)
  BY <1>11, <1>13, <1>14, <1>15, EDPrefixIs
<1> QED
  BY <1>12, <1>16 DEF head, name, rest, fixed, text, N, B, EDNameEnd, EDKept

-----------------------------------------------------------------------------
(* The inductive invariants. *)

(* Both expressions are of known nodes and written no further than whole. *)
IDInv ==
  /\ stmt1 \in Seq(Tokens) /\ IDIsWritten(stmt1)
  /\ stmt2 \in Seq(Tokens) /\ IDIsWritten(stmt2)
  /\ ignore_side_effects \in BOOLEAN

(* The calls that are to be reported, see DefaultsAreReported. *)
EDIsDefault(c) ==
  /\ c.record \cap TryRecords # {}
  /\ ED!Last(c.args).default
  /\ c.method = "emplace_hint" \/ (c.method # "other" /\ Len(c.args) = 2)

(* No emplace_hint is given a default-constructed position alone. *)
EDIsGiven(c) == c \in ED!Call /\ (Len(c.args) = 1 => ~c.args[1].default)

(* What is remembered of a class is what it has; just the calls to be        *)
(* reported are, each with its own text.                                     *)
EDInv ==
  /\ calls \in Seq(ED!Call) /\ \A n \in 1..Len(calls) : EDIsGiven(calls[n])
  /\ \A c \in DOMAIN m_has_try_emplace : m_has_try_emplace[c] <=> c \in TryRecords
  /\ \A r \in reports :
       /\ r.call \in 1..Len(calls) /\ EDIsDefault(calls[r.call])
       /\ r.text = ED!Fixed(calls[r.call])
  /\ \A n \in 1..Len(calls) : EDIsDefault(calls[n]) => \E r \in reports : r.call = n

(* Writing a node keeps an expression written. *)
LEMMA IDGrow ==
  ASSUME NEW stmt \in Seq(Tokens), NEW t \in Tokens, IDIsWritten(stmt), ID!CanGrow(stmt, t)
  PROVE  Append(stmt, t) \in Seq(Tokens) /\ IDIsWritten(Append(stmt, t))
<1> DEFINE more == Append(stmt, t)
           L == Len(stmt)
           M1 == ID!Missing(stmt)
           M2 == ID!Missing(more)
<1>1. t \in ID!Token /\ t.children \in Nat /\ stmt \in Seq(ID!Token)
  <2>1. t \in ID!Token
    BY MatchersAssumption DEF ID!IdenticalAssumption
  <2> QED
    BY <2>1, IDTokens DEF ID!Token
<1>2. /\ more \in Seq(ID!Token) /\ L \in Nat /\ Len(more) = L + 1
      /\ \A n \in 0..L : M2[n] = M1[n]
      /\ M2[L + 1] = M1[L] - 1 + t.children
  BY <1>1, IDMissingKept
<1>3. M1 \in [0..L -> Int]
  BY <1>1, IDMissingIs
<1>4. (\A n \in 0..(L - 1) : M1[n] >= 1) /\ M1[L] >= 0 /\ M1[L] # 0
  BY DEF IDIsWritten, ID!CanGrow, ID!IsWhole
<1>5. more \in Seq(Tokens)
  BY PushBack
<1> HIDE DEF more, L, M1, M2
<1>6. M1[L] \in Int /\ M1[L] >= 1
  BY <1>2, <1>3, <1>4
<1>7. M2[L + 1] >= 0
  BY <1>1, <1>2, <1>6
<1>8. ASSUME NEW n \in 0..L
      PROVE  M2[n] >= 1
  <2>1. n \in 0..(L - 1) \/ n = L
    BY <1>2
  <2>2. M1[n] >= 1
    BY <1>4, <1>6, <2>1
  <2> QED
    BY <1>2, <2>2
<1>9. Len(more) - 1 = L
  BY <1>2
<1>10. IDIsWritten(more)
  BY <1>2, <1>7, <1>8, <1>9 DEF IDIsWritten, M2
<1> QED
  BY <1>5, <1>10 DEF more

LEMMA IDInit ==
  ASSUME ID!Init
  PROVE  IDInv
<1>1. stmt1 = <<>> /\ stmt2 = <<>> /\ ignore_side_effects \in BOOLEAN
  BY DEF ID!Init
<1>2. <<>> \in Seq(Tokens) /\ <<>> \in Seq(ID!Token) /\ Len(<<>>) = 0
  OBVIOUS
<1>3. ID!Missing(<<>>)[0] = 1
  BY <1>2, IDMissingIs
<1>4. \A n \in 0..(0 - 1) : FALSE
  OBVIOUS
<1>5. IDIsWritten(<<>>)
  BY <1>2, <1>3, <1>4 DEF IDIsWritten
<1> QED
  BY <1>1, <1>2, <1>5 DEF IDInv

LEMMA IDNext ==
  ASSUME IDInv, ID!Next
  PROVE  IDInv'
<1>1. PICK t \in Tokens : ID!WriteFirst(t) \/ ID!WriteSecond(t)
  BY DEF ID!Next
<1>2. CASE ID!WriteFirst(t)
  <2>1. /\ ID!CanGrow(stmt1, t) /\ stmt1' = Append(stmt1, t)
        /\ UNCHANGED <<stmt2, ignore_side_effects>>
    BY <1>2 DEF ID!WriteFirst
  <2>2. \A s : s = stmt1' => s \in Seq(Tokens) /\ IDIsWritten(s)
    BY <2>1, IDGrow DEF IDInv
  <2> QED
    BY <2>1, <2>2 DEF IDInv, IDIsWritten
<1>3. CASE ID!WriteSecond(t)
  <2>1. /\ ID!CanGrow(stmt2, t) /\ stmt2' = Append(stmt2, t)
        /\ UNCHANGED <<stmt1, ignore_side_effects>>
    BY <1>3 DEF ID!WriteSecond
  <2>2. \A s : s = stmt2' => s \in Seq(Tokens) /\ IDIsWritten(s)
    BY <2>1, IDGrow DEF IDInv
  <2> QED
    BY <2>1, <2>2 DEF IDInv, IDIsWritten
<1> QED
  BY <1>1, <1>2, <1>3

LEMMA IDStutter ==
  ASSUME IDInv, UNCHANGED <<stmt1, stmt2, ignore_side_effects>>
  PROVE  IDInv'
BY DEF IDInv, IDIsWritten

(* A call to be reported is one that makeReport can be given. *)
LEMMA EDDefaultIsReportable ==
  ASSUME NEW c, EDIsGiven(c), EDIsDefault(c)
  PROVE  EDIsReportable(c)
<1>1. c.method \in ED!Methods /\ c.args \in UNION {[1..n -> Args] : n \in 1..MaxArgs}
  BY DEF EDIsGiven, ED!Call
<1>2. PICK n \in 1..MaxArgs : c.args \in [1..n -> Args]
  BY <1>1
<1>3. n \in Nat /\ n >= 1
  BY MatchersAssumption DEF ED!EmplaceDefaultValueAssumption
<1>4. c.args \in Seq(Args) /\ Len(c.args) = n
  BY <1>2, <1>3
<1>5. n # 1
  BY <1>4 DEF EDIsGiven, EDIsDefault, ED!Last
<1>6. c.method \in {"emplace", "try_emplace", "emplace_hint"}
  BY <1>1 DEF EDIsDefault, ED!Methods
<1> QED
  BY <1>3, <1>4, <1>5, <1>6 DEF EDIsReportable

LEMMA EDInit ==
  ASSUME ED!Init
  PROVE  EDInv
<1>1. m_has_try_emplace = <<>> /\ reports = {} /\ calls = <<>>
  BY DEF ED!Init
<1>2. <<>> \in Seq(ED!Call) /\ Len(<<>>) = 0 /\ (\A n \in 1..0 : FALSE)
  OBVIOUS
<1>3. DOMAIN <<>> = {}
  OBVIOUS
<1> QED
  BY <1>1, <1>2, <1>3 DEF EDInv

(* What VisitCXXMemberCallExpr remembers and reports. *)
LEMMA EDVisitDoes ==
  ASSUME EDInv, NEW c \in ED!Call, ED!VisitCXXMemberCallExpr(c)
  PROVE  /\ \A d \in DOMAIN m_has_try_emplace' : m_has_try_emplace'[d] <=> d \in TryRecords
         /\ reports' = reports \cup
              IF EDIsDefault(c) THEN {[call |-> Len(calls) + 1, text |-> ED!Fixed(c)]} ELSE {}
<1>1. c.method \in ED!Methods /\ c.record \in {{}} \cup {{r} : r \in Records}
  BY DEF ED!Call
<1>2. TryRecords \subseteq Records
  BY MatchersAssumption DEF ED!EmplaceDefaultValueAssumption
<1>3. \A d \in DOMAIN m_has_try_emplace : m_has_try_emplace[d] <=> d \in TryRecords
  BY DEF EDInv
<1>4. ED!IsCandidate(c) <=>
        (c.method = "emplace_hint" \/ (c.method # "other" /\ Len(c.args) = 2))
  BY <1>1 DEF ED!IsCandidate, ED!Methods
<1>5. CASE ED!IsCandidate(c) /\ c.record # {}
  <2> DEFINE r == CHOOSE r \in Records : r \in c.record
  <2>1. r \in Records /\ c.record = {r}
    BY <1>1, <1>5
  <2>2. /\ m_has_try_emplace' = ED!hasTryEmplace(r)
        /\ reports' = reports \cup
             IF m_has_try_emplace'[r] /\ ED!Last(c.args).default
               THEN {[call |-> Len(calls) + 1, text |-> ED!Fixed(c)]} ELSE {}
    BY <1>5 DEF ED!VisitCXXMemberCallExpr
  <2> HIDE DEF r
  <2>3. m_has_try_emplace' =
          [d \in DOMAIN m_has_try_emplace \cup {r} |->
             IF d \in DOMAIN m_has_try_emplace THEN m_has_try_emplace[d] ELSE r \in TryRecords]
    BY <2>2 DEF ED!hasTryEmplace, ED!Emplaced
  <2>4. \A d \in DOMAIN m_has_try_emplace' : m_has_try_emplace'[d] <=> d \in TryRecords
    BY <1>3, <2>3
  <2>5. m_has_try_emplace'[r] <=> r \in TryRecords
    BY <2>3, <2>4
  <2>6. EDIsDefault(c) <=> r \in TryRecords /\ ED!Last(c.args).default
    BY <1>4, <1>5, <2>1 DEF EDIsDefault
  <2> QED
    BY <2>2, <2>4, <2>5, <2>6
<1>6. CASE ~(ED!IsCandidate(c) /\ c.record # {})
  <2>1. UNCHANGED <<m_has_try_emplace, reports>>
    BY <1>6 DEF ED!VisitCXXMemberCallExpr
  <2>2. ~EDIsDefault(c)
    BY <1>4, <1>6 DEF EDIsDefault
  <2> QED
    BY <1>3, <2>1, <2>2
<1> QED
  BY <1>5, <1>6

LEMMA EDNext ==
  ASSUME EDInv, ED!Next
  PROVE  EDInv'
<1>1. PICK c \in ED!Call : ED!VisitCXXMemberCallExpr(c)
  BY DEF ED!Next
<1>2. /\ \A d \in DOMAIN m_has_try_emplace' : m_has_try_emplace'[d] <=> d \in TryRecords
      /\ reports' = reports \cup
           IF EDIsDefault(c) THEN {[call |-> Len(calls) + 1, text |-> ED!Fixed(c)]} ELSE {}
  BY <1>1, EDVisitDoes
<1>3. EDIsGiven(c) /\ calls' = Append(calls, c)
  BY <1>1 DEF ED!VisitCXXMemberCallExpr, EDIsGiven
<1>4. /\ calls \in Seq(ED!Call) /\ \A n \in 1..Len(calls) : EDIsGiven(calls[n])
      /\ \A r \in reports :
           /\ r.call \in 1..Len(calls) /\ EDIsDefault(calls[r.call])
           /\ r.text = ED!Fixed(calls[r.call])
      /\ \A n \in 1..Len(calls) : EDIsDefault(calls[n]) => \E r \in reports : r.call = n
  BY DEF EDInv
<1> DEFINE L == Len(calls)
           more == Append(calls, c)
           new == [call |-> L + 1, text |-> ED!Fixed(c)]
           all == reports \cup IF EDIsDefault(c) THEN {new} ELSE {}
<1>5. /\ more \in Seq(ED!Call) /\ L \in Nat /\ Len(more) = L + 1 /\ more[L + 1] = c
      /\ \A n \in 1..L : more[n] = calls[n]
  BY <1>4, PushBack
<1>6. new.call = L + 1 /\ new.text = ED!Fixed(c)
  OBVIOUS
<1>7. \A r \in all : r \in reports \/ (r = new /\ EDIsDefault(c))
  OBVIOUS
<1>8. reports \subseteq all /\ (EDIsDefault(c) => new \in all)
  OBVIOUS
<1>9. calls' = more /\ reports' = all
  BY <1>2, <1>3
<1> HIDE DEF L, more, new, all
<1>10. \A n \in 1..Len(more) : n \in 1..L \/ n = L + 1
  BY <1>5
<1>11. \A n \in 1..L : n \in 1..Len(more)
  BY <1>5
<1>12. L + 1 \in 1..Len(more)
  BY <1>5
<1>13. \A n \in 1..Len(more) : EDIsGiven(more[n])
  BY <1>3, <1>4, <1>5, <1>10 DEF L
<1>14. ASSUME NEW r \in all
       PROVE  /\ r.call \in 1..Len(more) /\ EDIsDefault(more[r.call])
              /\ r.text = ED!Fixed(more[r.call])
  <2>1. CASE r \in reports
    <3>1. /\ r.call \in 1..L /\ EDIsDefault(calls[r.call])
          /\ r.text = ED!Fixed(calls[r.call])
      BY <1>4, <2>1 DEF L
    <3>2. r.call \in 1..Len(more) /\ more[r.call] = calls[r.call]
      BY <1>5, <1>11, <3>1
    <3> QED
      BY <3>1, <3>2
  <2>2. CASE r = new /\ EDIsDefault(c)
    BY <1>5, <1>6, <1>12, <2>2
  <2> QED
    BY <1>7, <2>1, <2>2
<1>15. ASSUME NEW n \in 1..Len(more), EDIsDefault(more[n])
       PROVE  \E r \in all : r.call = n
  <2>1. CASE n \in 1..L
    <3>1. EDIsDefault(calls[n])
      BY <1>5, <1>15, <2>1
    <3> QED
      BY <1>4, <1>8, <2>1, <3>1 DEF L
  <2>2. CASE n = L + 1
    BY <1>5, <1>6, <1>8, <1>15, <2>2
  <2> QED
    BY <1>10, <2>1, <2>2
<1>16. /\ calls' \in Seq(ED!Call) /\ (\A n \in 1..Len(calls') : EDIsGiven(calls'[n]))
       /\ \A r \in reports' :
            /\ r.call \in 1..Len(calls') /\ EDIsDefault(calls'[r.call])
            /\ r.text = ED!Fixed(calls'[r.call])
       /\ \A n \in 1..Len(calls') : EDIsDefault(calls'[n]) => \E r \in reports' : r.call = n
  BY <1>5, <1>9, <1>13, <1>14, <1>15
<1> QED
  BY <1>2, <1>16 DEF EDInv, EDIsGiven, EDIsDefault

LEMMA EDStutter ==
  ASSUME EDInv, UNCHANGED <<m_has_try_emplace, reports, calls>>
  PROVE  EDInv'
BY DEF EDInv, EDIsGiven, EDIsDefault

-----------------------------------------------------------------------------
(* The theorems. *)

MatchersInv == IDInv /\ EDInv

LEMMA MatchersInitial ==
  ASSUME Init
  PROVE  MatchersInv
<1>1. ID!Init /\ ED!Init
  BY DEF Init
<1> QED
  BY <1>1, IDInit, EDInit DEF MatchersInv

LEMMA MatchersStep ==
  ASSUME MatchersInv, [Next]_vars
  PROVE  MatchersInv'
<1>1. IDInv /\ EDInv
  BY DEF MatchersInv
<1>2. CASE IdenticalNext
  <2>1. ID!Next /\ UNCHANGED <<m_has_try_emplace, reports, calls>>
    BY <1>2 DEF IdenticalNext, ofEmplaceDefaultValue
  <2> QED
    BY <1>1, <2>1, IDNext, EDStutter DEF MatchersInv
<1>3. CASE EmplaceDefaultValueNext
  <2>1. ED!Next /\ UNCHANGED <<stmt1, stmt2, ignore_side_effects>>
    BY <1>3 DEF EmplaceDefaultValueNext, ofIdentical
  <2> QED
    BY <1>1, <2>1, IDStutter, EDNext DEF MatchersInv
<1>4. CASE UNCHANGED vars
  <2>1. /\ UNCHANGED <<stmt1, stmt2, ignore_side_effects>>
        /\ UNCHANGED <<m_has_try_emplace, reports, calls>>
    BY <1>4 DEF vars, ofIdentical, ofEmplaceDefaultValue
  <2> QED
    BY <1>1, <2>1, IDStutter, EDStutter DEF MatchersInv
<1> QED
  BY <1>2, <1>3, <1>4 DEF Next

(* The invariant that the theorems below rest on. *)
THEOREM MatchersInvariant == Spec => []MatchersInv
<1>1. Init => MatchersInv
  BY MatchersInitial
<1>2. MatchersInv /\ [Next]_vars => MatchersInv'
  BY MatchersStep
<1> QED
  BY <1>1, <1>2, PTL DEF Spec

(* Whatever the expressions and however long: what isIdenticalStmt takes for *)
(* the same reads the same, comes from no macro, and has no side effect that *)
(* the caller did not ask to ignore.                                         *)
THEOREM IdenticalIsAlwaysSound == Spec => []IdenticalIsSound
<1>1. MatchersInv => IdenticalIsSound
  <2> SUFFICES ASSUME MatchersInv, ID!IsComplete, ID!Result
               PROVE  /\ ID!Shape(stmt1) = ID!Shape(stmt2)
                      /\ \A i \in 1..Len(stmt1) : ~stmt1[i].macro /\ ~stmt2[i].macro
                      /\ ~ignore_side_effects =>
                           \A i \in 1..Len(stmt1) : ~stmt1[i].effect /\ ~stmt2[i].effect
    BY DEF IdenticalIsSound, ID!IdenticalIsSound
  <2>1. ID!IsWhole(stmt1) /\ ID!IsWhole(stmt2)
    BY DEF ID!IsComplete
  <2>2. ID!isIdenticalStmt(stmt1, stmt2, ignore_side_effects)
    BY DEF ID!Result
  <2> QED
    BY <2>1, <2>2, IDIsSound DEF MatchersInv, IDInv
<1> QED
  BY <1>1, MatchersInvariant, PTL

(* Whatever the expressions and however long: isIdenticalStmt takes for the  *)
(* same all that read the same and that it may accept.                       *)
THEOREM IdenticalIsAlwaysComplete == Spec => []IdenticalIsComplete
<1>1. MatchersInv => IdenticalIsComplete
  <2> SUFFICES ASSUME MatchersInv, ID!IsComplete, ID!Shape(stmt1) = ID!Shape(stmt2),
                      \A i \in 1..Len(stmt1) :
                        /\ stmt1[i].kind # "other" /\ ~stmt1[i].macro /\ ~stmt2[i].macro
                        /\ ignore_side_effects \/ ~stmt1[i].effect
               PROVE  ID!Result
    BY DEF IdenticalIsComplete, ID!IdenticalIsComplete
  <2>1. ID!IsWhole(stmt1) /\ ID!IsWhole(stmt2)
    BY DEF ID!IsComplete
  <2>2. ID!isIdenticalStmt(stmt1, stmt2, ignore_side_effects)
    BY <2>1, IDIsComplete DEF MatchersInv, IDInv
  <2> QED
    BY <2>2 DEF ID!Result
<1> QED
  BY <1>1, MatchersInvariant, PTL

(* However many classes and calls there are: just the calls that make a      *)
(* default value for a class with try_emplace() are reported.                *)
THEOREM DefaultsAreAlwaysReported == Spec => []DefaultsAreReported
<1>1. MatchersInv => DefaultsAreReported
  <2> SUFFICES ASSUME MatchersInv, NEW n \in 1..Len(calls)
               PROVE  (\E r \in reports : r.call = n) <=> EDIsDefault(calls[n])
    BY DEF DefaultsAreReported, ED!DefaultsAreReported, EDIsDefault
  <2> QED
    BY DEF MatchersInv, EDInv
<1> QED
  BY <1>1, MatchersInvariant, PTL

(* However many arguments the call has and whatever their text is: the edits *)
(* of makeReport leave a call of try_emplace with all that stood before the  *)
(* last two arguments.                                                       *)
THEOREM FixAlwaysCallsTryEmplace == Spec => []FixCallsTryEmplace
<1>1. MatchersInv => FixCallsTryEmplace
  <2> SUFFICES ASSUME MatchersInv, NEW r \in reports
               PROVE  LET c == calls[r.call]
                          rest == SubSeq(ED!Text(c), Len(ED!Name(c.method)) + 1,
                                         ED!Before(c, Len(c.args) - 1))
                          name == IF c.method = "try_emplace" THEN <<"try_emplace">>
                                  ELSE <<"try_", "emplace">>
                      IN  /\ ED!IsPrefix(name \o rest, r.text)
                          /\ ED!Last(r.text) = ED!Closing
    BY DEF FixCallsTryEmplace, ED!FixCallsTryEmplace
  <2> DEFINE c == calls[r.call]
  <2>1. EDIsGiven(c) /\ EDIsDefault(c) /\ r.text = ED!Fixed(c)
    BY DEF MatchersInv, EDInv
  <2> HIDE DEF c
  <2>2. EDIsReportable(c)
    BY <2>1, EDDefaultIsReportable
  <2> QED
    BY <2>1, <2>2, EDFixIs DEF c
<1> QED
  BY <1>1, MatchersInvariant, PTL

=============================================================================
