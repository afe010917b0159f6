---------------------------- MODULE VectorLemmas ----------------------------
(* Facts about sequences used as a std::vector is (push_back and pop_back),  *)
(* and what there is of induction over numbers.                              *)
EXTENDS Integers, Sequences, SequenceTheorems, WellFoundedInduction, TLAPS

(* std::vector::push_back. *)
LEMMA PushBack ==
  ASSUME NEW S, NEW s \in Seq(S), NEW x \in S
  PROVE  /\ Append(s, x) \in Seq(S)
         /\ Len(s) \in Nat
         /\ Len(Append(s, x)) = Len(s) + 1
         /\ Append(s, x)[Len(s) + 1] = x
         /\ \A i \in 1..Len(s) : Append(s, x)[i] = s[i]
  OBVIOUS

(* std::vector::pop_back. *)
LEMMA PopBack ==
  ASSUME NEW S, NEW s \in Seq(S), s # <<>>
  PROVE  /\ SubSeq(s, 1, Len(s) - 1) \in Seq(S)
         /\ Len(s) \in Nat /\ Len(s) >= 1
         /\ Len(SubSeq(s, 1, Len(s) - 1)) = Len(s) - 1
         /\ \A i \in 1..(Len(s) - 1) : SubSeq(s, 1, Len(s) - 1)[i] = s[i]
<1>1. Len(s) \in Nat /\ Len(s) >= 1 /\ \A i \in 1..(Len(s) - 1) : s[i] \in S
  OBVIOUS
<1> DEFINE n == Len(s) - 1
<1>2. n \in Int /\ 1 \in Int /\ n >= 0 /\ n - 1 + 1 = n
  BY <1>1
<1>3. \A i \in 1..n : s[i] \in S
  BY <1>1
<1> HIDE DEF n
<1>4. /\ SubSeq(s, 1, n) \in Seq(S)
      /\ Len(SubSeq(s, 1, n)) = IF 1 <= n THEN n - 1 + 1 ELSE 0
      /\ \A i \in 1..(n - 1 + 1) : SubSeq(s, 1, n)[i] = s[1 + i - 1]
  BY <1>2, <1>3, SubSeqProperties
<1>5. Len(SubSeq(s, 1, n)) = n /\ \A i \in 1..n : SubSeq(s, 1, n)[i] = s[i]
  BY <1>2, <1>4
<1> QED
  BY <1>1, <1>4, <1>5 DEF n

(* std::vector::back. *)
LEMMA Back ==
  ASSUME NEW S, NEW s \in Seq(S), s # <<>>
  PROVE  Len(s) \in 1..Len(s) /\ s[Len(s)] \in S
OBVIOUS

(* The elements of a vector before and after a push_back. *)
LEMMA Grown ==
  ASSUME NEW S, NEW s \in Seq(S), NEW x \in S, NEW t, t = Append(s, x)
  PROVE  /\ t \in Seq(S) /\ Len(s) \in Nat /\ Len(t) \in Nat /\ Len(t) = Len(s) + 1
         /\ \A i \in 1..Len(s) : i \in 1..Len(t) /\ t[i] = s[i] /\ i # Len(t)
         /\ Len(t) \in 1..Len(t) /\ t[Len(t)] = x
         /\ \A i \in 1..Len(t) : i \in 1..Len(s) \/ i = Len(t)
BY PushBack

(* The elements of a vector before and after a pop_back. *)
LEMMA Shrunk ==
  ASSUME NEW S, NEW s \in Seq(S), s # <<>>
  PROVE  /\ SubSeq(s, 1, Len(s) - 1) \in Seq(S)
         /\ Len(s) \in Nat /\ Len(SubSeq(s, 1, Len(s) - 1)) \in Nat
         /\ Len(s) = Len(SubSeq(s, 1, Len(s) - 1)) + 1
         /\ \A i \in 1..Len(SubSeq(s, 1, Len(s) - 1)) :
              i \in 1..Len(s) /\ SubSeq(s, 1, Len(s) - 1)[i] = s[i] /\ i # Len(s)
         /\ Len(s) \in 1..Len(s) /\ s[Len(s)] \in S
         /\ \A i \in 1..Len(s) : i \in 1..Len(SubSeq(s, 1, Len(s) - 1)) \/ i = Len(s)
<1>1. /\ SubSeq(s, 1, Len(s) - 1) \in Seq(S)
      /\ Len(s) \in Nat /\ Len(s) >= 1 /\ Len(SubSeq(s, 1, Len(s) - 1)) = Len(s) - 1
      /\ \A i \in 1..(Len(s) - 1) : SubSeq(s, 1, Len(s) - 1)[i] = s[i]
  BY PopBack
<1>2. s[Len(s)] \in S
  BY Back
<1> QED
  BY <1>1, <1>2

-----------------------------------------------------------------------------
(* Any set of numbers that is not empty has a least element: what there is   *)
(* of induction below.                                                       *)
LEMMA Least ==
  ASSUME NEW T, T \subseteq Nat, T # {}
  PROVE  \E x \in T : \A y \in T : x <= y
<1> DEFINE R == OpToRel(<, Nat)
<1>1. IsWellFoundedOn(R, Nat)
  BY NatLessThanWellFounded, Zenon
<1>2. PICK x \in T : \A y \in T : ~(<<y, x>> \in R)
  BY <1>1, WFMin, Zenon
<1>3. \A y \in T : ~(y < x)
  BY <1>2 DEF OpToRel
<1> QED
  BY <1>3

(* What holds at first and is kept holds to the last. *)
LEMMA Induct ==
  ASSUME NEW L \in Nat, NEW T, 0 \in T, \A n \in 1..L : n - 1 \in T => n \in T
  PROVE  \A n \in 0..L : n \in T
<1> SUFFICES ASSUME NEW m \in 0..L, m \notin T PROVE FALSE
  OBVIOUS
<1> DEFINE U == {n \in 0..L : n \notin T}
<1>1. U \subseteq Nat /\ U # {}
  OBVIOUS
<1> HIDE DEF U
<1>2. PICK n \in U : \A k \in U : n <= k
  BY <1>1, Least
<1>3. n \in 0..L /\ n \notin T
  BY DEF U
<1>4. n \in 1..L
  BY <1>3
<1>5. n - 1 \in 0..L /\ ~(n <= n - 1)
  BY <1>4
<1>6. n - 1 \in T
  BY <1>2, <1>5 DEF U
<1> QED
  BY <1>3, <1>4, <1>6

(* A recursive function over an interval exists. *)
IsRecursive(f, L, S, base, step) ==
  /\ f \in [0..L -> S] /\ f[0] = base
  /\ \A n \in 1..L : f[n] = step[<<n, f[n - 1]>>]

LEMMA Recursion ==
  ASSUME NEW L \in Nat, NEW S, NEW base \in S, NEW step \in [(1..L) \X S -> S]
  PROVE  \E f : IsRecursive(f, L, S, base, step)
<1> DEFINE Is(f, m) == f[0] = base /\ \A n \in 1..m : f[n] = step[<<n, f[n - 1]>>]
           T == {m \in 0..L : \E f \in [0..m -> S] : Is(f, m)}
<1>1. 0 \in T
  <2> DEFINE f == [n \in 0..0 |-> base]
  <2>1. f \in [0..0 -> S] /\ Is(f, 0)
    OBVIOUS
  <2>2. 0 \in 0..L
    OBVIOUS
  <2> HIDE DEF f
  <2> QED
    BY <2>1, <2>2
<1>2. ASSUME NEW m \in 1..L, m - 1 \in T
      PROVE  m \in T
  <2>1. PICK f \in [0..(m - 1) -> S] : Is(f, m - 1)
    BY <1>2
  <2> DEFINE g == [n \in 0..m |-> IF n = m THEN step[<<m, f[m - 1]>>] ELSE f[n]]
  <2>2. m - 1 \in 0..(m - 1) /\ \A n \in 0..m : n \in 0..(m - 1) \/ n = m
    BY <1>2
  <2>3. f[m - 1] \in S /\ step[<<m, f[m - 1]>>] \in S
    BY <1>2, <2>1, <2>2
  <2>4. g \in [0..m -> S]
    BY <2>1, <2>2, <2>3
  <2>5. \A n \in 0..(m - 1) : n \in 0..m /\ n # m /\ g[n] = f[n]
    BY <1>2
  <2>6. m \in 0..m /\ m # 0 /\ g[m] = step[<<m, f[m - 1]>>]
    BY <1>2
  <2> HIDE DEF g
  <2>7. g[0] = base
    <3>1. 0 \in 0..(m - 1)
      BY <1>2
    <3> QED
      BY <2>1, <2>5, <3>1
  <2>8. ASSUME NEW n \in 1..m
        PROVE  g[n] = step[<<n, g[n - 1]>>]
    <3>1. n - 1 \in 0..(m - 1) /\ (n = m \/ n \in 1..(m - 1))
      BY <1>2
    <3>2. CASE n = m
      BY <2>5, <2>6, <3>1, <3>2
    <3>3. CASE n \in 1..(m - 1)
      BY <2>1, <2>5, <3>1, <3>3
    <3> QED
      BY <3>1, <3>2, <3>3
  <2>9. Is(g, m)
    BY <2>7, <2>8
  <2> QED
    BY <1>2, <2>4, <2>9
<1> HIDE DEF T
<1>3. \A n \in 0..L : n \in T
  BY <1>1, <1>2, Induct
<1> QED
  BY <1>3 DEF T, IsRecursive

=============================================================================
