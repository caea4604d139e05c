----------------------------- MODULE Induction -----------------------------
(***************************************************************************)
(* Induction and recursion over the natural numbers, with the predicate    *)
(* and the step given as a set and a function.  The proofs about what a    *)
(* recursive definition computes rest on these.                            *)
(***************************************************************************)
EXTENDS Naturals, WellFoundedInduction, TLAPS

(* A non-empty set of naturals has a least element.                        *)
LEMMA LeastNatural ==
  ASSUME NEW S \in SUBSET Nat, S # {}
  PROVE  \E n \in S : \A m \in S : n <= m
  <1>1. PICK n \in S : \A m \in S : ~(<<m, n>> \in OpToRel(<, Nat))
    BY WFMin, NatLessThanWellFounded
  <1>2. \A m \in S : m \in Nat /\ n \in Nat
    OBVIOUS
  <1>3. \A m \in S : ~(m < n)
    BY <1>1, <1>2 DEF OpToRel
  <1> QED
    BY <1>2, <1>3

(* A set with 0 and with the successor of each natural in it holds all.    *)
LEMMA Induct ==
  ASSUME NEW S, 0 \in S, \A n \in Nat : n \in S => n + 1 \in S
  PROVE  \A n \in Nat : n \in S
  <1> SUFFICES ASSUME Nat \ S # {}
               PROVE  FALSE
    OBVIOUS
  <1>1. PICK n \in Nat \ S : \A m \in Nat \ S : n <= m
    BY LeastNatural
  <1>2. n # 0 /\ n - 1 \in Nat /\ n = (n - 1) + 1
    BY <1>1
  <1>3. n - 1 \in S
    BY <1>1, <1>2
  <1> QED
    BY <1>1, <1>2, <1>3

(* The recursive function whose value at 0 is A and at k the step F[k] of  *)
(* its value at k - 1.                                                     *)
IsRecursive(f, n, A, F) == f = [k \in 0 .. n |-> IF k = 0 THEN A ELSE F[k][f[k - 1]]]

(* There is one, and its values stay where the steps stay.                 *)
LEMMA RecursiveExists ==
  ASSUME NEW n \in Nat, NEW D, NEW A \in D, NEW F \in [1 .. n -> [D -> D]]
  PROVE  \E f \in [0 .. n -> D] : IsRecursive(f, n, A, F)
  <1> DEFINE S == {m \in Nat : m <= n => \E f \in [0 .. m -> D] : IsRecursive(f, m, A, F)}
  <1>1. 0 \in S
    <2>1. [k \in 0 .. 0 |-> A] \in [0 .. 0 -> D]
      OBVIOUS
    <2>2. IsRecursive([k \in 0 .. 0 |-> A], 0, A, F)
      BY DEF IsRecursive
    <2> QED
      BY <2>1, <2>2
  <1>2. ASSUME NEW m \in Nat, m \in S
        PROVE  m + 1 \in S
    <2> SUFFICES ASSUME m + 1 <= n
                 PROVE  \E f \in [0 .. m + 1 -> D] : IsRecursive(f, m + 1, A, F)
      OBVIOUS
    <2>1. PICK f \in [0 .. m -> D] : IsRecursive(f, m, A, F)
      BY <1>2
    <2> DEFINE g == [k \in 0 .. m + 1 |-> IF k <= m THEN f[k] ELSE F[k][f[m]]]
    <2>2. F[m + 1] \in [D -> D] /\ f[m] \in D
      OBVIOUS
    <2>3. F[m + 1][f[m]] \in D
      BY <2>2
    <2>4. \A k \in 0 .. m + 1 : k <= m \/ k = m + 1
      OBVIOUS
    <2>5. g \in [0 .. m + 1 -> D]
      BY <2>3, <2>4
    <2>6. ASSUME NEW k \in 0 .. m + 1
          PROVE  g[k] = IF k = 0 THEN A ELSE F[k][g[k - 1]]
      <3>1. CASE k = 0
        BY <2>1, <3>1 DEF IsRecursive
      <3>2. CASE k # 0 /\ k <= m
        <4>1. k \in 0 .. m /\ k - 1 \in 0 .. m + 1 /\ k - 1 <= m
          BY <3>2
        <4>2. g[k] = f[k] /\ g[k - 1] = f[k - 1]
          BY <3>2, <4>1
        <4>3. f[k] = F[k][f[k - 1]]
          BY <2>1, <3>2, <4>1 DEF IsRecursive
        <4> QED
          BY <3>2, <4>2, <4>3
      <3>3. CASE k = m + 1
        <4>1. k # 0 /\ k - 1 = m /\ ~(k <= m) /\ m \in 0 .. m + 1
          BY <3>3
        <4> QED
          BY <4>1
      <3> QED
        BY <2>4, <3>1, <3>2, <3>3
    <2>7. g = [k \in 0 .. m + 1 |-> IF k = 0 THEN A ELSE F[k][g[k - 1]]]
      BY <2>6
    <2> HIDE DEF g
    <2> QED
      BY <2>5, <2>7 DEF IsRecursive
  <1>3. n \in S
    <2> HIDE DEF S
    <2> QED
      BY <1>1, <1>2, Induct
  <1> QED
    BY <1>3

=============================================================================
