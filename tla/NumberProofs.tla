---------------------------- MODULE NumberProofs ----------------------------
(***************************************************************************)
(* Induction over natural numbers without a parameter that is an operator: *)
(* a set of numbers has a least element, so the set of the numbers for     *)
(* which something fails is empty if it has no least element.              *)
(***************************************************************************)
EXTENDS Integers, WellFoundedInduction, TLAPS

(* A nonempty set of natural numbers has a least element.                  *)
LEMMA Least ==
    ASSUME NEW T \in SUBSET Nat, T # {}
    PROVE  \E m \in T : \A k \in T : m <= k
  <1>1. PICK m \in T : \A k \in T : <<k, m>> \notin OpToRel(<, Nat)
    BY NatLessThanWellFounded, WFMin
  <1>2. \A k \in T : ~(k < m)
    BY <1>1 DEF OpToRel
  <1> QED BY <1>2

(* A nonempty set of numbers from 0 to N has a greatest element.           *)
LEMMA Greatest ==
    ASSUME NEW N \in Nat, NEW T \in SUBSET (0..N), T # {}
    PROVE  \E m \in T : \A k \in T : k <= m
  <1> DEFINE D == {j \in 0..N : N - j \in T}
  <1>1. PICK t \in T : TRUE
    OBVIOUS
  <1>2. N - t \in D
    <2>1. t \in 0..N /\ N - (N - t) = t
      OBVIOUS
    <2> QED BY <2>1
  <1>3. PICK d \in D : \A k \in D : d <= k
    <2>1. D \in SUBSET Nat /\ D # {}
      BY <1>2
    <2> HIDE DEF D
    <2> QED BY <2>1, Least
  <1>4. \A k \in T : k <= N - d
    <2> SUFFICES ASSUME NEW k \in T PROVE k <= N - d
      OBVIOUS
    <2>1. k \in 0..N /\ N - (N - k) = k
      OBVIOUS
    <2>2. N - k \in D
      BY <2>1
    <2>3. d \in 0..N /\ d <= N - k
      BY <1>3, <2>2
    <2> QED BY <2>1, <2>3
  <1>5. d \in 0..N /\ N - d \in T
    OBVIOUS
  <1> QED BY <1>4, <1>5

(* What holds for 0, and for k + 1 if it does for k, holds for every       *)
(* number up to N.                                                         *)
LEMMA UpTo ==
    ASSUME NEW N \in Nat, NEW T, 0 \in T,
           \A k \in 0..N-1 : k \in T => k + 1 \in T
    PROVE  0..N \subseteq T
  <1> DEFINE Bad == {k \in 0..N : k \notin T}
  <1>1. SUFFICES ASSUME Bad # {} PROVE FALSE
    OBVIOUS
  <1>2. PICK m \in Bad : \A k \in Bad : m <= k
    <2>1. Bad \in SUBSET Nat
      OBVIOUS
    <2> HIDE DEF Bad
    <2> QED BY <1>1, <2>1, Least
  <1>3. m # 0 /\ m - 1 \in 0..N-1 /\ (m - 1) + 1 = m
    BY <1>2
  <1>4. m - 1 \notin Bad
    BY <1>2, <1>3
  <1>5. m - 1 \in T
    BY <1>3, <1>4
  <1> QED BY <1>2, <1>3, <1>5

(* A function given by its first value and by how each value follows from  *)
(* the one before.                                                         *)
IsRecursive(f, N, S, b, F) ==
    /\ f \in [0..N -> S]
    /\ f[0] = b
    /\ \A k \in 1..N : f[k] = F[<<k, f[k-1]>>]

(* There is one.                                                           *)
LEMMA Recursion ==
    ASSUME NEW N \in Nat, NEW S, NEW b \in S, NEW F \in [Nat \X S -> S]
    PROVE  \E f : IsRecursive(f, N, S, b, F)
  <1> DEFINE Exists(k) == \E f \in [0..k -> S] :
                 f[0] = b /\ \A j \in 1..k : f[j] = F[<<j, f[j-1]>>]
             T == {k \in Nat : Exists(k)}
  <1>1. 0 \in T
    <2>1. [j \in 0..0 |-> b] \in [0..0 -> S] /\ [j \in 0..0 |-> b][0] = b
      OBVIOUS
    <2>2. \A j \in 1..0 : FALSE
      OBVIOUS
    <2>3. Exists(0)
      BY <2>1, <2>2
    <2> QED BY <2>3
  <1>2. ASSUME NEW k \in 0..N-1, k \in T
        PROVE  k + 1 \in T
    <2>1. PICK f \in [0..k -> S] :
              f[0] = b /\ \A j \in 1..k : f[j] = F[<<j, f[j-1]>>]
      BY <1>2
    <2> DEFINE h == [j \in 0..k+1 |-> IF j = k + 1 THEN F[<<k + 1, f[k]>>] ELSE f[j]]
    <2>2. k \in Nat /\ f[k] \in S /\ F[<<k + 1, f[k]>>] \in S
      BY <2>1
    <2>3. h \in [0..k+1 -> S]
      BY <2>2
    <2>4. h[0] = b
      BY <2>1, <2>2
    <2>5. ASSUME NEW j \in 1..k+1 PROVE h[j] = F[<<j, h[j-1]>>]
      <3>1. h[j-1] = f[j-1]
        BY <2>2
      <3>2. CASE j = k + 1
        <4>1. j - 1 = k /\ h[j] = F[<<k + 1, f[k]>>]
          BY <2>2, <3>2
        <4>2. h[j-1] = f[k]
          BY <3>1, <4>1
        <4> HIDE DEF h
        <4> QED BY <3>2, <4>1, <4>2
      <3>3. CASE j # k + 1
        <4>1. j \in 1..k /\ h[j] = f[j]
          BY <2>2, <3>3
        <4> HIDE DEF h
        <4> QED BY <2>1, <3>1, <4>1
      <3> QED BY <3>2, <3>3
    <2> HIDE DEF h
    <2>6. Exists(k + 1)
      BY <2>3, <2>4, <2>5
    <2> QED BY <2>2, <2>6
  <1>3. 0..N \subseteq T
    <2> HIDE DEF T
    <2> QED BY <1>1, <1>2, UpTo
  <1>4. Exists(N)
    BY <1>3
  <1> QED BY <1>4 DEF IsRecursive

=============================================================================
