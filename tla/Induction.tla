-------------------------------- MODULE Induction --------------------------------
(***************************************************************************)
(* Induction over the naturals and definition by recursion, for sets and   *)
(* functions instead of predicates and operators: what the proofs about    *)
(* linked lists and sums along a list rest on.  The induction principle    *)
(* comes from counting: a set with 0 and every successor, but without n,   *)
(* would map its part up to n into that part less 0.                       *)
(***************************************************************************)
EXTENDS Integers, Sequences, FiniteSetTheorems, FunctionTheorems, TLAPS

(* A set with 0 and the successor of each of its naturals has them all.    *)
LEMMA NatSetInduction ==
  ASSUME NEW T, 0 \in T, \A n \in Nat : n \in T => n + 1 \in T
  PROVE  \A n \in Nat : n \in T
<1> SUFFICES ASSUME NEW n \in Nat, n \notin T PROVE FALSE
  OBVIOUS
<1> DEFINE S == T \cap 0 .. n
           U == S \ {0}
           f == [x \in S |-> x + 1]
<1>1. IsFiniteSet(S)
  <2>1. IsFiniteSet(0 .. n)
    BY FS_Interval
  <2> QED BY <2>1, FS_Intersection
<1>2. IsFiniteSet(U) /\ Cardinality(U) = Cardinality(S) - 1
  <2>1. 0 \in S
    OBVIOUS
  <2> HIDE DEF S
  <2> QED BY <1>1, <2>1, FS_RemoveElement
<1>3. f \in Injection(S, U)
  BY DEF Injection, IsInjective
<1>4. Cardinality(S) <= Cardinality(U) /\ Cardinality(S) \in Nat
  <2> HIDE DEF S, U, f
  <2> QED BY <1>1, <1>2, <1>3, FS_Injection, FS_CardinalityType
<1> QED BY <1>2, <1>4

(* A set of naturals that is not empty has a least one.                    *)
LEMMA LeastNatural ==
  ASSUME NEW T \in SUBSET Nat, T # {}
  PROVE  \E n \in T : \A m \in T : n <= m
<1> SUFFICES ASSUME \A n \in T : \E m \in T : m < n PROVE FALSE
  OBVIOUS
<1> DEFINE U == {n \in Nat : \A m \in T : n <= m}
<1>1. 0 \in U
  OBVIOUS
<1>2. ASSUME NEW n \in Nat, n \in U PROVE n + 1 \in U
  <2>1. n \notin T
    BY <1>2
  <2>2. \A m \in T : n <= m /\ n # m /\ m \in Nat
    BY <1>2, <2>1
  <2> QED BY <2>2
<1>3. \A n \in Nat : n \in U
  <2> HIDE DEF U
  <2> QED BY <1>1, <1>2, NatSetInduction
<1>4. PICK n \in T : TRUE
  OBVIOUS
<1>5. n + 1 \in U
  BY <1>3, <1>4
<1> QED BY <1>4, <1>5

(* f goes from c by the step D[n] from each value to the n-th.             *)
Recursive(f, N, S, c, D) ==
  f \in [0 .. N -> S] /\ f[0] = c /\ \A n \in 1 .. N : f[n] = D[n][f[n - 1]]

(* A step from each value to the next, N of them, makes a function.        *)
LEMMA Recursion ==
  ASSUME NEW N \in Nat, NEW S, NEW c \in S, NEW D \in [1 .. N -> [S -> S]]
  PROVE  \E f : Recursive(f, N, S, c, D)
<1> DEFINE Makes(f, k) == f[0] = c /\ \A n \in 1 .. k : f[n] = D[n][f[n - 1]]
           T == {k \in Nat : k <= N => \E f \in [0 .. k -> S] : Makes(f, k)}
<1>1. 0 \in T
  <2> DEFINE f == [i \in 0 .. 0 |-> c]
  <2>1. f \in [0 .. 0 -> S] /\ Makes(f, 0)
    OBVIOUS
  <2> QED BY <2>1
<1>2. ASSUME NEW k \in Nat, k \in T PROVE k + 1 \in T
  <2> SUFFICES ASSUME k + 1 <= N PROVE \E f \in [0 .. k + 1 -> S] : Makes(f, k + 1)
    OBVIOUS
  <2>1. PICK g \in [0 .. k -> S] : Makes(g, k)
    BY <1>2
  <2> DEFINE d == D[k + 1][g[k]]
             f == [i \in 0 .. k + 1 |-> IF i = k + 1 THEN d ELSE g[i]]
  <2>2. d \in S
    <3>1. D[k + 1] \in [S -> S] /\ g[k] \in S
      OBVIOUS
    <3> QED BY <3>1
  <2>3. f \in [0 .. k + 1 -> S]
    BY <2>2
  <2>4. f[0] = c
    BY <2>1
  <2>5. ASSUME NEW n \in 1 .. k + 1 PROVE f[n] = D[n][f[n - 1]]
    <3>1. CASE n = k + 1
      BY <3>1
    <3>2. CASE n \in 1 .. k
      BY <2>1, <3>2
    <3> QED BY <3>1, <3>2
  <2> QED BY <2>3, <2>4, <2>5
<1>3. N \in T
  <2> HIDE DEF T
  <2> QED BY <1>1, <1>2, NatSetInduction
<1> QED BY <1>3 DEF Recursive
================================================================================
