------------------------------ MODULE TimerProofs ------------------------------
(***************************************************************************)
(* Theorems about libultra's timers: for any number of timers, any finite  *)
(* sets of countdowns and intervals, any width of the counter and any lag, *)
(* the list with deltas is the set of timers TimerSet describes, and no    *)
(* timer fires earlier than the time base was behind when it was set.      *)
(*                                                                         *)
(* A wait is the sum of the deltas up to a timer, so every statement about *)
(* the list is one about sums along a sequence, proved by induction on the *)
(* place (module Induction): inserting a timer adds one sum and keeps the  *)
(* others, charging the head takes the same off each, taking the head off  *)
(* takes its delta off the rest.                                           *)
(*                                                                         *)
(* EarlyInv is what the second theorem needs of the time: the cycles of    *)
(* ElapsedCycles, not yet charged to the list, are among those counted     *)
(* since each timer was set or among those it was late by (Covered).  The  *)
(* one exception is the list set up when nothing was: __osTimerCounter is  *)
(* then 0 and not the time, until the compare register is first written    *)
(* (Unarmed).                                                              *)
(***************************************************************************)
EXTENDS OsTimer, Induction, SequenceTheorems

-----------------------------------------------------------------------------
(* Sums of deltas along a list.                                            *)

Deltas == [Timers -> Nat]

Sums(l, v) ==
  CHOOSE sum : sum = [i \in 0 .. Len(l) |-> IF i = 0 THEN 0 ELSE sum[i - 1] + v[l[i]]]

LEMMA DueStep ==
  ASSUME NEW l \in Seq(Timers), NEW v \in Deltas
  PROVE  /\ Due(l, v, 0) = 0
         /\ \A n \in 1 .. Len(l) : Due(l, v, n) = Due(l, v, n - 1) + v[l[n]]
         /\ \A n \in 0 .. Len(l) : Due(l, v, n) \in Nat
<1> DEFINE N == Len(l)
           D == [n \in 1 .. N |-> [x \in Nat |-> x + v[l[n]]]]
           IsSum(sum) == sum = [i \in 0 .. N |-> IF i = 0 THEN 0 ELSE sum[i - 1] + v[l[i]]]
<1>1. N \in Nat /\ \A n \in 1 .. N : v[l[n]] \in Nat
  BY DEF Deltas
<1>2. D \in [1 .. N -> [Nat -> Nat]]
  BY <1>1
<1>3. PICK f : Recursive(f, N, Nat, 0, D)
  <2> HIDE DEF D, N
  <2> QED BY <1>1, <1>2, Recursion
<1>4. f \in [0 .. N -> Nat] /\ f[0] = 0 /\ \A n \in 1 .. N : f[n] = D[n][f[n - 1]]
  BY <1>3 DEF Recursive
<1>5. \A n \in 1 .. N : f[n - 1] \in Nat /\ f[n] = f[n - 1] + v[l[n]]
  <2> SUFFICES ASSUME NEW n \in 1 .. N PROVE f[n - 1] \in Nat /\ f[n] = f[n - 1] + v[l[n]]
    OBVIOUS
  <2>1. n - 1 \in 0 .. N
    BY <1>1
  <2> QED BY <1>4, <2>1
<1> HIDE DEF N
<1>6. IsSum(f)
  <2>1. f = [n \in 0 .. N |-> f[n]]
    BY <1>4
  <2>2. \A n \in 0 .. N : f[n] = IF n = 0 THEN 0 ELSE f[n - 1] + v[l[n]]
    <3>1. \A n \in 0 .. N : n # 0 => n \in 1 .. N
      BY <1>1
    <3> QED BY <1>4, <1>5, <3>1
  <2> QED BY ONLY <2>1, <2>2
<1>7. IsSum(Sums(l, v))
  <2>1. Sums(l, v) = CHOOSE sum : IsSum(sum)
    BY DEF Sums, N
  <2> HIDE DEF IsSum
  <2> QED BY <1>6, <2>1
<1> DEFINE s == Sums(l, v)
<1>8. /\ \A n \in 1 .. N : s[n] = s[n - 1] + v[l[n]]
      /\ s[0] = 0 /\ s = [n \in 0 .. N |-> s[n]]
  <2>1. IsSum(s)
    BY <1>7
  <2> HIDE DEF s
  <2>2. s = [n \in 0 .. N |-> s[n]]
    BY ONLY <2>1
  <2>3. \A n \in 0 .. N : s[n] = IF n = 0 THEN 0 ELSE s[n - 1] + v[l[n]]
    BY ONLY <2>1
  <2>4. 0 \in 0 .. N /\ \A n \in 1 .. N : n \in 0 .. N /\ n # 0
    BY <1>1
  <2> QED BY <2>2, <2>3, <2>4
<1>9. \A n \in 0 .. N : s[n] \in Nat
  <2> DEFINE T == {n \in Nat : n \in 0 .. N => s[n] \in Nat}
  <2> HIDE DEF s
  <2>1. 0 \in T
    BY <1>8
  <2>2. ASSUME NEW n \in Nat, n \in T PROVE n + 1 \in T
    <3> SUFFICES ASSUME n + 1 \in 0 .. N PROVE s[n + 1] \in Nat
      OBVIOUS
    <3>1. n \in 0 .. N /\ n + 1 \in 1 .. N /\ (n + 1) - 1 = n
      BY <1>1
    <3>2. s[n] \in Nat /\ v[l[n + 1]] \in Nat
      BY <1>1, <2>2, <3>1
    <3>3. s[n + 1] = s[(n + 1) - 1] + v[l[n + 1]]
      BY <1>8, <3>1
    <3> QED BY <3>1, <3>2, <3>3
  <2>3. \A n \in Nat : n \in T
    <3> HIDE DEF T
    <3> QED BY <2>1, <2>2, NatSetInduction
  <2> QED BY <1>1, <2>3
<1>10. \A n : Due(l, v, n) = s[n]
  BY DEF Due, Sums
<1> HIDE DEF s
<1> QED BY <1>8, <1>9, <1>10 DEF N

LEMMA SameGain ==
  ASSUME NEW p \in Nat, NEW q \in Nat, NEW r \in Nat, NEW s \in Nat, NEW d \in Nat, p - q = r - s
  PROVE  (p + d) - q = (r + d) - s
OBVIOUS

(* m deltas of l from a on are those of k from b on.                       *)
Alike(l, v, a, k, w, b, m) ==
  /\ a \in Nat /\ b \in Nat /\ m \in Nat /\ a + m <= Len(l) /\ b + m <= Len(k)
  /\ \A i \in 1 .. m : w[k[b + i]] = v[l[a + i]]

SameSums(l, v, a, k, w, b, m) ==
  \A i \in 0 .. m : Due(k, w, b + i) - Due(k, w, b) = Due(l, v, a + i) - Due(l, v, a)

(* Two stretches with the same deltas add the same.                        *)
LEMMA DueRun ==
  ASSUME NEW l \in Seq(Timers), NEW v \in Deltas, NEW k \in Seq(Timers), NEW w \in Deltas,
         NEW a, NEW b, NEW m, Alike(l, v, a, k, w, b, m)
  PROVE  SameSums(l, v, a, k, w, b, m)
<1>a. /\ a \in Nat /\ b \in Nat /\ m \in Nat /\ a + m <= Len(l) /\ b + m <= Len(k)
      /\ \A i \in 1 .. m : w[k[b + i]] = v[l[a + i]]
  BY DEF Alike
<1> DEFINE T == {i \in Nat : i <= m => Due(k, w, b + i) - Due(k, w, b) = Due(l, v, a + i) - Due(l, v, a)}
<1>1. \A i \in 0 .. m : Due(l, v, a + i) \in Nat /\ Due(k, w, b + i) \in Nat
  <2>1. \A i \in 0 .. m : a + i \in 0 .. Len(l) /\ b + i \in 0 .. Len(k)
    BY <1>a
  <2> QED BY <2>1, DueStep
<1>2. 0 \in T
  <2>1. 0 \in 0 .. m /\ a + 0 = a /\ b + 0 = b
    BY <1>a
  <2>2. Due(k, w, b) \in Nat /\ Due(l, v, a) \in Nat /\ Due(k, w, b + 0) = Due(k, w, b) /\ Due(l, v, a + 0) = Due(l, v, a)
    BY <1>1, <2>1
  <2>3. Due(k, w, b + 0) - Due(k, w, b) = Due(l, v, a + 0) - Due(l, v, a)
    BY ONLY <2>2
  <2> QED BY ONLY <2>3
<1>3. ASSUME NEW i \in Nat, i \in T PROVE i + 1 \in T
  <2> SUFFICES ASSUME i + 1 <= m
               PROVE  Due(k, w, b + (i + 1)) - Due(k, w, b) = Due(l, v, a + (i + 1)) - Due(l, v, a)
    OBVIOUS
  <2>1. /\ a + (i + 1) \in 1 .. Len(l) /\ b + (i + 1) \in 1 .. Len(k)
        /\ (a + (i + 1)) - 1 = a + i /\ (b + (i + 1)) - 1 = b + i
        /\ i + 1 \in 1 .. m /\ i \in 0 .. m /\ 0 \in 0 .. m /\ a + 0 = a /\ b + 0 = b
    BY <1>a
  <2>2. Due(l, v, a + (i + 1)) = Due(l, v, a + i) + v[l[a + (i + 1)]]
    BY <2>1, DueStep
  <2>3. Due(k, w, b + (i + 1)) = Due(k, w, b + i) + w[k[b + (i + 1)]]
    BY <2>1, DueStep
  <2>4. w[k[b + (i + 1)]] = v[l[a + (i + 1)]] /\ v[l[a + (i + 1)]] \in Nat
    <3>1. l[a + (i + 1)] \in Timers
      BY <2>1
    <3>2. w[k[b + (i + 1)]] = v[l[a + (i + 1)]]
      BY <1>a, <2>1
    <3> QED BY <3>1, <3>2 DEF Deltas
  <2>5. Due(k, w, b + i) - Due(k, w, b) = Due(l, v, a + i) - Due(l, v, a)
    BY <1>3, <2>1
  <2>6. Due(k, w, b + i) \in Nat /\ Due(k, w, b) \in Nat /\ Due(l, v, a + i) \in Nat /\ Due(l, v, a) \in Nat
    BY <1>1, <2>1
  <2> DEFINE d == v[l[a + (i + 1)]]
             p == Due(k, w, b + i)
             q == Due(k, w, b)
             r == Due(l, v, a + i)
             s == Due(l, v, a)
  <2>7. Due(k, w, b + (i + 1)) = p + d /\ Due(l, v, a + (i + 1)) = r + d
    BY <2>2, <2>3, <2>4
  <2>8. (p + d) - q = (r + d) - s
    <3>1. p \in Nat /\ q \in Nat /\ r \in Nat /\ s \in Nat /\ d \in Nat /\ p - q = r - s
      BY <2>4, <2>5, <2>6
    <3> HIDE DEF p, q, r, s, d
    <3> QED BY <3>1, SameGain
  <2> QED BY ONLY <2>7, <2>8
<1>4. \A i \in Nat : i \in T
  <2> HIDE DEF T
  <2> QED BY <1>2, <1>3, NatSetInduction
<1> QED BY <1>a, <1>4 DEF SameSums

(* The waits do not decrease along the list.                               *)
LEMMA DueGrows ==
  ASSUME NEW l \in Seq(Timers), NEW v \in Deltas
  PROVE  \A i, j \in 0 .. Len(l) : i <= j => Due(l, v, i) <= Due(l, v, j)
<1> SUFFICES ASSUME NEW i \in 0 .. Len(l)
             PROVE  \A j \in 0 .. Len(l) : i <= j => Due(l, v, i) <= Due(l, v, j)
  OBVIOUS
<1> DEFINE T == {j \in Nat : i <= j /\ j <= Len(l) => Due(l, v, i) <= Due(l, v, j)}
<1>1. \A j \in 0 .. Len(l) : Due(l, v, j) \in Nat
  BY DueStep
<1>2. 0 \in T
  <2>1. i <= 0 => i = 0
    OBVIOUS
  <2> QED BY <1>1, <2>1
<1>3. ASSUME NEW j \in Nat, j \in T PROVE j + 1 \in T
  <2> SUFFICES ASSUME i <= j + 1, j + 1 <= Len(l) PROVE Due(l, v, i) <= Due(l, v, j + 1)
    OBVIOUS
  <2>1. j + 1 \in 1 .. Len(l) /\ j \in 0 .. Len(l) /\ j + 1 \in 0 .. Len(l) /\ (j + 1) - 1 = j
    OBVIOUS
  <2>2. Due(l, v, j + 1) = Due(l, v, j) + v[l[j + 1]] /\ v[l[j + 1]] \in Nat
    BY <2>1, DueStep DEF Deltas
  <2>3. i = j + 1 \/ (i <= j /\ j <= Len(l))
    OBVIOUS
  <2> QED BY <1>1, <1>3, <2>1, <2>2, <2>3
<1>4. \A j \in Nat : j \in T
  <2> HIDE DEF T
  <2> QED BY <1>2, <1>3, NatSetInduction
<1> QED BY <1>4

(* The place of __osInsertTimer: all timers before it are due earlier.      *)
LEMMA InsertPlace ==
  ASSUME NEW l \in Seq(Timers), NEW v \in Deltas, NEW tim \in Nat \ {0}
  PROVE  \E i \in 0 .. Len(l) :
           /\ i = Cardinality({n \in DOMAIN l : Due(l, v, n) < tim})
           /\ Due(l, v, i) < tim
           /\ i < Len(l) => tim <= Due(l, v, i + 1)
<1> DEFINE L == Len(l)
           T == {n \in 1 .. L + 1 : n = L + 1 \/ tim <= Due(l, v, n)}
<1>1. L \in Nat /\ DOMAIN l = 1 .. L /\ \A n \in 0 .. L : Due(l, v, n) \in Nat
  BY DueStep
<1> HIDE DEF L
<1>2. PICK m \in T : \A n \in T : m <= n
  <2>1. T \in SUBSET Nat /\ L + 1 \in T
    BY <1>1
  <2> HIDE DEF T
  <2> QED BY <2>1, LeastNatural
<1>3. m - 1 \in 0 .. L /\ m \in 1 .. L + 1
  BY <1>1, <1>2
<1>4. ASSUME NEW n \in 1 .. L PROVE Due(l, v, n) < tim <=> n <= m - 1
  <2>1. CASE n <= m - 1
    <3>1. n \notin T
      BY <1>2, <1>3, <2>1
    <3> QED BY <1>1, <2>1, <3>1
  <2>2. CASE ~(n <= m - 1)
    <3>1. m \in 1 .. L /\ m <= n /\ tim <= Due(l, v, m)
      BY <1>1, <1>2, <1>3, <2>2
    <3>2. Due(l, v, m) <= Due(l, v, n)
      BY <1>1, <3>1, DueGrows DEF L
    <3> QED BY <1>1, <2>2, <3>1, <3>2
  <2> QED BY <2>1, <2>2
<1>5. {n \in DOMAIN l : Due(l, v, n) < tim} = 1 .. m - 1
  BY <1>1, <1>3, <1>4
<1>6. Cardinality(1 .. m - 1) = m - 1
  BY <1>1, <1>3, FS_Interval
<1>7. Due(l, v, m - 1) < tim
  <2>1. CASE m = 1
    BY <2>1, DueStep
  <2>2. CASE m # 1
    <3>1. m - 1 \in 1 .. L /\ m - 1 <= m - 1
      BY <1>1, <1>3, <2>2
    <3> QED BY <1>4, <3>1
  <2> QED BY <2>1, <2>2
<1>8. m - 1 < L => tim <= Due(l, v, (m - 1) + 1)
  BY <1>1, <1>2, <1>3
<1> QED BY <1>3, <1>5, <1>6, <1>7, <1>8 DEF L

-----------------------------------------------------------------------------
(* The waits that a list and its deltas stand for.                         *)

Once(l) == \A i, j \in 1 .. Len(l) : l[i] = l[j] => i = j
On(l) == {l[i] : i \in DOMAIN l}
WaitsOf(l, v) == [t \in On(l) |-> LET i == CHOOSE i \in DOMAIN l : l[i] = t IN Due(l, v, i)]

LEMMA RemainingIs == Remaining = WaitsOf(timerList, value) /\ Members = On(timerList)
BY DEF Remaining, WaitsOf, Members, On

LEMMA WaitAt ==
  ASSUME NEW l \in Seq(Timers), NEW v \in Deltas, Once(l)
  PROVE  /\ On(l) = {l[i] : i \in 1 .. Len(l)} /\ On(l) \subseteq Timers
         /\ DOMAIN WaitsOf(l, v) = On(l)
         /\ \A i \in 1 .. Len(l) : l[i] \in On(l) /\ WaitsOf(l, v)[l[i]] = Due(l, v, i) /\ Due(l, v, i) \in Nat
         /\ \A t \in On(l) : \E i \in 1 .. Len(l) : l[i] = t
<1>1. DOMAIN l = 1 .. Len(l) /\ \A i \in 1 .. Len(l) : l[i] \in Timers
  OBVIOUS
<1>2. ASSUME NEW i \in 1 .. Len(l) PROVE WaitsOf(l, v)[l[i]] = Due(l, v, i)
  <2> DEFINE j == CHOOSE j \in DOMAIN l : l[j] = l[i]
  <2>1. j \in 1 .. Len(l) /\ l[j] = l[i]
    BY <1>1
  <2>2. j = i
    BY <2>1 DEF Once
  <2>3. l[i] \in On(l)
    BY <1>1 DEF On
  <2>4. WaitsOf(l, v)[l[i]] = Due(l, v, j)
    BY <2>3 DEF WaitsOf
  <2> QED BY <2>2, <2>4
<1>3. \A i \in 1 .. Len(l) : Due(l, v, i) \in Nat
  BY DueStep
<1> QED BY <1>1, <1>2, <1>3 DEF On, WaitsOf

(* A function on the timers of a list is what each place of it has.        *)
LEMMA WaitsAre ==
  ASSUME NEW l \in Seq(Timers), NEW v \in Deltas, Once(l), NEW r, r = [t \in On(l) |-> r[t]],
         \A i \in 1 .. Len(l) : r[l[i]] = Due(l, v, i)
  PROVE  WaitsOf(l, v) = r
<1>1. \A t \in On(l) : WaitsOf(l, v)[t] = r[t]
  BY WaitAt
<1>2. WaitsOf(l, v) = [t \in On(l) |-> WaitsOf(l, v)[t]]
  BY DEF WaitsOf
<1> HIDE DEF WaitsOf
<1> QED BY <1>1, <1>2

LEMMA HeadLeast ==
  ASSUME NEW l \in Seq(Timers), NEW v \in Deltas, Once(l), l # <<>>
  PROVE  /\ Head(l) \in On(l) /\ Head(l) \in Timers
         /\ WaitsOf(l, v)[Head(l)] = v[Head(l)] /\ v[Head(l)] \in Nat
         /\ \A t \in On(l) : WaitsOf(l, v)[t] \in Nat /\ v[Head(l)] <= WaitsOf(l, v)[t]
<1>1. 1 \in 1 .. Len(l) /\ Head(l) = l[1] /\ 1 \in 0 .. Len(l) /\ l[1] \in Timers /\ 1 - 1 = 0
  OBVIOUS
<1>2. Due(l, v, 1) = v[l[1]] /\ v[l[1]] \in Nat
  BY <1>1, DueStep DEF Deltas
<1>3. \A i \in 1 .. Len(l) : Due(l, v, 1) <= Due(l, v, i)
  BY <1>1, DueGrows
<1>4. \A i \in 1 .. Len(l) : WaitsOf(l, v)[l[i]] \in Nat /\ v[l[1]] <= WaitsOf(l, v)[l[i]]
  BY <1>2, <1>3, WaitAt
<1>5. \A t \in On(l) : \E i \in 1 .. Len(l) : l[i] = t
  BY WaitAt
<1>6. Head(l) \in On(l) /\ WaitsOf(l, v)[Head(l)] = v[Head(l)]
  BY <1>1, <1>2, WaitAt
<1> QED BY <1>1, <1>2, <1>4, <1>5, <1>6

(* Charging time to the head charges it to all.                            *)
LEMMA ChargeWaits ==
  ASSUME NEW l \in Seq(Timers), NEW v \in Deltas, Once(l), l # <<>>, NEW e \in Nat, e <= v[Head(l)],
         NEW w \in Deltas, w[Head(l)] = v[Head(l)] - e, \A t \in Timers : t # Head(l) => w[t] = v[t]
  PROVE  WaitsOf(l, w) = [t \in On(l) |-> WaitsOf(l, v)[t] - e]
<1>1. 1 \in 1 .. Len(l) /\ Head(l) = l[1] /\ 1 \in 0 .. Len(l) /\ l[1] \in Timers /\ 1 - 1 = 0 /\ Len(l) \in Nat
  OBVIOUS
<1>2. w[l[1]] = v[l[1]] - e /\ \A t \in Timers : t # l[1] => w[t] = v[t]
  BY <1>1
<1>3. \A i \in 1 .. Len(l) - 1 : w[l[1 + i]] = v[l[1 + i]]
  <2> SUFFICES ASSUME NEW i \in 1 .. Len(l) - 1 PROVE w[l[1 + i]] = v[l[1 + i]]
    OBVIOUS
  <2>1. 1 + i \in 1 .. Len(l) /\ 1 + i # 1 /\ l[1 + i] \in Timers
    BY <1>1
  <2> QED BY <1>1, <1>2, <2>1 DEF Once
<1>4. \A i \in 0 .. Len(l) - 1 : Due(l, w, 1 + i) - Due(l, w, 1) = Due(l, v, 1 + i) - Due(l, v, 1)
  <2>1. Alike(l, v, 1, l, w, 1, Len(l) - 1)
    BY <1>1, <1>3 DEF Alike
  <2>2. SameSums(l, v, 1, l, w, 1, Len(l) - 1)
    BY <2>1, DueRun
  <2> QED BY ONLY <2>2 DEF SameSums
<1>5. Due(l, w, 1) = v[l[1]] - e /\ Due(l, v, 1) = v[l[1]] /\ v[l[1]] \in Nat
  <2>1. Due(l, w, 1) = 0 + w[l[1]]
    BY <1>1, DueStep
  <2>2. Due(l, v, 1) = 0 + v[l[1]]
    BY <1>1, DueStep
  <2> QED BY <1>1, <1>2, <2>1, <2>2 DEF Deltas
<1>6. ASSUME NEW i \in 1 .. Len(l) PROVE Due(l, w, i) = Due(l, v, i) - e
  <2>1. i - 1 \in 0 .. Len(l) - 1 /\ 1 + (i - 1) = i /\ i \in 0 .. Len(l)
    BY <1>1
  <2>2. Due(l, w, i) - Due(l, w, 1) = Due(l, v, i) - Due(l, v, 1)
    BY <1>4, <2>1
  <2>3. Due(l, w, i) \in Nat /\ Due(l, v, i) \in Nat
    BY <2>1, DueStep
  <2> QED BY <1>5, <2>2, <2>3
<1>7. \A i \in 1 .. Len(l) : WaitsOf(l, v)[l[i]] - e = Due(l, w, i) /\ l[i] \in On(l)
  BY <1>6, WaitAt
<1> DEFINE r == [t \in On(l) |-> WaitsOf(l, v)[t] - e]
<1>8. \A i \in 1 .. Len(l) : r[l[i]] = Due(l, w, i)
  BY <1>7
<1>9. r = [t \in On(l) |-> r[t]]
  OBVIOUS
<1> HIDE DEF r
<1>10. WaitsOf(l, w) = r
  BY <1>8, <1>9, WaitsAre
<1> QED BY <1>10 DEF r

(* Without the head, its wait is off all others.                           *)
LEMMA TailWaits ==
  ASSUME NEW l \in Seq(Timers), NEW v \in Deltas, Once(l), l # <<>>
  PROVE  /\ Tail(l) \in Seq(Timers) /\ Once(Tail(l))
         /\ On(Tail(l)) = On(l) \ {Head(l)}
         /\ WaitsOf(Tail(l), v) = [t \in On(l) \ {Head(l)} |-> WaitsOf(l, v)[t] - v[Head(l)]]
<1> DEFINE k == Tail(l)
<1>1. /\ 1 \in 1 .. Len(l) /\ Head(l) = l[1] /\ 1 \in 0 .. Len(l) /\ l[1] \in Timers /\ 1 - 1 = 0 /\ Len(l) \in Nat
      /\ k \in Seq(Timers) /\ Len(k) = Len(l) - 1 /\ \A i \in 1 .. Len(k) : k[i] = l[1 + i]
  OBVIOUS
<1> HIDE DEF k
<1>2. \A i \in 1 .. Len(k) : 1 + i \in 1 .. Len(l) /\ 1 + i # 1
  BY <1>1
<1>3. Once(k)
  <2> SUFFICES ASSUME NEW i \in 1 .. Len(k), NEW j \in 1 .. Len(k), k[i] = k[j] PROVE i = j
    BY DEF Once
  <2>1. 1 + i = 1 + j
    BY <1>1, <1>2 DEF Once
  <2> QED BY <2>1
<1>4. On(k) = On(l) \ {l[1]}
  <2>1. \A t \in On(k) : t \in On(l) \ {l[1]}
    <3> SUFFICES ASSUME NEW i \in 1 .. Len(k) PROVE k[i] \in On(l) \ {l[1]}
      BY <1>1 DEF On
    <3>1. l[1 + i] \in On(l)
      BY <1>2, WaitAt
    <3>2. l[1 + i] # l[1]
      BY <1>1, <1>2 DEF Once
    <3> QED BY <1>1, <3>1, <3>2
  <2>2. \A t \in On(l) \ {l[1]} : t \in On(k)
    <3> SUFFICES ASSUME NEW i \in 1 .. Len(l), l[i] # l[1] PROVE l[i] \in On(k)
      BY WaitAt
    <3>1. i - 1 \in 1 .. Len(k) /\ 1 + (i - 1) = i
      BY <1>1
    <3>2. k[i - 1] = l[i] /\ k[i - 1] \in On(k)
      BY <1>1, <1>3, <3>1, WaitAt
    <3> QED BY <3>2
  <2> QED BY <2>1, <2>2
<1>5. \A i \in 0 .. Len(k) : Due(k, v, 0 + i) - Due(k, v, 0) = Due(l, v, 1 + i) - Due(l, v, 1)
  <2>1. Alike(l, v, 1, k, v, 0, Len(k))
    BY <1>1 DEF Alike
  <2> QED BY <1>1, <2>1, DueRun DEF SameSums
<1>6. Due(k, v, 0) = 0 /\ Due(l, v, 1) = v[l[1]] /\ v[l[1]] \in Nat
  <2>1. Due(k, v, 0) = 0 /\ Due(l, v, 1) = 0 + v[l[1]]
    BY <1>1, DueStep
  <2> QED BY <1>1, <2>1 DEF Deltas
<1>7. ASSUME NEW i \in 1 .. Len(k) PROVE WaitsOf(l, v)[k[i]] - v[l[1]] = Due(k, v, i)
  <2>1. i \in 0 .. Len(k) /\ 0 + i = i /\ 1 + i \in 1 .. Len(l)
    BY <1>1
  <2>2. Due(k, v, i) - Due(k, v, 0) = Due(l, v, 1 + i) - Due(l, v, 1)
    BY <1>5, <2>1
  <2>3. Due(k, v, i) \in Nat /\ Due(l, v, 1 + i) \in Nat /\ WaitsOf(l, v)[l[1 + i]] = Due(l, v, 1 + i)
    BY <1>1, <2>1, DueStep, WaitAt
  <2> QED BY <1>1, <1>6, <2>2, <2>3
<1> DEFINE r == [t \in On(l) \ {l[1]} |-> WaitsOf(l, v)[t] - v[l[1]]]
<1>8. r = [t \in On(k) |-> r[t]]
  BY <1>4
<1>9. \A i \in 1 .. Len(k) : r[k[i]] = Due(k, v, i)
  <2>1. \A i \in 1 .. Len(k) : k[i] \in On(l) \ {l[1]}
    BY <1>1, <1>3, <1>4, WaitAt
  <2> QED BY <1>7, <2>1
<1> HIDE DEF r
<1>10. WaitsOf(k, v) = r
  BY <1>1, <1>3, <1>8, <1>9, WaitsAre
<1> QED BY <1>1, <1>3, <1>4, <1>10 DEF k, r

(* Only the deltas of the timers in the list matter.                       *)
LEMMA SameWaits ==
  ASSUME NEW l \in Seq(Timers), NEW v \in Deltas, NEW w \in Deltas, Once(l),
         \A t \in On(l) : w[t] = v[t]
  PROVE  WaitsOf(l, w) = WaitsOf(l, v)
<1>1. \A i \in 1 .. Len(l) : w[l[0 + i]] = v[l[0 + i]]
  <2>1. \A i \in 1 .. Len(l) : 0 + i = i /\ l[i] \in On(l)
    BY WaitAt
  <2> QED BY <2>1
<1>2. \A i \in 0 .. Len(l) : Due(l, w, 0 + i) - Due(l, w, 0) = Due(l, v, 0 + i) - Due(l, v, 0)
  <2>1. Alike(l, v, 0, l, w, 0, Len(l))
    BY <1>1 DEF Alike
  <2> QED BY <2>1, DueRun DEF SameSums
<1>3. \A i \in 1 .. Len(l) : Due(l, w, i) = Due(l, v, i)
  <2> SUFFICES ASSUME NEW i \in 1 .. Len(l) PROVE Due(l, w, i) = Due(l, v, i)
    OBVIOUS
  <2>1. i \in 0 .. Len(l) /\ 0 + i = i
    OBVIOUS
  <2>2. Due(l, w, 0) = 0 /\ Due(l, v, 0) = 0 /\ Due(l, w, i) \in Nat /\ Due(l, v, i) \in Nat
    BY <2>1, DueStep
  <2>3. Due(l, w, i) - Due(l, w, 0) = Due(l, v, i) - Due(l, v, 0)
    BY <1>2, <2>1
  <2> QED BY <2>2, <2>3
<1>4. WaitsOf(l, v) = [t \in On(l) |-> WaitsOf(l, v)[t]]
  BY DEF WaitsOf
<1>5. \A i \in 1 .. Len(l) : WaitsOf(l, v)[l[i]] = Due(l, w, i)
  BY <1>3, WaitAt
<1> QED BY <1>4, <1>5, WaitsAre

Inserted(l, i, t) == SubSeq(l, 1, i) \o <<t>> \o SubSeq(l, i + 1, Len(l))

LEMMA InsertedIs ==
  ASSUME NEW l \in Seq(Timers), NEW i \in 0 .. Len(l), NEW t \in Timers
  PROVE  /\ Inserted(l, i, t) \in Seq(Timers) /\ Len(Inserted(l, i, t)) = Len(l) + 1
         /\ \A n \in 1 .. Len(l) + 1 :
              Inserted(l, i, t)[n] = IF n <= i THEN l[n] ELSE IF n = i + 1 THEN t ELSE l[n - 1]
<1> DEFINE p == SubSeq(l, 1, i)
           q == SubSeq(l, i + 1, Len(l))
           u == p \o <<t>>
<1>1. p \in Seq(Timers) /\ Len(p) = i /\ \A n \in 1 .. i : p[n] = l[n]
  BY SubSeqProperties
<1>2. q \in Seq(Timers) /\ Len(q) = Len(l) - i /\ \A n \in 1 .. Len(l) - i : q[n] = l[i + n]
  BY SubSeqProperties
<1>3. <<t>> \in Seq(Timers) /\ Len(<<t>>) = 1 /\ <<t>>[1] = t
  OBVIOUS
<1> HIDE DEF p, q
<1>4. /\ u \in Seq(Timers) /\ Len(u) = i + 1
      /\ \A n \in 1 .. i + 1 : u[n] = IF n <= i THEN l[n] ELSE t
  <2>1. /\ u \in Seq(Timers) /\ Len(u) = Len(p) + Len(<<t>>)
        /\ \A n \in 1 .. Len(p) + Len(<<t>>) : u[n] = IF n <= Len(p) THEN p[n] ELSE <<t>>[n - Len(p)]
    BY <1>1, <1>3, ConcatProperties
  <2>2. Len(p) + Len(<<t>>) = i + 1
    BY <1>1, <1>3
  <2>3. ASSUME NEW n \in 1 .. i + 1 PROVE u[n] = IF n <= i THEN l[n] ELSE t
    <3>1. u[n] = IF n <= i THEN p[n] ELSE <<t>>[n - i]
      BY <1>1, <2>1, <2>2
    <3>2. CASE n <= i
      <4>1. p[n] = l[n]
        BY <1>1, <3>2
      <4> QED BY <3>1, <3>2, <4>1
    <3>3. CASE ~(n <= i)
      <4>1. n - i = 1
        BY <3>3
      <4>2. <<t>>[n - i] = t
        BY ONLY <1>3, <4>1
      <4> QED BY ONLY <3>1, <3>3, <4>2
    <3> QED BY <3>2, <3>3
  <2> QED BY <2>1, <2>2, <2>3
<1> HIDE DEF u
<1> DEFINE k == u \o q
<1>5. /\ k \in Seq(Timers) /\ Len(k) = Len(u) + Len(q)
      /\ \A n \in 1 .. Len(u) + Len(q) : k[n] = IF n <= Len(u) THEN u[n] ELSE q[n - Len(u)]
  BY <1>2, <1>4, ConcatProperties
<1>6. Len(u) + Len(q) = Len(l) + 1
  BY <1>2, <1>4
<1>7. k = Inserted(l, i, t)
  BY DEF Inserted, p, q, u
<1> HIDE DEF k
<1>8. ASSUME NEW n \in 1 .. Len(l) + 1
      PROVE  k[n] = IF n <= i THEN l[n] ELSE IF n = i + 1 THEN t ELSE l[n - 1]
  <2>1. CASE n <= i + 1
    <3>1. n \in 1 .. i + 1
      BY <2>1
    <3> QED BY <1>4, <1>5, <1>6, <2>1, <3>1
  <2>2. CASE n > i + 1
    <3>1. n - (i + 1) \in 1 .. Len(l) - i /\ i + (n - (i + 1)) = n - 1
      BY <2>2
    <3>2. k[n] = q[n - (i + 1)]
      BY <1>4, <1>5, <1>6, <2>2
    <3>3. q[n - (i + 1)] = l[i + (n - (i + 1))]
      BY <1>2, <3>1
    <3>4. ~(n <= i) /\ n # i + 1
      BY <2>2
    <3> QED BY <3>1, <3>2, <3>3, <3>4
  <2> QED BY <2>1, <2>2
<1> QED BY <1>5, <1>6, <1>7, <1>8

With(r, t, tim) == [u \in DOMAIN r \cup {t} |-> IF u = t THEN tim ELSE r[u]]

(* k and w are l and v with t after the first i, to wait tim.              *)
Inserts(l, v, t, tim, i, k, w) ==
  /\ Len(k) = Len(l) + 1
  /\ \A n \in 1 .. Len(l) + 1 : k[n] = IF n <= i THEN l[n] ELSE IF n = i + 1 THEN t ELSE l[n - 1]
  /\ w[t] = tim - Due(l, v, i)
  /\ i < Len(l) => w[l[i + 1]] = v[l[i + 1]] - (tim - Due(l, v, i))
  /\ \A n \in 1 .. Len(l) : n # i + 1 => w[l[n]] = v[l[n]]

(* The new timer gets its wait, the others keep theirs.                    *)
LEMMA InsertWaits ==
  ASSUME NEW l \in Seq(Timers), NEW v \in Deltas, Once(l), NEW t \in Timers, t \notin On(l),
         NEW tim \in Nat \ {0}, NEW i \in 0 .. Len(l), NEW k \in Seq(Timers), NEW w \in Deltas,
         Inserts(l, v, t, tim, i, k, w)
  PROVE  /\ Once(k) /\ On(k) = On(l) \cup {t}
         /\ WaitsOf(k, w) = With(WaitsOf(l, v), t, tim)
<1>1. /\ Len(l) \in Nat /\ i \in Nat /\ i <= Len(l)
      /\ \A n \in 0 .. Len(l) : Due(l, v, n) \in Nat
      /\ \A n \in 1 .. Len(l) : l[n] # t /\ l[n] \in Timers /\ l[n] \in On(l) /\ WaitsOf(l, v)[l[n]] = Due(l, v, n)
  <2>1. \A n \in 1 .. Len(l) : l[n] \in On(l) /\ WaitsOf(l, v)[l[n]] = Due(l, v, n)
    BY WaitAt
  <2>2. \A n \in 0 .. Len(l) : Due(l, v, n) \in Nat
    BY DueStep
  <2> QED BY <2>1, <2>2
<1>2. /\ k \in Seq(Timers) /\ Len(k) = Len(l) + 1
      /\ \A n \in 1 .. Len(l) + 1 : k[n] = IF n <= i THEN l[n] ELSE IF n = i + 1 THEN t ELSE l[n - 1]
  BY DEF Inserts
<1>w. /\ w[t] = tim - Due(l, v, i)
      /\ i < Len(l) => w[l[i + 1]] = v[l[i + 1]] - (tim - Due(l, v, i))
      /\ \A n \in 1 .. Len(l) : n # i + 1 => w[l[n]] = v[l[n]]
  BY DEF Inserts
<1>3. Once(k)
  <2> SUFFICES ASSUME NEW m \in 1 .. Len(k), NEW n \in 1 .. Len(k), k[m] = k[n] PROVE m = n
    BY DEF Once
  <2> DEFINE At(x) == IF x <= i THEN x ELSE x - 1
  <2>1. ASSUME NEW x \in 1 .. Len(k), x # i + 1
        PROVE  At(x) \in 1 .. Len(l) /\ k[x] = l[At(x)] /\ k[x] # t
    <3>1. x \in 1 .. Len(l) + 1 /\ At(x) \in 1 .. Len(l)
      BY <1>1, <1>2, <2>1
    <3>2. k[x] = l[At(x)]
      BY <1>2, <2>1, <3>1
    <3> QED BY <1>1, <3>1, <3>2
  <2>2. k[i + 1] = t /\ i + 1 \in 1 .. Len(k)
    BY <1>1, <1>2
  <2>3. CASE m = i + 1 \/ n = i + 1
    BY <2>1, <2>2, <2>3
  <2>4. CASE m # i + 1 /\ n # i + 1
    <3>1. /\ At(m) \in 1 .. Len(l) /\ k[m] = l[At(m)]
          /\ At(n) \in 1 .. Len(l) /\ k[n] = l[At(n)]
      BY <2>1, <2>4
    <3>2. At(m) = At(n)
      <4> HIDE DEF At
      <4> QED BY <3>1 DEF Once
    <3> QED BY <1>1, <2>4, <3>2
  <2> QED BY <2>3, <2>4
<1>4. On(k) = On(l) \cup {t}
  <2>4. DOMAIN k = 1 .. Len(k) /\ DOMAIN l = 1 .. Len(l)
    BY <1>2
  <2>1. \A n \in 1 .. Len(k) : k[n] \in On(l) \cup {t}
    <3> SUFFICES ASSUME NEW n \in 1 .. Len(k) PROVE k[n] \in On(l) \cup {t}
      OBVIOUS
    <3>1. n <= i \/ n = i + 1 \/ (n > i + 1 /\ n - 1 \in 1 .. Len(l))
      BY <1>1, <1>2
    <3>2. n <= i => n \in 1 .. Len(l)
      BY <1>1
    <3> QED BY <1>1, <1>2, <3>1, <3>2
  <2>2. t \in On(k)
    <3>1. k[i + 1] = t /\ i + 1 \in 1 .. Len(k)
      BY <1>1, <1>2
    <3> QED BY <2>4, <3>1 DEF On
  <2>3. ASSUME NEW n \in 1 .. Len(l) PROVE l[n] \in On(k)
    <3>1. CASE n <= i
      <4>1. k[n] = l[n] /\ n \in 1 .. Len(k)
        BY <1>1, <1>2, <3>1
      <4> QED BY <2>4, <4>1 DEF On
    <3>2. CASE n > i
      <4>1. k[n + 1] = l[(n + 1) - 1] /\ n + 1 \in 1 .. Len(k) /\ (n + 1) - 1 = n
        BY <1>1, <1>2, <3>2
      <4> QED BY <2>4, <4>1 DEF On
    <3> QED BY <1>1, <3>1, <3>2
  <2> QED BY <2>1, <2>2, <2>3, <2>4 DEF On
<1>5. ASSUME NEW n \in 1 .. i PROVE k[n] = l[n] /\ n \in 1 .. Len(l) /\ n # i + 1
  BY <1>1, <1>2
<1>6. \A n \in 0 .. i : Due(k, w, 0 + n) - Due(k, w, 0) = Due(l, v, 0 + n) - Due(l, v, 0)
  <2>1. \A n \in 1 .. i : w[k[0 + n]] = v[l[0 + n]]
    <3> SUFFICES ASSUME NEW n \in 1 .. i PROVE w[k[0 + n]] = v[l[0 + n]]
      OBVIOUS
    <3>1. 0 + n = n
      OBVIOUS
    <3> QED BY <1>5, <1>w, <3>1
  <2>2. Alike(l, v, 0, k, w, 0, i)
    BY <1>1, <1>2, <2>1 DEF Alike
  <2> QED BY <1>2, <2>2, DueRun DEF SameSums
<1>7. \A n \in 0 .. Len(k) : Due(k, w, n) \in Nat
  BY <1>2, DueStep
<1>8. \A n \in 0 .. i : Due(k, w, n) = Due(l, v, n)
  <2> SUFFICES ASSUME NEW n \in 0 .. i PROVE Due(k, w, n) = Due(l, v, n)
    OBVIOUS
  <2>1. Due(k, w, 0) = 0 /\ Due(l, v, 0) = 0
    BY <1>2, DueStep
  <2>2. Due(k, w, n) - Due(k, w, 0) = Due(l, v, n) - Due(l, v, 0)
    <3>1. 0 + n = n
      OBVIOUS
    <3> QED BY <1>6, <3>1
  <2>3. Due(k, w, n) \in Nat /\ Due(l, v, n) \in Nat
    BY <1>1, <1>2, <1>7
  <2> QED BY <2>1, <2>2, <2>3
<1>9. Due(k, w, i + 1) = tim
  <2>1. i + 1 \in 1 .. Len(k) /\ (i + 1) - 1 = i /\ k[i + 1] = t
    BY <1>1, <1>2
  <2>2. Due(k, w, i + 1) = Due(k, w, i) + w[t]
    BY <1>2, <2>1, DueStep
  <2>3. Due(k, w, i) = Due(l, v, i) /\ Due(l, v, i) \in Nat
    BY <1>1, <1>8
  <2> QED BY <1>w, <2>2, <2>3
<1>10. ASSUME i < Len(l) PROVE Due(k, w, i + 2) = Due(l, v, i + 1)
  <2>1. i + 2 \in 1 .. Len(k) /\ (i + 2) - 1 = i + 1 /\ k[i + 2] = l[i + 1]
    BY <1>1, <1>2, <1>10
  <2>2. Due(k, w, i + 2) = Due(k, w, i + 1) + w[l[i + 1]]
    BY <1>2, <2>1, DueStep
  <2>3. i + 1 \in 1 .. Len(l) /\ (i + 1) - 1 = i /\ i \in 0 .. Len(l)
    BY <1>1, <1>10
  <2>4. Due(l, v, i + 1) = Due(l, v, i) + v[l[i + 1]]
    BY <2>3, DueStep
  <2>6. v[l[i + 1]] \in Nat
    BY <1>1, <2>3 DEF Deltas
  <2>5. w[l[i + 1]] = v[l[i + 1]] - (tim - Due(l, v, i)) /\ Due(l, v, i) \in Nat
    BY <1>1, <1>10, <1>w, <2>3
  <2> QED BY <1>9, <2>2, <2>4, <2>5, <2>6
<1>y. PICK y \in Nat, z \in Nat, d \in Int : y = i + 1 /\ z = i + 2 /\ d = Len(l) - y
  <2>1. i + 1 \in Nat /\ i + 2 \in Nat /\ Len(l) - (i + 1) \in Int
    BY <1>1
  <2> QED BY <2>1
<1>t. l \in Seq(Timers) /\ v \in Deltas /\ k \in Seq(Timers) /\ w \in Deltas
  OBVIOUS
<1>11. ASSUME i < Len(l)
       PROVE  \A n \in 0 .. d : Due(k, w, z + n) - Due(k, w, z) = Due(l, v, y + n) - Due(l, v, y)
  <2>1. ASSUME NEW n \in 1 .. d PROVE w[k[z + n]] = v[l[y + n]]
    <3>2. n \in 1 .. d /\ Len(l) \in Nat /\ i \in Nat
      BY <1>1
    <3>1. /\ z + n \in 1 .. Len(l) + 1 /\ z + n > i + 1 /\ (z + n) - 1 = y + n
          /\ y + n \in 1 .. Len(l) /\ y + n # i + 1
      BY ONLY <1>y, <3>2
    <3>3. k[z + n] = l[y + n]
      BY <1>1, <1>2, <3>1
    <3> QED BY <1>w, <3>1, <3>3
  <2>2. Alike(l, v, y, k, w, z, d)
    <3>1. y \in Nat /\ z \in Nat /\ d \in Nat /\ y + d <= Len(l) /\ z + d <= Len(k)
      <4>1. y \in Nat /\ z \in Nat
        BY <1>y
      <4>2. y + d = Len(l)
        BY <1>1, <1>y
      <4>3. z + d = Len(l) + 1
        BY <1>1, <1>y
      <4>4. d \in Nat
        BY <1>1, <1>y, <1>11
      <4>5. Len(l) <= Len(l) /\ Len(l) + 1 <= Len(k)
        BY <1>1, <1>2
      <4> QED BY <4>1, <4>2, <4>3, <4>4, <4>5
    <3> QED BY ONLY <2>1, <3>1 DEF Alike
  <2>3. SameSums(l, v, y, k, w, z, d)
    BY <2>2, DueRun
  <2> QED BY <2>3 DEF SameSums
<1>12. ASSUME NEW n \in i + 1 .. Len(l) PROVE Due(k, w, n + 1) = Due(l, v, n)
  <2>1. /\ i < Len(l) /\ n - y \in 0 .. d /\ z + (n - y) = n + 1 /\ y + (n - y) = n
        /\ n + 1 \in 0 .. Len(k) /\ n \in 0 .. Len(l) /\ y \in 0 .. Len(l)
    BY <1>1, <1>2, <1>y
  <2>2. Due(k, w, n + 1) - Due(k, w, z) = Due(l, v, n) - Due(l, v, y)
    BY <1>11, <2>1
  <2>3. Due(k, w, n + 1) \in Nat /\ Due(l, v, n) \in Nat /\ Due(l, v, y) \in Nat
    BY <1>1, <1>7, <2>1
  <2>4. Due(k, w, z) = Due(l, v, y)
    BY <1>10, <1>y, <2>1
  <2> QED BY ONLY <2>2, <2>3, <2>4
<1> DEFINE r == [u \in On(l) \cup {t} |-> IF u = t THEN tim ELSE WaitsOf(l, v)[u]]
<1>13. r = [u \in On(k) |-> r[u]]
  BY <1>4
<1>14. /\ r[t] = tim
       /\ \A n \in 1 .. Len(l) : r[l[n]] = Due(l, v, n)
  BY <1>1
<1> HIDE DEF r
<1>15. ASSUME NEW n \in 1 .. Len(k) PROVE r[k[n]] = Due(k, w, n)
  <2>1. CASE n <= i
    <3>1. n \in 1 .. i /\ n \in 0 .. i
      BY <1>1, <2>1
    <3> QED BY <1>5, <1>8, <1>14, <3>1
  <2>2. CASE n = i + 1
    <3>1. k[i + 1] = t
      BY <1>1, <1>2
    <3> QED BY <1>9, <1>14, <2>2, <3>1
  <2>3. CASE n > i + 1
    <3>1. n - 1 \in i + 1 .. Len(l) /\ n - 1 \in 1 .. Len(l) /\ (n - 1) + 1 = n /\ n \in 1 .. Len(l) + 1
      BY <1>1, <1>2, <2>3
    <3>2. k[n] = l[n - 1]
      BY <1>1, <1>2, <2>3, <3>1
    <3>3. Due(k, w, n) = Due(l, v, n - 1)
      BY <1>12, <3>1
    <3> QED BY <1>14, <3>1, <3>2, <3>3
  <2> QED BY <1>1, <2>1, <2>2, <2>3
<1>16. WaitsOf(k, w) = r
  BY ONLY <1>t, <1>3, <1>13, <1>15, WaitsAre
<1>17. DOMAIN WaitsOf(l, v) = On(l)
  BY WaitAt
<1> QED BY <1>3, <1>4, <1>16, <1>17 DEF r, With

-----------------------------------------------------------------------------
(* The steps on the list.                                                  *)

TimerTypes ==
  /\ timerList \in Seq(Timers) /\ Once(timerList)
  /\ value \in Deltas
  /\ interval \in [Timers -> Intervals \cup {0}]
  /\ count \in 0 .. W - 1 /\ timerCounter \in 0 .. W - 1

LEMMA RemainingNext == Remaining' = WaitsOf(timerList', value') /\ Members' = On(timerList')
BY DEF Remaining, WaitsOf, Members, On, Due

LEMMA InsertStep ==
  ASSUME NEW l \in Seq(Timers), NEW v \in Deltas, Once(l), NEW t \in Timers, t \notin On(l),
         NEW tim \in Nat \ {0}, InsertTimer(l, v, t, tim)
  PROVE  /\ timerList' \in Seq(Timers) /\ Once(timerList') /\ value' \in Deltas
         /\ Members' = On(l) \cup {t}
         /\ Remaining' = With(WaitsOf(l, v), t, tim)
<1>1. PICK i \in 0 .. Len(l) :
        /\ i = Cardinality({n \in DOMAIN l : Due(l, v, n) < tim})
        /\ Due(l, v, i) < tim
        /\ i < Len(l) => tim <= Due(l, v, i + 1)
  BY InsertPlace
<1> DEFINE rel == tim - Due(l, v, i)
<1>2. /\ timerList' = Inserted(l, i, t)
      /\ value' = [u \in Timers |-> IF u = t THEN rel ELSE IF i < Len(l) /\ u = l[i + 1] THEN v[u] - rel ELSE v[u]]
  BY <1>1 DEF InsertTimer, Inserted
<1>3. Due(l, v, i) \in Nat /\ Len(l) \in Nat /\ i \in Nat /\ rel \in Nat
  BY <1>1, DueStep
<1>4. ASSUME i < Len(l) PROVE l[i + 1] \in Timers /\ v[l[i + 1]] - rel \in Nat
  <2>1. i + 1 \in 1 .. Len(l) /\ (i + 1) - 1 = i
    BY <1>3, <1>4
  <2>2. Due(l, v, i + 1) = Due(l, v, i) + v[l[i + 1]]
    BY <2>1, DueStep
  <2>3. l[i + 1] \in Timers /\ v[l[i + 1]] \in Nat
    BY <2>1 DEF Deltas
  <2> QED BY <1>1, <1>3, <1>4, <2>2, <2>3
<1> HIDE DEF rel
<1>5. \A n \in 1 .. Len(l) : l[n] \in Timers /\ l[n] # t
  BY WaitAt
<1>6. value' \in Deltas
  <2>1. \A u \in Timers : v[u] \in Nat
    BY DEF Deltas
  <2> QED BY <1>2, <1>3, <1>4, <2>1 DEF Deltas
<1>7. value'[t] = rel
  BY <1>2
<1>8. i < Len(l) => value'[l[i + 1]] = v[l[i + 1]] - rel
  <2> SUFFICES ASSUME i < Len(l) PROVE value'[l[i + 1]] = v[l[i + 1]] - rel
    OBVIOUS
  <2>1. l[i + 1] \in Timers /\ l[i + 1] # t
    <3>1. i + 1 \in 1 .. Len(l)
      BY <1>3
    <3> QED BY <1>5, <3>1
  <2> QED BY <1>2, <2>1
<1>9. \A n \in 1 .. Len(l) : n # i + 1 => value'[l[n]] = v[l[n]]
  <2> SUFFICES ASSUME NEW n \in 1 .. Len(l), n # i + 1 PROVE value'[l[n]] = v[l[n]]
    OBVIOUS
  <2>1. ~(i < Len(l) /\ l[n] = l[i + 1])
    <3>1. i < Len(l) => i + 1 \in 1 .. Len(l)
      BY <1>3
    <3> QED BY <3>1 DEF Once
  <2> QED BY <1>2, <1>5, <2>1
<1>10. PICK k : k = timerList'
  OBVIOUS
<1>11. PICK w : w = value'
  OBVIOUS
<1>12. k \in Seq(Timers) /\ w \in Deltas
  <2>1. Inserted(l, i, t) \in Seq(Timers)
    BY InsertedIs
  <2> QED BY <1>2, <1>6, <1>10, <1>11, <2>1
<1>13. Inserts(l, v, t, tim, i, k, w)
  <2>1. /\ Len(k) = Len(l) + 1
        /\ \A n \in 1 .. Len(l) + 1 : k[n] = IF n <= i THEN l[n] ELSE IF n = i + 1 THEN t ELSE l[n - 1]
    <3>1. /\ Len(Inserted(l, i, t)) = Len(l) + 1
          /\ \A n \in 1 .. Len(l) + 1 :
               Inserted(l, i, t)[n] = IF n <= i THEN l[n] ELSE IF n = i + 1 THEN t ELSE l[n - 1]
      BY InsertedIs
    <3>2. k = Inserted(l, i, t)
      BY <1>2, <1>10
    <3> QED BY ONLY <3>1, <3>2
  <2> QED BY <1>7, <1>8, <1>9, <1>11, <2>1 DEF Inserts, rel
<1>14. /\ Once(k) /\ On(k) = On(l) \cup {t}
       /\ WaitsOf(k, w) = With(WaitsOf(l, v), t, tim)
  BY <1>12, <1>13, InsertWaits
<1>15. Remaining' = WaitsOf(k, w) /\ Members' = On(k)
  BY <1>10, <1>11, RemainingNext
<1> QED BY <1>6, <1>10, <1>12, <1>14, <1>15

LEMMA SetStep ==
  ASSUME TimerTypes, NEW t \in Timers, NEW c \in Countdowns, NEW again \in Intervals, OsSetTimer(t, c, again)
  PROVE  \E tim \in Waits :
           /\ tim = (IF c = 0 THEN again ELSE c) /\ t \notin Members
           /\ TimerTypes' /\ Members' = Members \cup {t}
           /\ Remaining' = With(Remaining, t, tim)
<1> DEFINE tim == IF c = 0 THEN again ELSE c
<1>1. tim \in Waits /\ tim \in Nat \ {0}
  BY TimerAssumption DEF OsSetTimer, TimerAssumption, Waits
<1>2. InsertTimer(timerList, value, t, tim) /\ t \notin Members
  BY DEF OsSetTimer
<1> HIDE DEF tim
<1>3. Remaining = WaitsOf(timerList, value) /\ Members = On(timerList)
  BY RemainingIs
<1>4. /\ timerList' \in Seq(Timers) /\ Once(timerList') /\ value' \in Deltas
      /\ Members' = Members \cup {t}
      /\ Remaining' = With(Remaining, t, tim)
  <2>1. timerList \in Seq(Timers) /\ value \in Deltas /\ Once(timerList) /\ t \notin On(timerList)
    BY <1>2, <1>3 DEF TimerTypes
  <2>2. /\ timerList' \in Seq(Timers) /\ Once(timerList') /\ value' \in Deltas
        /\ Members' = On(timerList) \cup {t}
        /\ Remaining' = With(WaitsOf(timerList, value), t, tim)
    BY <1>1, <1>2, <2>1, InsertStep
  <2> QED BY ONLY <1>3, <2>2
<1>5. interval' \in [Timers -> Intervals \cup {0}] /\ count' = count /\ timerCounter' = timerCounter
  BY DEF OsSetTimer, TimerTypes, hardware
<1>6. TimerTypes'
  BY <1>4, <1>5 DEF TimerTypes, Once
<1> QED BY <1>1, <1>2, <1>4, <1>6 DEF tim

LEMMA ElapsedIs == TimerTypes => ElapsedCycles \in 0 .. W - 1
BY TimerAssumption DEF TimerTypes, ElapsedCycles, TimerAssumption

LEMMA ChargeStep ==
  ASSUME TimerTypes, HandlerCharge
  PROVE  /\ TimerTypes' /\ Members' = Members /\ ElapsedCycles \in Nat
         /\ Head(timerList) \in Members /\ Remaining[Head(timerList)] \in Nat
         /\ \A u \in Members : ElapsedCycles < Remaining[u] /\ Remaining[u] \in Nat
         /\ Remaining' = [u \in Members |-> Remaining[u] - ElapsedCycles]
<1> DEFINE h == Head(timerList)
           e == ElapsedCycles
<1>1. /\ timerList # <<>> /\ e < value[h] /\ value' = [value EXCEPT ![h] = value[h] - e] /\ timerList' = timerList
      /\ interval' = interval /\ count' = count /\ timerCounter' = count
  BY DEF HandlerCharge, hardware
<1>2. e \in Nat
  BY ElapsedIs, TimerAssumption DEF TimerAssumption
<1>3. Remaining = WaitsOf(timerList, value) /\ Members = On(timerList)
  BY RemainingIs
<1>4. /\ h \in Members /\ h \in Timers /\ Remaining[h] = value[h] /\ value[h] \in Nat
      /\ \A u \in Members : Remaining[u] \in Nat /\ value[h] <= Remaining[u]
  BY <1>1, <1>3, HeadLeast DEF TimerTypes
<1> HIDE DEF e, h
<1>5. value[h] - e \in Nat
  BY <1>1, <1>2, <1>4
<1>6. value' \in Deltas /\ value'[h] = value[h] - e /\ \A u \in Timers : u # h => value'[u] = value[u]
  BY <1>1, <1>4, <1>5 DEF TimerTypes, Deltas
<1>7. PICK w : w = value'
  OBVIOUS
<1>8. WaitsOf(timerList, w) = [u \in On(timerList) |-> WaitsOf(timerList, value)[u] - e]
  <2>1. e <= value[h] /\ timerList \in Seq(Timers) /\ value \in Deltas /\ Once(timerList)
    BY <1>1, <1>2, <1>4 DEF TimerTypes
  <2>2. w \in Deltas /\ w[h] = value[h] - e /\ \A u \in Timers : u # h => w[u] = value[u]
    BY <1>6, <1>7
  <2>3. h = Head(timerList)
    BY DEF h
  <2> QED BY ONLY <1>1, <1>2, <2>1, <2>2, <2>3, ChargeWaits
<1>9. Remaining' = [u \in Members |-> Remaining[u] - e] /\ Members' = Members
  BY <1>1, <1>3, <1>7, <1>8, RemainingNext
<1>10. TimerTypes'
  BY <1>1, <1>6 DEF TimerTypes, Once
<1>11. \A u \in Members : e < Remaining[u]
  BY <1>1, <1>2, <1>4
<1> QED BY <1>2, <1>4, <1>9, <1>10, <1>11 DEF e, h

(* What is left when the head fires, and the interval it is set to again.  *)
Left == [u \in Members \ {Head(timerList)} |-> Remaining[u] - value[Head(timerList)]]

LEMMA FireStep ==
  ASSUME TimerTypes, HandlerFire
  PROVE  /\ TimerTypes' /\ Head(timerList) \in Members /\ Head(timerList) \in Timers
         /\ Remaining[Head(timerList)] = value[Head(timerList)] /\ value[Head(timerList)] \in Nat
         /\ \A u \in Members : Remaining[u] \in Nat /\ Remaining[Head(timerList)] <= Remaining[u]
         /\ IF interval[Head(timerList)] # 0
            THEN /\ interval[Head(timerList)] \in Waits /\ Members' = Members
                 /\ Remaining' = With(Left, Head(timerList), interval[Head(timerList)])
            ELSE Members' = Members \ {Head(timerList)} /\ Remaining' = Left
<1>1. PICK h : h = Head(timerList)
  OBVIOUS
<1>2. PICK rest : rest = Tail(timerList)
  OBVIOUS
<1>3. /\ timerList # <<>> /\ interval' = interval /\ count' = count /\ timerCounter' = count
      /\ IF interval[h] # 0 THEN InsertTimer(rest, value, h, interval[h])
         ELSE timerList' = rest /\ value' = [value EXCEPT ![h] = 0]
  BY <1>1, <1>2 DEF HandlerFire, hardware
<1>4. Remaining = WaitsOf(timerList, value) /\ Members = On(timerList)
  BY RemainingIs
<1>5. /\ h \in Members /\ h \in Timers /\ Remaining[h] = value[h] /\ value[h] \in Nat
      /\ \A u \in Members : Remaining[u] \in Nat /\ value[h] <= Remaining[u]
  BY <1>1, <1>3, <1>4, HeadLeast DEF TimerTypes
<1>6. /\ rest \in Seq(Timers) /\ Once(rest) /\ On(rest) = Members \ {h}
      /\ WaitsOf(rest, value) = Left
  <2>1. timerList \in Seq(Timers) /\ value \in Deltas /\ Once(timerList) /\ timerList # <<>>
    BY <1>3 DEF TimerTypes
  <2>2. /\ rest \in Seq(Timers) /\ Once(rest) /\ On(rest) = On(timerList) \ {h}
        /\ WaitsOf(rest, value) = [u \in On(timerList) \ {h} |-> WaitsOf(timerList, value)[u] - value[h]]
    BY ONLY <1>1, <1>2, <2>1, TailWaits
  <2>3. Left = [u \in Members \ {h} |-> Remaining[u] - value[h]]
    BY ONLY <1>1 DEF Left
  <2> QED BY ONLY <1>4, <2>2, <2>3
<1>7. CASE interval[h] # 0
  <2>1. interval[h] \in Waits /\ interval[h] \in Nat \ {0}
    BY <1>5, <1>7, TimerAssumption DEF TimerAssumption, TimerTypes, Waits
  <2>2. h \notin On(rest) /\ InsertTimer(rest, value, h, interval[h])
    BY <1>3, <1>6, <1>7
  <2>3. PICK again : again = interval[h]
    OBVIOUS
  <2>4. /\ timerList' \in Seq(Timers) /\ Once(timerList') /\ value' \in Deltas
        /\ Members' = On(rest) \cup {h}
        /\ Remaining' = With(WaitsOf(rest, value), h, again)
    <3>1. value \in Deltas /\ again \in Nat \ {0} /\ InsertTimer(rest, value, h, again)
      BY <2>1, <2>2, <2>3 DEF TimerTypes
    <3>2. h \in Timers /\ rest \in Seq(Timers) /\ Once(rest) /\ h \notin On(rest)
      BY <1>5, <1>6, <2>2
    <3> QED BY ONLY <3>1, <3>2, InsertStep
  <2>5. On(rest) \cup {h} = Members
    BY <1>5, <1>6
  <2>6. TimerTypes'
    BY <1>3, <2>4 DEF TimerTypes, Once
  <2>7. Members' = Members /\ Remaining' = With(Left, h, again)
    BY <1>6, <2>4, <2>5
  <2> QED BY <1>1, <1>5, <1>7, <2>1, <2>3, <2>6, <2>7
<1>8. CASE interval[h] = 0
  <2>1. value' \in Deltas /\ timerList' = rest /\ \A u \in On(rest) : value'[u] = value[u]
    <3>1. value' = [value EXCEPT ![h] = 0] /\ timerList' = rest
      BY <1>3, <1>8
    <3>2. On(rest) \subseteq Timers
      BY <1>6, WaitAt DEF TimerTypes
    <3> QED BY <1>5, <1>6, <3>1, <3>2 DEF TimerTypes, Deltas
  <2>2. PICK w : w = value'
    OBVIOUS
  <2>3. WaitsOf(rest, w) = WaitsOf(rest, value)
    BY <1>6, <2>1, <2>2, SameWaits DEF TimerTypes
  <2>4. Remaining' = Left /\ Members' = Members \ {h}
    BY <1>6, <2>1, <2>2, <2>3, RemainingNext
  <2>5. TimerTypes'
    BY <1>3, <1>6, <2>1 DEF TimerTypes, Once
  <2> QED BY <1>1, <1>5, <1>8, <2>4, <2>5
<1> QED BY <1>7, <1>8

LEMMA OtherSteps ==
  ASSUME TimerTypes, UNCHANGED <<timerList, value, interval>>, count' \in 0 .. W - 1, timerCounter' \in 0 .. W - 1
  PROVE  TimerTypes' /\ Remaining' = Remaining /\ Members' = Members
<1>1. timerList' = timerList /\ value' = value /\ interval' = interval
  OBVIOUS
<1>2. Remaining' = Remaining /\ Members' = Members
  BY <1>1, RemainingIs, RemainingNext
<1>3. TimerTypes'
  BY <1>1 DEF TimerTypes, Once
<1> QED BY <1>2, <1>3

LEMMA Wraps ==
  /\ W \in Nat \ {0}
  /\ \A n \in Nat : n % W \in 0 .. W - 1 /\ n % W <= n
  /\ 0 \in 0 .. W - 1
BY TimerAssumption DEF TimerAssumption

LEMMA SetTimerIntrTypes ==
  ASSUME TimerTypes, NEW tim, NEW n \in 0 .. MaxArm, SetTimerIntr(tim, n)
  PROVE  count' \in 0 .. W - 1 /\ timerCounter' \in 0 .. W - 1
<1>1. count + n \in Nat /\ count \in 0 .. W - 1
  BY TimerAssumption DEF TimerAssumption, TimerTypes
<1> QED BY <1>1, Wraps DEF SetTimerIntr, Elapse

(* Every other action leaves the list alone.                               *)
LEMMA Listless ==
  ASSUME TimerTypes,
         \/ Tick \/ TakeInterrupt \/ HandlerStart \/ HandlerEmpty \/ UNCHANGED vars
         \/ \E n \in 0 .. MaxArm : SetTimerArm(n) \/ HandlerArm(n)
         \/ \E t \in Timers : Receive(t)
  PROVE  TimerTypes' /\ Remaining' = Remaining /\ Members' = Members
<1>1. count \in 0 .. W - 1 /\ timerCounter \in 0 .. W - 1 /\ 0 \in 0 .. W - 1 /\ count + 1 \in Nat
  BY Wraps DEF TimerTypes
<1>2. CASE Tick
  BY <1>1, <1>2, OtherSteps, Wraps DEF Tick, Elapse, listVars
<1>3. CASE TakeInterrupt \/ HandlerStart \/ HandlerEmpty \/ UNCHANGED vars \/ \E t \in Timers : Receive(t)
  <2>1. UNCHANGED <<timerList, value, interval>> /\ count' = count /\ timerCounter' \in {timerCounter, 0}
    BY <1>3 DEF TakeInterrupt, HandlerStart, HandlerEmpty, Receive, vars, hardware, listVars
  <2> QED BY <1>1, <2>1, OtherSteps
<1>4. CASE \E n \in 0 .. MaxArm : SetTimerArm(n) \/ HandlerArm(n)
  <2>1. PICK n \in 0 .. MaxArm : SetTimerArm(n) \/ HandlerArm(n)
    BY <1>4
  <2>2. UNCHANGED <<timerList, value, interval>>
    BY <2>1 DEF SetTimerArm, HandlerArm, listVars
  <2>3. (\E tim : SetTimerIntr(tim, n)) \/ (count' = count /\ timerCounter' = timerCounter)
    BY <2>1, Zenon DEF SetTimerArm, HandlerArm, hardware
  <2>4. count' \in 0 .. W - 1 /\ timerCounter' \in 0 .. W - 1
    BY <1>1, <2>3, SetTimerIntrTypes
  <2> QED BY <2>2, <2>4, OtherSteps
<1> QED BY <1>2, <1>3, <1>4

LEMMA TypesInit == Init => TimerTypes /\ Members = {} /\ Remaining = [u \in {} |-> 0]
<1> SUFFICES ASSUME Init PROVE TimerTypes /\ Members = {} /\ Remaining = [u \in {} |-> 0]
  OBVIOUS
<1>1. timerList = <<>> /\ Len(<<>>) = 0 /\ <<>> \in Seq(Timers) /\ DOMAIN <<>> = {}
  BY DEF Init
<1>2. TimerTypes
  BY <1>1, Wraps DEF Init, TimerTypes, Once, Deltas
<1>3. Members = {}
  BY <1>1 DEF Members
<1> QED BY <1>2, <1>3 DEF Remaining

LEMMA RemainingDomain == DOMAIN Remaining = Members /\ Remaining = [u \in Members |-> Remaining[u]]
BY DEF Remaining

(* osSetTimer and __osTimerInterrupt on the list with deltas do what is    *)
(* asked of a set of timers: setting one leaves the waits of the others    *)
(* alone, time is charged to all alike, and the one that fires is one that *)
(* waits the shortest; for any number of timers and any waits.             *)
THEOREM TimersAreASet == Spec => ListIsTimerSet
<1>1. Init => Abstract!SInit /\ TimerTypes
  BY TypesInit DEF Abstract!SInit
<1>2. TimerTypes /\ [Next]_vars => TimerTypes' /\ [Abstract!SNext]_Remaining
  <2> SUFFICES ASSUME TimerTypes, [Next]_vars PROVE TimerTypes' /\ [Abstract!SNext]_Remaining
    OBVIOUS
  <2>1. CASE \E t \in Timers, c \in Countdowns, again \in Intervals : OsSetTimer(t, c, again)
    <3>1. PICK t \in Timers, tim \in Waits : t \notin Members /\ TimerTypes' /\ Remaining' = With(Remaining, t, tim)
      BY <2>1, SetStep
    <3>2. Abstract!Set(t, tim)
      BY <3>1, RemainingDomain DEF Abstract!Set, With
    <3> QED BY <3>1, <3>2 DEF Abstract!SNext
  <2>2. CASE HandlerCharge
    <3> DEFINE e == ElapsedCycles
               h == Head(timerList)
    <3>1. /\ TimerTypes' /\ e \in Nat /\ h \in Members /\ Remaining[h] \in Nat
          /\ \A u \in Members : e < Remaining[u] /\ Remaining[u] \in Nat
          /\ Remaining' = [u \in Members |-> Remaining[u] - e]
      BY <2>2, ChargeStep
    <3> HIDE DEF e, h
    <3>2. CASE e = 0
      <4>1. Remaining' = [u \in Members |-> Remaining[u]]
        BY <3>1, <3>2
      <4> QED BY <3>1, <4>1, RemainingDomain
    <3>3. CASE e # 0
      <4>1. Abstract!Charge(e)
        BY <3>1, RemainingDomain DEF Abstract!Charge
      <4>2. e \in 1 .. Remaining[h] /\ h \in DOMAIN Remaining
        BY <3>1, <3>3, RemainingDomain
      <4> QED BY <3>1, <4>1, <4>2 DEF Abstract!SNext
    <3> QED BY <3>2, <3>3
  <2>3. CASE HandlerFire
    <3>1. PICK h : h = Head(timerList)
      OBVIOUS
    <3>2. /\ TimerTypes' /\ h \in Members /\ h \in Timers /\ Remaining[h] = value[h] /\ value[h] \in Nat
          /\ \A u \in Members : Remaining[u] \in Nat /\ Remaining[h] <= Remaining[u]
          /\ IF interval[h] # 0 THEN interval[h] \in Waits /\ Remaining' = With(Left, h, interval[h])
             ELSE Remaining' = Left
      BY <2>3, <3>1, FireStep
    <3>3. Left = Abstract!Expired(h)
      <4>1. Left = [u \in Members \ {h} |-> Remaining[u] - Remaining[h]]
        BY <3>1, <3>2 DEF Left
      <4> QED BY <4>1, RemainingDomain DEF Abstract!Expired
    <3>4. DOMAIN Left = Members \ {h}
      BY <3>1 DEF Left
    <3>5. Abstract!Expire(h)
      <4>1. CASE interval[h] # 0
        <5>1. PICK again \in Waits : again = interval[h]
          BY <3>2, <4>1
        <5>2. Remaining' = [u \in Members |-> IF u = h THEN again ELSE Abstract!Expired(h)[u]]
          BY <3>2, <3>3, <3>4, <4>1, <5>1 DEF With
        <5> QED BY <3>2, <5>2, RemainingDomain DEF Abstract!Expire
      <4>2. CASE interval[h] = 0
        BY <3>2, <3>3, <4>2, RemainingDomain DEF Abstract!Expire
      <4> QED BY <4>1, <4>2
    <3> QED BY <3>2, <3>5 DEF Abstract!SNext
  <2>4. CASE \/ Tick \/ TakeInterrupt \/ HandlerStart \/ HandlerEmpty \/ UNCHANGED vars
             \/ \E n \in 0 .. MaxArm : SetTimerArm(n) \/ HandlerArm(n)
             \/ \E t \in Timers : Receive(t)
    BY <2>4, Listless
  <2> QED BY <2>1, <2>2, <2>3, <2>4 DEF Next, Handler
<1> QED BY <1>1, <1>2, PTL DEF Spec, ListIsTimerSet, Abstract!SSpec

-----------------------------------------------------------------------------
(* No timer fires before its time, but for the age of the time base.       *)

LEMMA Modulo ==
  /\ \A a \in 0 .. W - 1 : a % W = a
  /\ \A a \in W .. 2 * W - 1 : a % W = a - W
  /\ \A a \in -W .. -1 : a % W = a + W
<1>1. W \in Nat \ {0}
  BY Wraps
<1>2. ASSUME NEW a \in 0 .. W - 1 PROVE a % W = a
  BY <1>1
<1>3. ASSUME NEW a \in W .. 2 * W - 1 PROVE a % W = a - W
  BY <1>1
<1>4. ASSUME NEW a \in -W .. -1 PROVE a % W = a + W
  BY <1>1
<1> QED BY <1>2, <1>3, <1>4

LEMMA TickElapses ==
  ASSUME TimerTypes, count' = (count + 1) % W, timerCounter' = timerCounter
  PROVE  ElapsedCycles' <= ElapsedCycles + 1 /\ ElapsedCycles' \in Nat /\ ElapsedCycles \in Nat
<1>1. W \in Nat \ {0} /\ count \in 0 .. W - 1 /\ timerCounter \in 0 .. W - 1
  BY Wraps DEF TimerTypes
<1> DEFINE c == count
           b == timerCounter
<1>2. ElapsedCycles = IF b <= c THEN c - b ELSE c - b + W
  <2>1. b <= c => c - b \in 0 .. W - 1
    BY <1>1
  <2>2. ~(b <= c) => c - b \in -W .. -1
    BY <1>1
  <2> QED BY <2>1, <2>2, Modulo DEF ElapsedCycles
<1>3. count' = IF c = W - 1 THEN 0 ELSE c + 1
  <2>1. c = W - 1 => c + 1 \in W .. 2 * W - 1 /\ (c + 1) - W = 0
    BY <1>1
  <2>2. c # W - 1 => c + 1 \in 0 .. W - 1
    BY <1>1
  <2> QED BY <2>1, <2>2, Modulo
<1>4. PICK d : d = count'
  OBVIOUS
<1>5. ElapsedCycles' = (d - b) % W
  BY <1>4 DEF ElapsedCycles
<1>6. (d - b) % W = IF b <= d THEN d - b ELSE d - b + W
  <2>1. d \in 0 .. W - 1
    BY <1>1, <1>3, <1>4
  <2>2. b <= d => d - b \in 0 .. W - 1
    BY <1>1, <2>1
  <2>3. ~(b <= d) => d - b \in -W .. -1
    BY <1>1, <2>1
  <2> QED BY <2>2, <2>3, Modulo
<1> HIDE DEF b, c
<1>7. b \in 0 .. W - 1 /\ c \in 0 .. W - 1
  BY <1>1 DEF b, c
<1> QED BY <1>1, <1>2, <1>3, <1>4, <1>5, <1>6, <1>7

LEMMA ArmElapses ==
  ASSUME TimerTypes, NEW n \in Nat, count' = (count + n) % W, timerCounter' = count
  PROVE  ElapsedCycles' <= n /\ ElapsedCycles' \in Nat
<1>1. W \in Nat \ {0} /\ count \in 0 .. W - 1
  BY Wraps DEF TimerTypes
<1> DEFINE c == count
<1>2. PICK d : d = count'
  OBVIOUS
<1>3. ElapsedCycles' = (d - c) % W /\ d = (c + n) % W
  BY <1>2 DEF ElapsedCycles
<1> HIDE DEF c
<1>4. c \in 0 .. W - 1 /\ c + n \in Nat
  BY <1>1 DEF c
<1>5. d \in 0 .. W - 1
  BY <1>3, <1>4, Wraps
<1>6. (d - c) % W = IF c <= d THEN d - c ELSE d - c + W
  <2>1. c <= d => d - c \in 0 .. W - 1
    BY <1>1, <1>4, <1>5
  <2>2. ~(c <= d) => d - c \in -W .. -1
    BY <1>1, <1>4, <1>5
  <2> QED BY <2>1, <2>2, Modulo
<1>7. ASSUME n < W PROVE d = IF c + n < W THEN c + n ELSE c + n - W
  <2>1. CASE c + n < W
    <3>1. c + n \in 0 .. W - 1
      BY <1>1, <1>4, <2>1
    <3> QED BY <1>3, <2>1, <3>1, Modulo
  <2>2. CASE ~(c + n < W)
    <3>1. c + n \in W .. 2 * W - 1
      BY <1>1, <1>4, <1>7, <2>2
    <3>2. (c + n) % W = (c + n) - W
      BY <3>1, Modulo
    <3> QED BY <1>1, <1>3, <1>4, <2>2, <3>2
  <2> QED BY <2>1, <2>2
<1> QED BY <1>1, <1>3, <1>4, <1>5, <1>6, <1>7

(* Finitely many waits have a longest.                                     *)
LEMMA HasBound ==
  ASSUME NEW S \in SUBSET Nat, IsFiniteSet(S)
  PROVE  \E top \in Nat : \A m \in S : m <= top
<1> DEFINE Bounded(R) == \E top \in Nat : \A m \in R : m <= top
           T == {k \in Nat : \A R \in SUBSET Nat : IsFiniteSet(R) /\ Cardinality(R) = k => Bounded(R)}
<1>1. 0 \in T
  <2> SUFFICES ASSUME NEW R \in SUBSET Nat, IsFiniteSet(R), Cardinality(R) = 0 PROVE Bounded(R)
    OBVIOUS
  <2>1. R = {}
    BY FS_EmptySet
  <2> QED BY <2>1
<1>2. ASSUME NEW k \in Nat, k \in T PROVE k + 1 \in T
  <2> SUFFICES ASSUME NEW R \in SUBSET Nat, IsFiniteSet(R), Cardinality(R) = k + 1 PROVE Bounded(R)
    <3> HIDE DEF Bounded
    <3> QED OBVIOUS
  <2>0. R # {}
    BY FS_EmptySet
  <2>1. PICK x \in R : TRUE
    BY <2>0
  <2>2. IsFiniteSet(R \ {x}) /\ Cardinality(R \ {x}) = k
    <3>1. IsFiniteSet(R \ {x}) /\ Cardinality(R \ {x}) = Cardinality(R) - 1
      BY <2>1, FS_RemoveElement
    <3> QED BY <3>1
  <2>3. PICK top \in Nat : \A m \in R \ {x} : m <= top
    BY <1>2, <2>2
  <2> DEFINE high == IF x <= top THEN top ELSE x
  <2>4. high \in Nat /\ \A m \in R : m <= high
    BY <2>3
  <2> QED BY <2>4
<1>3. \A k \in Nat : k \in T
  <2> HIDE DEF T
  <2> QED BY <1>1, <1>2, NatSetInduction
<1>4. Cardinality(S) \in Nat
  BY FS_CardinalityType
<1> QED BY <1>3, <1>4

LEMMA Longest == ASSUME NEW w \in Waits PROVE w \in Nat /\ AgeLimit \in Nat /\ w <= AgeLimit
<1>1. Waits \in SUBSET Nat /\ IsFiniteSet(Waits)
  <2>1. IsFiniteSet(Countdowns \cup Intervals)
    BY TimerAssumption, FS_Union DEF TimerAssumption
  <2>2. Waits \subseteq Countdowns \cup Intervals
    BY DEF Waits
  <2> QED BY <2>1, <2>2, FS_Subset, TimerAssumption DEF TimerAssumption
<1>2. PICK top \in Nat : \A m \in Waits : m <= top
  BY <1>1, HasBound
<1> DEFINE T == {d \in Nat : top - d \in Waits}
<1>3. PICK d \in T : \A c \in T : d <= c
  <2>1. top - w \in T
    BY <1>1, <1>2
  <2> HIDE DEF T
  <2>2. T \in SUBSET Nat /\ T # {}
    BY <2>1 DEF T
  <2> QED BY <2>2, LeastNatural
<1>4. top - d \in Waits /\ \A m \in Waits : m <= top - d
  <2>1. ASSUME NEW m \in Waits PROVE m <= top - d
    <3>1. m \in Nat /\ top - m \in Nat /\ top - (top - m) = m
      BY <1>1, <1>2
    <3>2. top - m \in T
      BY <3>1
    <3>3. d <= top - m /\ d \in Nat
      BY <1>3, <3>2
    <3> QED BY <3>1, <3>3
  <2> QED BY <1>3, <2>1
<1>5. MaxOf(Waits) \in Waits /\ \A m \in Waits : m <= MaxOf(Waits)
  BY <1>4 DEF MaxOf
<1> HIDE DEF T
<1>6. MaxOf(Waits) \in Nat /\ w \in Nat /\ w <= MaxOf(Waits)
  BY <1>1, <1>5
<1> QED BY <1>6 DEF AgeLimit

(* Before the first compare after an idle list is written.                 *)
Unarmed == timerCounter = 0 /\ compare = 0 /\ ~hit /\ events = 0 /\ handler = "off"

(* The timers that are owed nothing by the time that passed: the cycles not*)
(* yet charged are among those counted since the timer was set.            *)
Owed == [t \in Members |-> age[t] + stale[t] + Remaining[t]]
Covered ==
  {t \in Members : \/ wait[t] <= age[t]
                   \/ wait[t] + ElapsedCycles <= Owed[t]
                   \/ Unarmed /\ wait[t] <= Owed[t]}

EarlyInv ==
  /\ age \in [Timers -> Nat] /\ wait \in [Timers -> Nat] /\ stale \in [Timers -> Nat]
  /\ \A t \in Members : wait[t] \in Waits /\ t \in Covered
  /\ timerList = <<>> /\ handler = "off" => compare = 0 /\ timerCounter = 0
  /\ handler = "arm" => timerList # <<>>

LEMMA CoveredNext ==
  ASSUME NEW u \in Members',
         \/ wait'[u] <= age'[u]
         \/ wait'[u] + ElapsedCycles' <= age'[u] + stale'[u] + Remaining'[u]
         \/ Unarmed' /\ wait'[u] <= age'[u] + stale'[u] + Remaining'[u]
  PROVE  u \in Covered'
BY DEF Covered, Owed

LEMMA CoveredIs ==
  ASSUME TimerTypes, EarlyInv, NEW u \in Members
  PROVE  /\ u \in Timers /\ wait[u] \in Waits /\ wait[u] \in Nat /\ age[u] \in Nat /\ stale[u] \in Nat
         /\ Remaining[u] \in Nat /\ ElapsedCycles \in Nat
         /\ \/ wait[u] <= age[u]
            \/ wait[u] + ElapsedCycles <= age[u] + stale[u] + Remaining[u]
            \/ Unarmed /\ wait[u] <= age[u] + stale[u] + Remaining[u]
<1>1. Members = On(timerList) /\ Remaining = WaitsOf(timerList, value) /\ timerList \in Seq(Timers)
      /\ value \in Deltas /\ Once(timerList)
  BY RemainingIs DEF TimerTypes
<1>2. u \in Timers /\ Remaining[u] \in Nat
  <2>1. \A t \in On(timerList) : t \in Timers /\ WaitsOf(timerList, value)[t] \in Nat
    BY ONLY <1>1, WaitAt
  <2> QED BY <1>1, <2>1
<1>3. ElapsedCycles \in Nat
  BY ElapsedIs, Wraps
<1>4. wait[u] \in Waits /\ wait[u] \in Nat /\ age[u] \in Nat /\ stale[u] \in Nat /\ u \in Covered
  BY <1>2 DEF EarlyInv
<1> QED BY <1>2, <1>3, <1>4 DEF Covered, Owed

(* Time passes: an age that is cut off is no less than what was asked for. *)
LEMMA Aged ==
  ASSUME TimerTypes, EarlyInv, NEW n \in Nat, Elapse(n)
  PROVE  age' \in [Timers -> Nat] /\ \A u \in Members : wait[u] <= age'[u] \/ age'[u] = age[u] + n
<1>1. age \in [Timers -> Nat]
  BY DEF EarlyInv
<1>2. Timers # {} /\ Members # {} => AgeLimit \in Nat
  BY Longest DEF EarlyInv
<1>3. ASSUME NEW u \in Members
      PROVE  u \in Timers /\ age'[u] \in Nat /\ (wait[u] <= age'[u] \/ age'[u] = age[u] + n)
  <2>1. u \in Timers /\ wait[u] \in Waits /\ age[u] \in Nat
    BY CoveredIs
  <2>2. AgeLimit \in Nat /\ wait[u] <= AgeLimit
    BY <2>1, Longest
  <2>3. age'[u] = IF age[u] + n > AgeLimit THEN AgeLimit ELSE age[u] + n
    BY <2>1 DEF Elapse
  <2> QED BY <2>1, <2>2, <2>3
<1>4. age' = [t \in Timers |-> IF t \notin Members THEN 0
                              ELSE IF age[t] + n > AgeLimit THEN AgeLimit ELSE age[t] + n]
  BY DEF Elapse
<1>5. ASSUME NEW t \in Timers PROVE age'[t] \in Nat
  <2>1. CASE t \in Members
    BY <1>3, <2>1
  <2>2. CASE t \notin Members
    BY <1>4, <2>2
  <2> QED BY <2>1, <2>2
<1>6. age' \in [Timers -> Nat]
  BY <1>4, <1>5
<1> QED BY <1>3, <1>6

LEMMA EarlyTick == ASSUME TimerTypes, EarlyInv, Tick PROVE EarlyInv'
<1>1. /\ UNCHANGED <<timerList, value, interval, timerCounter, compare, events, handler, wait, stale>>
      /\ count' = (count + 1) % W /\ Elapse(1) /\ hit' = (hit \/ count' = compare)
  BY DEF Tick, Elapse, listVars
<1>2. Remaining' = Remaining /\ Members' = Members
  BY Listless
<1>3. ElapsedCycles' <= ElapsedCycles + 1 /\ ElapsedCycles' \in Nat /\ ElapsedCycles \in Nat
  BY <1>1, TickElapses
<1>4. age' \in [Timers -> Nat] /\ \A u \in Members : wait[u] <= age'[u] \/ age'[u] = age[u] + 1
  BY <1>1, Aged
<1>5. Unarmed => Unarmed' \/ ElapsedCycles' = 0
  <2> SUFFICES ASSUME Unarmed, count' = 0 PROVE ElapsedCycles' = 0
    BY <1>1 DEF Unarmed
  <2>1. timerCounter' = 0 /\ 0 % W = 0
    BY <1>1, Wraps, Modulo DEF Unarmed
  <2> QED BY <2>1 DEF ElapsedCycles
<1>6. ASSUME NEW u \in Members PROVE u \in Covered'
  <2>1. /\ wait[u] \in Nat /\ age[u] \in Nat /\ stale[u] \in Nat /\ Remaining[u] \in Nat
        /\ \/ wait[u] <= age[u]
           \/ wait[u] + ElapsedCycles <= age[u] + stale[u] + Remaining[u]
           \/ Unarmed /\ wait[u] <= age[u] + stale[u] + Remaining[u]
    BY CoveredIs
  <2>2. wait'[u] = wait[u] /\ stale'[u] = stale[u] /\ Remaining'[u] = Remaining[u]
        /\ (wait[u] <= age'[u] \/ age'[u] = age[u] + 1) /\ u \in Members'
    BY <1>1, <1>2, <1>4
  <2>3. \/ wait'[u] <= age'[u]
        \/ wait'[u] + ElapsedCycles' <= age'[u] + stale'[u] + Remaining'[u]
        \/ Unarmed' /\ wait'[u] <= age'[u] + stale'[u] + Remaining'[u]
    BY ONLY <1>3, <1>5, <2>1, <2>2
  <2> QED BY <2>2, <2>3, CoveredNext
<1> QED BY <1>1, <1>2, <1>4, <1>6 DEF EarlyInv

(* Where the compare register is written for the head.                     *)
LEMMA EarlyArm ==
  ASSUME TimerTypes, EarlyInv, NEW tim, NEW n \in 0 .. MaxArm, SetTimerIntr(tim, n),
         timerList # <<>>, UNCHANGED <<timerList, value, interval, wait, stale>>
  PROVE  EarlyInv'
<1>1. n \in Nat
  BY TimerAssumption DEF TimerAssumption
<1>2. count' = (count + n) % W /\ timerCounter' = count /\ Elapse(n)
  BY DEF SetTimerIntr, Elapse
<1>3. ElapsedCycles' <= n /\ ElapsedCycles' \in Nat
  BY <1>1, <1>2, ArmElapses
<1>4. age' \in [Timers -> Nat] /\ \A u \in Members : wait[u] <= age'[u] \/ age'[u] = age[u] + n
  BY <1>1, <1>2, Aged
<1>5. Remaining' = Remaining /\ Members' = Members
  BY RemainingIs, RemainingNext
<1>6. ASSUME NEW u \in Members PROVE u \in Covered'
  <2>1. /\ wait[u] \in Nat /\ age[u] \in Nat /\ stale[u] \in Nat /\ Remaining[u] \in Nat /\ ElapsedCycles \in Nat
        /\ \/ wait[u] <= age[u]
           \/ wait[u] + ElapsedCycles <= age[u] + stale[u] + Remaining[u]
           \/ wait[u] <= age[u] + stale[u] + Remaining[u]
    BY CoveredIs
  <2>2. wait'[u] = wait[u] /\ stale'[u] = stale[u] /\ Remaining'[u] = Remaining[u]
        /\ (wait[u] <= age'[u] \/ age'[u] = age[u] + n) /\ u \in Members'
    BY <1>4, <1>5
  <2>3. \/ wait'[u] <= age'[u]
        \/ wait'[u] + ElapsedCycles' <= age'[u] + stale'[u] + Remaining'[u]
    BY ONLY <1>1, <1>3, <2>1, <2>2
  <2> QED BY <2>2, <2>3, CoveredNext
<1> QED BY <1>4, <1>5, <1>6 DEF EarlyInv

(* Steps that change neither the list nor the time.                        *)
LEMMA EarlyOther ==
  ASSUME TimerTypes, EarlyInv,
         UNCHANGED <<timerList, value, interval, count, timerCounter, age, wait, stale>>,
         Unarmed => Unarmed',
         timerList = <<>> /\ handler' = "off" => compare' = 0,
         handler' = "arm" => handler = "arm",
         timerList = <<>> /\ handler' = "off" => handler = "off"
  PROVE  EarlyInv'
<1>1. Remaining' = Remaining /\ Members' = Members
  BY RemainingIs, RemainingNext
<1>2. ElapsedCycles' = ElapsedCycles
  BY DEF ElapsedCycles
<1>3. ASSUME NEW u \in Members PROVE u \in Covered'
  <2>1. \/ wait[u] <= age[u]
        \/ wait[u] + ElapsedCycles <= age[u] + stale[u] + Remaining[u]
        \/ Unarmed /\ wait[u] <= age[u] + stale[u] + Remaining[u]
    BY CoveredIs
  <2>2. u \in Members'
    BY <1>1
  <2> QED BY <1>1, <1>2, <2>1, <2>2, CoveredNext
<1> QED BY <1>1, <1>3 DEF EarlyInv

LEMMA EarlySet ==
  ASSUME TimerTypes, EarlyInv, NEW t \in Timers, NEW c \in Countdowns, NEW again \in Intervals, OsSetTimer(t, c, again)
  PROVE  EarlyInv'
<1>1. PICK tim \in Waits :
        /\ tim = (IF c = 0 THEN again ELSE c) /\ t \notin Members
        /\ Members' = Members \cup {t} /\ Remaining' = With(Remaining, t, tim)
  BY SetStep
<1>2. /\ age' = [age EXCEPT ![t] = 0] /\ wait' = [wait EXCEPT ![t] = tim]
      /\ stale' = [stale EXCEPT ![t] = IF timerList = << >> /\ ~hit THEN 0 ELSE ElapsedCycles]
      /\ UNCHANGED <<count, compare, hit, events, handler, timerCounter>> /\ handler = "off" /\ events = 0
  BY <1>1 DEF OsSetTimer, hardware, ElapsedCycles, InThread
<1>3. tim \in Nat /\ ElapsedCycles \in Nat /\ ElapsedCycles' = ElapsedCycles /\ (Unarmed => Unarmed')
  <2>1. ElapsedCycles' = ElapsedCycles /\ (Unarmed => Unarmed')
    BY <1>2 DEF ElapsedCycles, Unarmed
  <2> QED BY <2>1, ElapsedIs, Longest, Wraps
<1>4. age' \in [Timers -> Nat] /\ wait' \in [Timers -> Nat] /\ stale' \in [Timers -> Nat]
  BY <1>2, <1>3 DEF EarlyInv
<1>5. t \in Covered'
  <2>1. wait'[t] = tim /\ age'[t] = 0 /\ stale'[t] = (IF timerList = << >> /\ ~hit THEN 0 ELSE ElapsedCycles)
    BY <1>2 DEF EarlyInv
  <2>2. Remaining'[t] = tim /\ t \in Members'
    BY <1>1 DEF With
  <2>3. timerList = << >> /\ ~hit => Unarmed'
    BY <1>2, <1>3 DEF EarlyInv, Unarmed
  <2> QED BY <1>3, <2>1, <2>2, <2>3, CoveredNext
<1>6. ASSUME NEW u \in Members PROVE u \in Covered' /\ wait'[u] \in Waits
  <2>1. /\ u \in Timers /\ u # t /\ wait[u] \in Waits
        /\ \/ wait[u] <= age[u]
           \/ wait[u] + ElapsedCycles <= age[u] + stale[u] + Remaining[u]
           \/ Unarmed /\ wait[u] <= age[u] + stale[u] + Remaining[u]
    BY <1>1, CoveredIs
  <2>2. wait'[u] = wait[u] /\ age'[u] = age[u] /\ stale'[u] = stale[u]
    BY <1>2, <2>1 DEF EarlyInv
  <2>3. Remaining'[u] = Remaining[u] /\ u \in Members'
    BY <1>1, <2>1, RemainingDomain DEF With
  <2> QED BY <1>3, <2>1, <2>2, <2>3, CoveredNext
<1>7. wait'[t] \in Waits
  BY <1>1, <1>2 DEF EarlyInv
<1>8. timerList' # <<>>
  <2>1. t \in Members'
    BY <1>1
  <2> QED BY <2>1 DEF Members
<1> QED BY <1>1, <1>2, <1>4, <1>5, <1>6, <1>7, <1>8 DEF EarlyInv

LEMMA EarlyCharge == ASSUME TimerTypes, EarlyInv, HandlerCharge PROVE EarlyInv'
<1>1. /\ Members' = Members /\ ElapsedCycles \in Nat /\ Head(timerList) \in Members
      /\ Remaining' = [u \in Members |-> Remaining[u] - ElapsedCycles]
  BY ChargeStep
<1>2. /\ age' = age /\ wait' = wait /\ stale' = stale /\ timerList' = timerList /\ timerList # <<>>
      /\ count' = count /\ timerCounter' = count /\ handler = "loop"
  BY DEF HandlerCharge, hardware, history
<1>3. ElapsedCycles' = 0
  <2>1. count - count = 0 /\ 0 % W = 0
    BY Wraps, Modulo DEF TimerTypes
  <2> QED BY <1>2, <2>1 DEF ElapsedCycles
<1>4. ASSUME NEW u \in Members PROVE u \in Covered'
  <2>1. /\ wait[u] \in Nat /\ age[u] \in Nat /\ stale[u] \in Nat /\ Remaining[u] \in Nat
        /\ \/ wait[u] <= age[u]
           \/ wait[u] + ElapsedCycles <= age[u] + stale[u] + Remaining[u]
    BY <1>2, CoveredIs DEF Unarmed
  <2>2. Remaining'[u] = Remaining[u] - ElapsedCycles /\ u \in Members'
    BY <1>1
  <2> QED BY <1>1, <1>2, <1>3, <2>1, <2>2, CoveredNext
<1> QED BY <1>1, <1>2, <1>4 DEF EarlyInv

LEMMA EarlyFire ==
  ASSUME TimerTypes, EarlyInv, HandlerFire
  PROVE  EarlyInv' /\ age[Head(timerList)] + stale[Head(timerList)] >= wait[Head(timerList)]
<1>1. PICK h : h = Head(timerList)
  OBVIOUS
<1>2. /\ h \in Members /\ h \in Timers /\ Remaining[h] = value[h] /\ value[h] \in Nat
      /\ \A u \in Members : Remaining[u] \in Nat /\ Remaining[h] <= Remaining[u]
      /\ IF interval[h] # 0 THEN interval[h] \in Waits /\ Members' = Members /\ Remaining' = With(Left, h, interval[h])
         ELSE Members' = Members \ {h} /\ Remaining' = Left
  BY <1>1, FireStep
<1>3. /\ age' = [age EXCEPT ![h] = 0] /\ wait' = [wait EXCEPT ![h] = interval[h]] /\ stale' = [stale EXCEPT ![h] = 0]
      /\ count' = count /\ timerCounter' = count /\ handler = "loop" /\ handler' = handler
      /\ ElapsedCycles >= value[h]
  BY <1>1 DEF HandlerFire, hardware
<1>4. ElapsedCycles' = 0
  <2>1. count - count = 0 /\ 0 % W = 0
    BY Wraps, Modulo DEF TimerTypes
  <2> QED BY <1>3, <2>1 DEF ElapsedCycles
<1>5. interval[h] \in Nat /\ ElapsedCycles \in Nat
  <2>1. interval[h] \in Intervals \/ interval[h] = 0
    BY <1>2 DEF TimerTypes
  <2>2. \A w \in Intervals : w \in Nat
    BY TimerAssumption DEF TimerAssumption
  <2>3. interval[h] \in Nat
    BY ONLY <2>1, <2>2
  <2> QED BY <2>3, ElapsedIs, Wraps
<1>6. age' \in [Timers -> Nat] /\ wait' \in [Timers -> Nat] /\ stale' \in [Timers -> Nat]
  BY <1>3, <1>5 DEF EarlyInv
<1>7. ASSUME NEW u \in Members
      PROVE  /\ u \in Timers /\ wait[u] \in Waits
             /\ wait[u] \in Nat /\ age[u] \in Nat /\ stale[u] \in Nat /\ Remaining[u] \in Nat
             /\ \/ wait[u] <= age[u]
                \/ wait[u] + ElapsedCycles <= age[u] + stale[u] + Remaining[u]
  BY <1>3, CoveredIs DEF Unarmed
<1>8. ASSUME NEW u \in Members \ {h}, u \in Members' PROVE u \in Covered' /\ wait'[u] \in Waits
  <2>1. Left[u] = Remaining[u] - value[h] /\ u \in DOMAIN Left
    BY <1>1 DEF Left
  <2>2. Remaining'[u] = Remaining[u] - value[h]
    BY <1>2, <2>1 DEF With
  <2>3. wait'[u] = wait[u] /\ age'[u] = age[u] /\ stale'[u] = stale[u]
    BY <1>3, <1>7 DEF EarlyInv
  <2>4. \/ wait'[u] <= age'[u]
        \/ wait'[u] + ElapsedCycles' <= age'[u] + stale'[u] + Remaining'[u]
    BY <1>2, <1>3, <1>4, <1>5, <1>7, <2>2, <2>3
  <2> QED BY <1>7, <1>8, <2>3, <2>4, CoveredNext
<1>9. ASSUME h \in Members' PROVE h \in Covered' /\ wait'[h] \in Waits
  <2>1. interval[h] # 0 /\ interval[h] \in Waits /\ Remaining' = With(Left, h, interval[h])
    BY <1>2, <1>9
  <2>2. Remaining'[h] = interval[h]
    BY <2>1 DEF With
  <2>3. wait'[h] = interval[h] /\ age'[h] = 0 /\ stale'[h] = 0
    BY <1>2, <1>3 DEF EarlyInv
  <2> QED BY <1>4, <1>5, <1>9, <2>1, <2>2, <2>3, CoveredNext
<1>10. Members' \subseteq Members
  BY <1>2
<1>11. EarlyInv'
  BY <1>3, <1>6, <1>8, <1>9, <1>10 DEF EarlyInv
<1>12. age[h] + stale[h] >= wait[h]
  BY <1>2, <1>3, <1>5, <1>7
<1> QED BY <1>1, <1>11, <1>12

LEMMA EarlyInit == Init => EarlyInv
<1> SUFFICES ASSUME Init PROVE EarlyInv
  OBVIOUS
<1>1. Members = {}
  BY TypesInit
<1> QED BY <1>1 DEF Init, EarlyInv

LEMMA EarlyStep ==
  ASSUME TimerTypes, EarlyInv, [Next]_vars
  PROVE  TimerTypes' /\ EarlyInv'
<1>1. CASE Tick
  BY <1>1, EarlyTick, Listless
<1>2. CASE TakeInterrupt
  <2>1. EarlyInv'
    BY <1>2, EarlyOther DEF TakeInterrupt, listVars, history, Unarmed, EarlyInv
  <2> QED BY <1>2, <2>1, Listless
<1>3. CASE \E t \in Timers, c \in Countdowns, again \in Intervals : OsSetTimer(t, c, again)
  BY <1>3, EarlySet, SetStep
<1>4. CASE \E n \in 0 .. MaxArm : SetTimerArm(n)
  <2>1. PICK n \in 0 .. MaxArm : SetTimerArm(n)
    BY <1>4
  <2>2. UNCHANGED <<timerList, value, interval, events, handler, wait, stale>>
    BY <2>1 DEF SetTimerArm, listVars
  <2>3. ASSUME timerList # <<>>, SetTimerIntr(setting[Len(setting)].time, n) PROVE EarlyInv'
    BY <2>2, <2>3, EarlyArm
  <2>4. ASSUME UNCHANGED <<count, compare, hit, timerCounter, age>> PROVE EarlyInv'
    BY <2>2, <2>4, EarlyOther DEF Unarmed, EarlyInv
  <2>5. \/ timerList # <<>> /\ SetTimerIntr(setting[Len(setting)].time, n)
        \/ UNCHANGED <<count, compare, hit, timerCounter, age>>
    BY <2>1 DEF SetTimerArm, hardware
  <2> QED BY <1>4, <2>3, <2>4, <2>5, Listless
<1>5. CASE \E t \in Timers : Receive(t)
  <2>1. EarlyInv'
    BY <1>5, EarlyOther DEF Receive, listVars, history, hardware, Unarmed, EarlyInv
  <2> QED BY <1>5, <2>1, Listless
<1>6. CASE HandlerStart
  <2>1. EarlyInv'
    BY <1>6, EarlyOther DEF HandlerStart, listVars, history, hardware, Unarmed, EarlyInv
  <2> QED BY <1>6, <2>1, Listless
<1>7. CASE HandlerEmpty
  <2>1. timerList = <<>> /\ timerList' = <<>> /\ compare' = 0 /\ timerCounter' = 0
        /\ UNCHANGED <<age, wait, stale>> /\ handler' = "off"
    BY <1>7 DEF HandlerEmpty, listVars, history
  <2>2. Members' = {}
    BY <2>1 DEF Members
  <2>3. EarlyInv'
    BY <2>1, <2>2 DEF EarlyInv
  <2> QED BY <1>7, <2>3, Listless
<1>8. CASE HandlerCharge
  <2>1. EarlyInv'
    BY <1>8, EarlyCharge
  <2>2. TimerTypes'
    BY <1>8, ChargeStep
  <2> QED BY <2>1, <2>2
<1>9. CASE HandlerFire
  <2>1. EarlyInv'
    BY <1>9, EarlyFire
  <2>2. TimerTypes'
    BY <1>9, FireStep
  <2> QED BY <2>1, <2>2
<1>10. CASE \E n \in 0 .. MaxArm : HandlerArm(n)
  <2>1. PICK n \in 0 .. MaxArm : HandlerArm(n)
    BY <1>10
  <2>2. PICK tim : SetTimerIntr(tim, n)
    BY <2>1 DEF HandlerArm
  <2>3. timerList # <<>> /\ UNCHANGED <<timerList, value, interval, wait, stale>>
    BY <2>1 DEF HandlerArm, listVars, EarlyInv
  <2>4. EarlyInv'
    BY <2>2, <2>3, EarlyArm
  <2> QED BY <1>10, <2>4, Listless
<1>11. CASE UNCHANGED vars
  <2>1. EarlyInv'
    BY <1>11, EarlyOther DEF vars, listVars, history, hardware, Unarmed, EarlyInv
  <2> QED BY <1>11, <2>1, Listless
<1> QED BY <1>1, <1>2, <1>3, <1>4, <1>5, <1>6, <1>7, <1>8, <1>9, <1>10, <1>11 DEF Next, Handler

(* A timer that fires has waited what it asked for, less what              *)
(* __osTimerCounter was behind when osSetTimer put it into the list: the   *)
(* insertions, the re-arming and the late handlers of other timers never   *)
(* add to that, however long the waits and whenever the counter wraps.     *)
THEOREM TimersEarlyByStaleness == Spec => EarlyByStaleness
<1>1. Init => TimerTypes /\ EarlyInv
  BY TypesInit, EarlyInit
<1>2. (TimerTypes /\ EarlyInv) /\ [Next]_vars => (TimerTypes /\ EarlyInv)'
  BY EarlyStep
<1>3. (TimerTypes /\ EarlyInv) /\ [Next]_vars
      => [\A t \in Timers : HandlerFire /\ t = Head(timerList) => age[t] + stale[t] >= wait[t]]_vars
  BY EarlyFire
<1> QED BY <1>1, <1>2, <1>3, PTL DEF Spec, EarlyByStaleness
================================================================================
