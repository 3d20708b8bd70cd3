---------------------------- MODULE OsKernelProofs ----------------------------
(***************************************************************************)
(* Theorems about OsKernel, for any number of threads, queues, messages,   *)
(* priorities and events: its scheduler, and how threads wait (for what,   *)
(* that no wakeup is lost, that a yield is a round robin and when the     *)
(* reset notice is posted).                                                *)
(*                                                                         *)
(* The argument is in four layers.  What the list primitives do to one     *)
(* list; what they do to all the lists (ListsOK); that every way out of    *)
(* the scheduler leaves the highest-priority ready thread running and all  *)
(* others placed where their state says (Scheduled); and that every action *)
(* of the kernel goes through one of those ways (Inv is inductive).        *)
(*                                                                         *)
(* Waiting follows from what a step does to the wait lists.  Quiet says it *)
(* of every step but a blocking one: none gets a thread, and no thread that*)
(* was woken waits again.  Wakes(l) adds that a waiter of l, if there is   *)
(* one, has left it for the run queue.  The messages come in afterwards.   *)
(***************************************************************************)
EXTENDS OsKernel, SequenceTheorems, FiniteSetTheorems, WellFoundedInduction, TLAPS

-----------------------------------------------------------------------------
(* What the three list primitives do to one list.                          *)

Distinct(s) == \A i, j \in DOMAIN s : s[i] = s[j] => i = j
Descending(s, prio) == \A i, j \in DOMAIN s : i < j => prio[s[i]] >= prio[s[j]]
Has(s, t) == \E i \in DOMAIN s : s[i] = t

(* A nonempty set of positions has a least one.                            *)
LEMMA LeastExists ==
  ASSUME NEW T \in SUBSET Nat, T # {}
  PROVE  \E i \in T : \A j \in T : i <= j
<1>1. \E i \in T : \A j \in T : ~(<<j, i>> \in OpToRel(<, Nat))
  BY NatLessThanWellFounded, WFMin, Zenon
<1>2. PICK i \in T : \A j \in T : ~(<<j, i>> \in OpToRel(<, Nat))
  BY <1>1
<1>3. ASSUME NEW j \in T PROVE i <= j
  <2>1. ~(j < i)
    <3> SUFFICES ASSUME j < i PROVE <<j, i>> \in OpToRel(<, Nat)
      BY <1>2
    <3>1. <<j, i>> \in Nat \X Nat /\ <<j, i>>[1] < <<j, i>>[2]
      BY SMT
    <3> QED  BY <3>1, Zenon DEF OpToRel
  <2> QED  BY <2>1
<1> QED  BY <1>3

(* __osEnqueueThread finds a place: after every thread of at least the      *)
(* priority p that precedes it, before the first of lower priority.        *)
LEMMA InsertPosIs ==
  ASSUME NEW s \in Seq(Threads), NEW prio \in [Threads -> Nat], NEW p \in Nat
  PROVE  LET i == InsertPos(s, p, prio)
         IN  /\ i \in 1 .. Len(s) + 1
             /\ \A j \in 1 .. i - 1 : prio[s[j]] >= p
             /\ i <= Len(s) => prio[s[i]] < p
<1> DEFINE T == {i \in 1 .. Len(s) + 1 : i <= Len(s) => prio[s[i]] < p}
<1>1. Len(s) \in Nat /\ \A i \in 1 .. Len(s) : s[i] \in Threads
  BY ElementOfSeq, LenProperties
<1>2. T \in SUBSET Nat /\ Len(s) + 1 \in T
  BY <1>1
<1>3. PICK i \in T : \A j \in T : i <= j
  BY <1>2, LeastExists
<1>4. i \in 1 .. Len(s) + 1 /\ (i <= Len(s) => prio[s[i]] < p)
  BY <1>3
<1>5. \A j \in 1 .. i - 1 : prio[s[j]] >= p
  <2> SUFFICES ASSUME NEW j \in 1 .. i - 1, ~(prio[s[j]] >= p) PROVE FALSE
    OBVIOUS
  <2>1. j \in 1 .. Len(s) /\ prio[s[j]] \in Nat
    BY <1>1, <1>4
  <2>2. j \in T
    BY <2>1, <1>1
  <2> QED  BY <2>2, <1>3, <1>4, <1>1
<1> HIDE DEF T
<1> QED  BY <1>4, <1>5 DEF InsertPos

(* Inserting keeps the elements, their order and the descending priorities. *)
LEMMA InsertThreadIs ==
  ASSUME NEW s \in Seq(Threads), NEW prio \in [Threads -> Nat], NEW t \in Threads
  PROVE  LET r == InsertThread(s, t, prio)
         IN  /\ r \in Seq(Threads)
             /\ r # << >>
             /\ \A u : Has(r, u) <=> Has(s, u) \/ u = t
             /\ Distinct(s) /\ ~Has(s, t) => Distinct(r)
             /\ Descending(s, prio) => Descending(r, prio)
<1> DEFINE i == InsertPos(s, prio[t], prio)
           r == InsertThread(s, t, prio)
<1>1. Len(s) \in Nat /\ DOMAIN s = 1 .. Len(s) /\ \A k \in 1 .. Len(s) : s[k] \in Threads
  BY ElementOfSeq, LenProperties
<1>2. /\ i \in 1 .. Len(s) + 1
      /\ \A j \in 1 .. i - 1 : prio[s[j]] >= prio[t]
      /\ i <= Len(s) => prio[s[i]] < prio[t]
  <2>1. prio[t] \in Nat
    OBVIOUS
  <2> QED  BY <2>1, InsertPosIs
<1> HIDE DEF i
<1>3. r = [j \in 1 .. Len(s) + 1 |-> IF j < i THEN s[j] ELSE IF j = i THEN t ELSE s[j - 1]]
  BY DEF InsertThread, i
<1> HIDE DEF r
<1>4. DOMAIN r = 1 .. Len(s) + 1 /\ \A j \in 1 .. Len(s) + 1 : r[j] \in Threads
  BY <1>1, <1>2, <1>3
<1>5. r \in Seq(Threads)
  BY <1>1, <1>3, <1>4, SeqDef
<1>6. r # << >>
  BY <1>4, <1>1
<1>7. \A j \in 1 .. Len(s) + 1 :
        /\ j < i => r[j] = s[j] /\ j \in 1 .. Len(s)
        /\ j = i => r[j] = t
        /\ j > i => r[j] = s[j - 1] /\ j - 1 \in 1 .. Len(s)
  BY <1>1, <1>2, <1>3
<1>8. ASSUME NEW u PROVE Has(r, u) <=> Has(s, u) \/ u = t
  <2>1. ASSUME Has(s, u) PROVE Has(r, u)
    <3>1. PICK k \in 1 .. Len(s) : s[k] = u
      BY <2>1, <1>1 DEF Has
    <3>2. CASE k < i
      <4>1. k \in 1 .. Len(s) + 1
        BY <1>1
      <4>2. r[k] = s[k]
        BY <4>1, <3>2, <1>7
      <4> QED  BY <4>1, <4>2, <3>1, <1>4 DEF Has
    <3>3. CASE ~(k < i)
      <4>1. k + 1 \in 1 .. Len(s) + 1 /\ k + 1 > i /\ (k + 1) - 1 = k
        BY <3>3, <1>1, <1>2
      <4>2. r[k + 1] = s[k]
        BY <4>1, <1>7
      <4> QED  BY <4>1, <4>2, <3>1, <1>4 DEF Has
    <3> QED  BY <3>2, <3>3
  <2>2. Has(r, t)
    BY <1>2, <1>7, <1>4 DEF Has
  <2>3. ASSUME Has(r, u) PROVE Has(s, u) \/ u = t
    <3>1. PICK k \in 1 .. Len(s) + 1 : r[k] = u
      BY <2>3, <1>4 DEF Has
    <3>2. k < i \/ k = i \/ k > i
      BY <1>1, <1>2
    <3>3. r[k] = t \/ \E m \in 1 .. Len(s) : r[k] = s[m]
      BY <3>2, <1>7
    <3> QED  BY <3>1, <3>3, <1>1 DEF Has
  <2> QED  BY <2>1, <2>2, <2>3
<1>9. ASSUME Distinct(s), ~Has(s, t) PROVE Distinct(r)
  <2> SUFFICES ASSUME NEW j \in 1 .. Len(s) + 1, NEW k \in 1 .. Len(s) + 1,
                      r[j] = r[k], j < k
               PROVE  FALSE
    BY <1>4, <1>1 DEF Distinct
  <2>1. \A m \in 1 .. Len(s) : s[m] # t
    BY <1>9, <1>1 DEF Has
  <2>2. \A m, n \in 1 .. Len(s) : s[m] = s[n] => m = n
    BY <1>9, <1>1 DEF Distinct
  <2>3. CASE k < i
    BY <2>3, <2>2, <1>7, <1>1, <1>2
  <2>4. CASE k = i
    BY <2>4, <2>1, <1>7, <1>1, <1>2
  <2>5. CASE k > i /\ j < i
    BY <2>5, <2>2, <1>7, <1>1, <1>2
  <2>6. CASE j = i
    BY <2>6, <2>1, <1>7, <1>1, <1>2
  <2>7. CASE j > i
    <3>1. k > i /\ j - 1 < k - 1
      BY <2>7, <1>1, <1>2
    <3>2. r[j] = s[j - 1] /\ j - 1 \in 1 .. Len(s)
      BY <2>7, <1>7
    <3>3. r[k] = s[k - 1] /\ k - 1 \in 1 .. Len(s)
      BY <3>1, <1>7
    <3>4. s[j - 1] = s[k - 1]
      BY <3>2, <3>3
    <3>5. j - 1 = k - 1
      BY <3>2, <3>3, <3>4, <2>2
    <3> QED  BY <3>1, <3>5
  <2> QED  BY <2>3, <2>4, <2>5, <2>6, <2>7, <1>1, <1>2
<1>10. ASSUME Descending(s, prio) PROVE Descending(r, prio)
  <2> SUFFICES ASSUME NEW j \in 1 .. Len(s) + 1, NEW k \in 1 .. Len(s) + 1, j < k
               PROVE  prio[r[j]] >= prio[r[k]]
    BY <1>4 DEF Descending
  <2>1. \A m, n \in 1 .. Len(s) : m < n => prio[s[m]] >= prio[s[n]]
    BY <1>10, <1>1 DEF Descending
  <2>2. \A m \in 1 .. Len(s) : prio[s[m]] \in Nat
    BY <1>1
  <2>3. CASE k < i
    BY <2>3, <2>1, <1>7, <1>1, <1>2
  <2>4. CASE k = i
    BY <2>4, <1>7, <1>1, <1>2
  <2>5. CASE k > i /\ j < i
    BY <2>5, <2>1, <1>7, <1>1, <1>2
  <2>6. CASE j = i
    <3>1. r[j] = t /\ r[k] = s[k - 1] /\ k - 1 \in 1 .. Len(s) /\ i <= k - 1
      BY <2>6, <1>7, <1>1, <1>2
    <3>2. prio[s[i]] >= prio[s[k - 1]]
      BY <3>1, <2>1, <2>2, <1>1, <1>2
    <3> QED  BY <3>1, <3>2, <1>1, <1>2, <2>2
  <2>7. CASE j > i
    <3>1. k > i /\ j - 1 < k - 1
      BY <2>7, <1>1, <1>2
    <3>2. r[j] = s[j - 1] /\ j - 1 \in 1 .. Len(s)
      BY <2>7, <1>7
    <3>3. r[k] = s[k - 1] /\ k - 1 \in 1 .. Len(s)
      BY <3>1, <1>7
    <3> QED  BY <3>1, <3>2, <3>3, <2>1
  <2> QED  BY <2>3, <2>4, <2>5, <2>6, <2>7, <1>1, <1>2
<1> QED  BY <1>5, <1>6, <1>8, <1>9, <1>10 DEF r

(* __osPopThread takes the head and keeps the rest.                         *)
LEMMA TailIs ==
  ASSUME NEW s \in Seq(Threads), s # << >>
  PROVE  /\ Head(s) \in Threads
         /\ Has(s, Head(s))
         /\ Tail(s) \in Seq(Threads)
         /\ Distinct(s) => Distinct(Tail(s))
         /\ Distinct(s) => \A u : Has(Tail(s), u) <=> Has(s, u) /\ u # Head(s)
         /\ \A prio : Descending(s, prio) =>
              /\ Descending(Tail(s), prio)
              /\ \A i \in DOMAIN s : i = 1 \/ prio[Head(s)] >= prio[s[i]]
<1>1. /\ Len(s) \in Nat \ {0} /\ DOMAIN s = 1 .. Len(s)
      /\ \A k \in 1 .. Len(s) : s[k] \in Threads
  BY ElementOfSeq, LenProperties, EmptySeq
<1>2. /\ Head(s) = s[1] /\ Head(s) \in Threads
      /\ Tail(s) \in Seq(Threads)
      /\ Len(Tail(s)) = Len(s) - 1
      /\ \A i \in 1 .. Len(Tail(s)) : Tail(s)[i] = s[i + 1]
  BY HeadTailProperties, <1>1
<1>3. DOMAIN Tail(s) = 1 .. Len(s) - 1
  BY <1>2, LenProperties
<1>4. Has(s, Head(s))
  BY <1>1, <1>2 DEF Has
<1>5. ASSUME Distinct(s) PROVE Distinct(Tail(s))
  BY <1>5, <1>1, <1>2, <1>3 DEF Distinct
<1>6. ASSUME Distinct(s), NEW u PROVE Has(Tail(s), u) <=> Has(s, u) /\ u # Head(s)
  <2>1. ASSUME Has(s, u), u # Head(s) PROVE Has(Tail(s), u)
    <3>1. PICK k \in 1 .. Len(s) : s[k] = u
      BY <2>1, <1>1 DEF Has
    <3>2. k - 1 \in 1 .. Len(s) - 1 /\ (k - 1) + 1 = k
      BY <3>1, <2>1, <1>1, <1>2
    <3> QED  BY <3>1, <3>2, <1>2, <1>3 DEF Has
  <2>2. ASSUME Has(Tail(s), u) PROVE Has(s, u) /\ u # Head(s)
    <3>1. PICK k \in 1 .. Len(s) - 1 : Tail(s)[k] = u
      BY <2>2, <1>3 DEF Has
    <3>2. k + 1 \in 1 .. Len(s) /\ s[k + 1] = u /\ k + 1 # 1
      BY <3>1, <1>1, <1>2
    <3> QED  BY <3>2, <1>6, <1>1, <1>2 DEF Has, Distinct
  <2> QED  BY <2>1, <2>2
<1>7. ASSUME NEW prio, Descending(s, prio)
      PROVE  /\ Descending(Tail(s), prio)
             /\ \A i \in DOMAIN s : i = 1 \/ prio[Head(s)] >= prio[s[i]]
  <2>1. Descending(Tail(s), prio)
    <3> SUFFICES ASSUME NEW i \in 1 .. Len(s) - 1, NEW j \in 1 .. Len(s) - 1, i < j
                 PROVE  prio[Tail(s)[i]] >= prio[Tail(s)[j]]
      BY <1>3 DEF Descending
    <3>1. i + 1 \in 1 .. Len(s) /\ j + 1 \in 1 .. Len(s) /\ i + 1 < j + 1
      BY <1>1
    <3>2. prio[s[i + 1]] >= prio[s[j + 1]]
      BY <3>1, <1>7, <1>1 DEF Descending
    <3> QED  BY <3>2, <1>2
  <2>2. ASSUME NEW i \in 1 .. Len(s), i # 1 PROVE prio[s[1]] >= prio[s[i]]
    BY <2>2, <1>7, <1>1 DEF Descending
  <2> QED  BY <2>1, <2>2, <1>1, <1>2
<1> QED  BY <1>2, <1>4, <1>5, <1>6, <1>7

(* __osDequeueThread removes t and keeps the rest.                          *)
LEMMA UnlinkedIs ==
  ASSUME NEW s \in Seq(Threads), NEW t
  PROVE  LET r == Unlinked(s, t)
         IN  /\ r \in Seq(Threads)
             /\ Distinct(s) => Distinct(r)
             /\ Distinct(s) => \A u : Has(r, u) <=> Has(s, u) /\ u # t
             /\ \A prio : Descending(s, prio) => Descending(r, prio)
<1> DEFINE r == Unlinked(s, t)
<1>1. /\ Len(s) \in Nat /\ DOMAIN s = 1 .. Len(s)
      /\ \A k \in 1 .. Len(s) : s[k] \in Threads
  BY ElementOfSeq, LenProperties
<1>2. CASE ~Has(s, t)
  BY <1>2 DEF Has, Unlinked
<1>3. CASE Has(s, t)
  <2> DEFINE T == {i \in 1 .. Len(s) : s[i] = t}
             i == CHOOSE i \in DOMAIN s : s[i] = t /\ \A j \in 1 .. i - 1 : s[j] # t
  <2>1. T \in SUBSET Nat /\ T # {}
    BY <1>1, <1>3 DEF Has
  <2>2. PICK m \in T : \A j \in T : m <= j
    BY <2>1, LeastExists
  <2>3. m \in DOMAIN s /\ s[m] = t /\ \A j \in 1 .. m - 1 : s[j] # t
    BY <2>2, <1>1
  <2> HIDE DEF T
  <2>4. i \in 1 .. Len(s) /\ s[i] = t
    BY <2>3, <1>1
  <2>5. r = [j \in 1 .. Len(s) - 1 |-> IF j < i THEN s[j] ELSE s[j + 1]]
    BY <1>3 DEF Has, Unlinked
  <2> HIDE DEF i, r
  <2>6. DOMAIN r = 1 .. Len(s) - 1
    BY <2>5
  <2>7. \A j \in 1 .. Len(s) - 1 :
          /\ j < i => r[j] = s[j] /\ j \in 1 .. Len(s)
          /\ j >= i => r[j] = s[j + 1] /\ j + 1 \in 1 .. Len(s)
    BY <2>5, <2>4, <1>1
  <2>8. Len(s) - 1 \in Nat /\ \A j \in 1 .. Len(s) - 1 : r[j] \in Threads
    BY <2>7, <2>4, <1>1
  <2>9. r \in Seq(Threads)
    BY <2>5, <2>6, <2>8, SeqDef
  <2>10. ASSUME NEW j \in 1 .. Len(s) - 1, NEW k \in 1 .. Len(s) - 1, j < k
         PROVE  \E m1, m2 \in 1 .. Len(s) : m1 < m2 /\ r[j] = s[m1] /\ r[k] = s[m2]
    <3>1. CASE k < i
      BY <3>1, <2>10, <2>7, <2>4, <1>1
    <3>2. CASE k >= i /\ j < i
      <4>1. j \in 1 .. Len(s) /\ k + 1 \in 1 .. Len(s) /\ j < k + 1
        BY <2>10, <1>1
      <4> QED  BY <4>1, <3>2, <2>7
    <3>3. CASE j >= i
      <4>1. /\ j + 1 \in 1 .. Len(s) /\ k + 1 \in 1 .. Len(s) /\ j + 1 < k + 1
            /\ k >= i
        BY <3>3, <2>10, <1>1, <2>4
      <4> QED  BY <4>1, <3>3, <2>7
    <3> QED  BY <3>1, <3>2, <3>3, <2>4, <1>1
  <2>11. ASSUME Distinct(s) PROVE Distinct(r)
    <3> SUFFICES ASSUME NEW j \in 1 .. Len(s) - 1, NEW k \in 1 .. Len(s) - 1,
                        j < k, r[j] = r[k]
                 PROVE  FALSE
      BY <2>6, <2>8 DEF Distinct
    <3> QED  BY <2>10, <2>11, <1>1 DEF Distinct
  <2>12. ASSUME Distinct(s), NEW u PROVE Has(r, u) <=> Has(s, u) /\ u # t
    <3>1. ASSUME Has(s, u), u # t PROVE Has(r, u)
      <4>1. PICK k \in 1 .. Len(s) : s[k] = u
        BY <3>1, <1>1 DEF Has
      <4>2. CASE k < i
        <5>1. k \in 1 .. Len(s) - 1
          BY <4>2, <2>4, <1>1
        <5> QED  BY <5>1, <4>1, <4>2, <2>6, <2>7 DEF Has
      <4>3. CASE k > i
        <5>1. k - 1 \in 1 .. Len(s) - 1 /\ k - 1 >= i /\ (k - 1) + 1 = k
          BY <4>3, <2>4, <1>1
        <5> QED  BY <5>1, <4>1, <2>6, <2>7 DEF Has
      <4> QED  BY <4>1, <4>2, <4>3, <2>4, <3>1
    <3>2. ASSUME Has(r, u) PROVE Has(s, u) /\ u # t
      <4>1. PICK k \in 1 .. Len(s) - 1 : r[k] = u
        BY <3>2, <2>6 DEF Has
      <4>2. PICK m1 \in 1 .. Len(s) : m1 # i /\ s[m1] = u
        <5>1. CASE k < i
          BY <5>1, <4>1, <2>7, <2>4, <1>1
        <5>2. CASE k >= i
          <6>1. k + 1 # i
            BY <5>2, <2>4, <1>1
          <6> QED  BY <6>1, <5>2, <4>1, <2>7
        <5> QED  BY <5>1, <5>2, <2>4, <1>1
      <4> QED  BY <4>2, <2>4, <2>12, <1>1 DEF Has, Distinct
    <3> QED  BY <3>1, <3>2
  <2>13. ASSUME NEW prio, Descending(s, prio) PROVE Descending(r, prio)
    <3> SUFFICES ASSUME NEW j \in 1 .. Len(s) - 1, NEW k \in 1 .. Len(s) - 1, j < k
                 PROVE  prio[r[j]] >= prio[r[k]]
      BY <2>6 DEF Descending
    <3>1. PICK m1, m2 \in 1 .. Len(s) : m1 < m2 /\ r[j] = s[m1] /\ r[k] = s[m2]
      BY <2>10
    <3>2. prio[s[m1]] >= prio[s[m2]]
      BY <3>1, <2>13, <1>1 DEF Descending
    <3> QED  BY <3>1, <3>2
  <2> QED  BY <2>9, <2>11, <2>12, <2>13 DEF r
<1> QED  BY <1>2, <1>3

-----------------------------------------------------------------------------
(* The same for the lists together.  ListsOK is OnOneList and Sorted, as a  *)
(* predicate of the lists, queue fields and priorities a call has reached. *)

Queued(L, t) == \E l \in Lists : Has(L[l], t)

ListsOK(L, Q, prio) ==
  /\ L \in [Lists -> Seq(Threads)]
  /\ Q \in [Threads -> Lists \cup {NoQ}]
  /\ prio \in [Threads -> Nat]
  /\ \A l \in Lists : Distinct(L[l]) /\ Descending(L[l], prio)
  /\ \A l \in Lists, u \in Threads : Has(L[l], u) => Q[u] = l

LEMMA HasThread ==
  ASSUME NEW s \in Seq(Threads), NEW u, Has(s, u)
  PROVE  u \in Threads
BY ElementOfSeq, LenProperties DEF Has

LEMMA EnqueuedIs ==
  ASSUME NEW L, NEW Q, NEW prio, NEW l \in Lists, NEW t \in Threads,
         ListsOK(L, Q, prio), ~Queued(L, t)
  PROVE  LET M == Enqueued(L, l, t, prio)
         IN  /\ ListsOK(M, [Q EXCEPT ![t] = l], prio)
             /\ M[l] # << >>
             /\ \A k \in Lists, u \in Threads :
                  Has(M[k], u) <=> Has(L[k], u) \/ (k = l /\ u = t)
<1> DEFINE M == Enqueued(L, l, t, prio)
           r == InsertThread(L[l], t, prio)
<1>1. /\ L \in [Lists -> Seq(Threads)] /\ L[l] \in Seq(Threads)
      /\ Q \in [Threads -> Lists \cup {NoQ}]
      /\ prio \in [Threads -> Nat]
  BY DEF ListsOK
<1>2. /\ r \in Seq(Threads) /\ r # << >>
      /\ \A u : Has(r, u) <=> Has(L[l], u) \/ u = t
      /\ Distinct(L[l]) /\ ~Has(L[l], t) => Distinct(r)
      /\ Descending(L[l], prio) => Descending(r, prio)
  BY <1>1, InsertThreadIs
<1>3. M = [L EXCEPT ![l] = r]
  BY DEF Enqueued
<1> HIDE DEF M, r
<1>4. M \in [Lists -> Seq(Threads)] /\ M[l] = r /\ \A k \in Lists : k # l => M[k] = L[k]
  BY <1>1, <1>2, <1>3
<1>5. \A k \in Lists, u \in Threads : Has(M[k], u) <=> Has(L[k], u) \/ (k = l /\ u = t)
  BY <1>2, <1>4
<1>6. \A k \in Lists : Distinct(M[k]) /\ Descending(M[k], prio)
  BY <1>2, <1>4 DEF ListsOK, Queued
<1>7. \A k \in Lists, u \in Threads : Has(M[k], u) => [Q EXCEPT ![t] = l][u] = k
  BY <1>1, <1>5 DEF ListsOK, Queued
<1>8. [Q EXCEPT ![t] = l] \in [Threads -> Lists \cup {NoQ}]
  BY <1>1
<1>9. ListsOK(M, [Q EXCEPT ![t] = l], prio)
  BY <1>1, <1>4, <1>6, <1>7, <1>8 DEF ListsOK
<1> QED  BY <1>2, <1>4, <1>5, <1>9 DEF M

LEMMA PoppedIs ==
  ASSUME NEW L, NEW Q, NEW prio, NEW l \in Lists,
         ListsOK(L, Q, prio), L[l] # << >>
  PROVE  LET M == Popped(L, l)
             h == Head(L[l])
         IN  /\ ListsOK(M, Q, prio)
             /\ h \in Threads /\ Has(L[l], h) /\ ~Queued(M, h)
             /\ \A k \in Lists, u \in Threads : Has(M[k], u) <=> Has(L[k], u) /\ u # h
             /\ \A i \in DOMAIN M[l] : prio[h] >= prio[M[l][i]]
<1> DEFINE M == Popped(L, l)
           h == Head(L[l])
           r == Tail(L[l])
<1>1. /\ L \in [Lists -> Seq(Threads)] /\ L[l] \in Seq(Threads)
      /\ Distinct(L[l]) /\ Descending(L[l], prio)
  BY DEF ListsOK
<1>2. /\ h \in Threads /\ Has(L[l], h)
      /\ r \in Seq(Threads) /\ Distinct(r) /\ Descending(r, prio)
      /\ \A u : Has(r, u) <=> Has(L[l], u) /\ u # h
      /\ \A i \in DOMAIN L[l] : i = 1 \/ prio[h] >= prio[L[l][i]]
  BY <1>1, TailIs
<1>3. M = [L EXCEPT ![l] = r]
  BY DEF Popped
<1>4. \A i \in DOMAIN r : prio[h] >= prio[r[i]]
  <2>1. /\ Len(L[l]) \in Nat /\ DOMAIN L[l] = 1 .. Len(L[l])
        /\ DOMAIN r = 1 .. Len(L[l]) - 1
        /\ \A i \in 1 .. Len(L[l]) - 1 : r[i] = L[l][i + 1]
    BY <1>1, HeadTailProperties, LenProperties
  <2> SUFFICES ASSUME NEW i \in 1 .. Len(L[l]) - 1 PROVE prio[h] >= prio[r[i]]
    BY <2>1
  <2>2. i + 1 \in 1 .. Len(L[l]) /\ i + 1 # 1
    BY <2>1
  <2> QED  BY <2>1, <2>2, <1>2
<1> HIDE DEF M, h, r
<1>5. M \in [Lists -> Seq(Threads)] /\ M[l] = r /\ \A k \in Lists : k # l => M[k] = L[k]
  BY <1>1, <1>2, <1>3
<1>6. \A k \in Lists : k # l => ~Has(L[k], h)
  BY <1>2 DEF ListsOK
<1>7. \A k \in Lists, u \in Threads : Has(M[k], u) <=> Has(L[k], u) /\ u # h
  BY <1>2, <1>5, <1>6
<1>8. ListsOK(M, Q, prio)
  BY <1>2, <1>5, <1>7 DEF ListsOK
<1>9. ~Queued(M, h)
  BY <1>2, <1>7 DEF Queued
<1> QED  BY <1>2, <1>4, <1>5, <1>7, <1>8, <1>9 DEF M, h

LEMMA DequeuedIs ==
  ASSUME NEW L, NEW Q, NEW prio, NEW t \in Threads,
         ListsOK(L, Q, prio), Queued(L, t)
  PROVE  LET M == Dequeued(L, Q[t], t)
         IN  /\ Q[t] \in Lists
             /\ ListsOK(M, Q, prio)
             /\ ~Queued(M, t)
             /\ \A k \in Lists, u \in Threads : Has(M[k], u) <=> Has(L[k], u) /\ u # t
<1> DEFINE l == Q[t]
           M == Dequeued(L, l, t)
           r == Unlinked(L[l], t)
<1>1. l \in Lists /\ \A k \in Lists : k # l => ~Has(L[k], t)
  BY DEF ListsOK, Queued
<1>2. /\ L \in [Lists -> Seq(Threads)] /\ L[l] \in Seq(Threads)
      /\ Distinct(L[l]) /\ Descending(L[l], prio)
  BY <1>1 DEF ListsOK
<1>3. /\ r \in Seq(Threads) /\ Distinct(r) /\ Descending(r, prio)
      /\ \A u : Has(r, u) <=> Has(L[l], u) /\ u # t
  BY <1>2, UnlinkedIs
<1>4. M = [L EXCEPT ![l] = r]
  BY DEF Dequeued
<1> HIDE DEF M, r
<1>5. M \in [Lists -> Seq(Threads)] /\ M[l] = r /\ \A k \in Lists : k # l => M[k] = L[k]
  BY <1>1, <1>2, <1>3, <1>4
<1>6. \A k \in Lists, u \in Threads : Has(M[k], u) <=> Has(L[k], u) /\ u # t
  BY <1>1, <1>3, <1>5
<1>7. ListsOK(M, Q, prio)
  BY <1>1, <1>3, <1>5, <1>6 DEF ListsOK
<1>8. ~Queued(M, t)
  BY <1>6 DEF Queued
<1> QED  BY <1>1, <1>6, <1>7, <1>8 DEF M

(* Changing the priority of a thread that is on no list.                    *)
LEMMA RePrioritized ==
  ASSUME NEW L, NEW Q, NEW prio, NEW t \in Threads, NEW p \in Nat,
         ListsOK(L, Q, prio), ~Queued(L, t)
  PROVE  ListsOK(L, Q, [prio EXCEPT ![t] = p])
<1> DEFINE new == [prio EXCEPT ![t] = p]
<1>1. prio \in [Threads -> Nat] /\ new \in [Threads -> Nat]
  BY DEF ListsOK
<1>2. ASSUME NEW l \in Lists PROVE Descending(L[l], new)
  <2>1. L[l] \in Seq(Threads) /\ ~Has(L[l], t) /\ Descending(L[l], prio)
    BY DEF ListsOK, Queued
  <2>2. \A i \in DOMAIN L[l] : L[l][i] \in Threads /\ L[l][i] # t
    BY <2>1, HasThread DEF Has
  <2>3. \A i \in DOMAIN L[l] : new[L[l][i]] = prio[L[l][i]]
    BY <1>1, <2>2
  <2> QED  BY <2>1, <2>3 DEF Descending
<1> QED  BY <1>1, <1>2 DEF ListsOK

-----------------------------------------------------------------------------
(* The scheduler.  Placed is the clause of StatesAgree for a thread that    *)
(* does not run; RunsAt says that r runs and every other thread is placed. *)

Placed(L, S, act, t) ==
  LET s == IF t \in act THEN S[t] ELSE STOPPED
  IN  /\ s # RUNNING
      /\ s \in {RUNNABLE, WAITING} <=> Queued(L, t)
      /\ s = RUNNABLE => Has(L[RunQ], t)

RunsAt(L, S, Q, r, prio, act) ==
  /\ ListsOK(L, Q, prio)
  /\ S \in [Threads -> States]
  /\ act \in SUBSET Threads
  /\ r \in act
  /\ S[r] = RUNNING
  /\ ~Queued(L, r)
  /\ \A t \in Threads \ {r} : Placed(L, S, act, t)

Highest(L, r, prio) == \A i \in DOMAIN L[RunQ] : prio[L[RunQ][i]] <= prio[r]

(* What every way out of the scheduler establishes.                         *)
Scheduled(prio, act) ==
  RunsAt(list', tstate', tqueue', running', prio, act) /\ Highest(list', running', prio)

LEMMA ListFacts ==
  /\ RunQ \in Lists
  /\ \A q \in Queues : Mt(q) \in WaitLists /\ Full(q) \in WaitLists
  /\ WaitLists \subseteq Lists
  /\ RunQ \notin WaitLists
  /\ NoQ \notin Lists
BY DEF Lists, WaitLists, RunQ, NoQ, Mt, Full

LEMMA StateFacts ==
  /\ STOPPED \in States /\ RUNNABLE \in States /\ RUNNING \in States /\ WAITING \in States
  /\ STOPPED # RUNNABLE /\ STOPPED # RUNNING /\ STOPPED # WAITING
  /\ RUNNABLE # RUNNING /\ RUNNABLE # WAITING /\ RUNNING # WAITING
  /\ \A s \in States : s \in {STOPPED, RUNNABLE, RUNNING, WAITING}
BY DEF States, STOPPED, RUNNABLE, RUNNING, WAITING

(* __osDispatchThread, when nobody runs any more.                           *)
LEMMA DispatchSchedules ==
  ASSUME NEW L, NEW S, NEW Q, NEW prio, NEW act,
         ListsOK(L, Q, prio), S \in [Threads -> States], act \in SUBSET Threads,
         \A t \in Threads : Placed(L, S, act, t),
         DispatchThread(L, S, Q)
  PROVE  Scheduled(prio, act)
<1> DEFINE h == Head(L[RunQ])
           M == Popped(L, RunQ)
<1>1. L[RunQ] # << >> /\ list' = M /\ running' = h /\ tqueue' = Q
      /\ tstate' = [S EXCEPT ![h] = RUNNING]
  BY DEF DispatchThread
<1>2. /\ ListsOK(M, Q, prio)
      /\ h \in Threads /\ Has(L[RunQ], h) /\ ~Queued(M, h)
      /\ \A k \in Lists, u \in Threads : Has(M[k], u) <=> Has(L[k], u) /\ u # h
      /\ \A i \in DOMAIN M[RunQ] : prio[h] >= prio[M[RunQ][i]]
  BY <1>1, PoppedIs, ListFacts
<1> HIDE DEF M, h
<1>3. h \in act
  BY <1>2, ListFacts, StateFacts DEF Placed, Queued
<1>4. tstate' \in [Threads -> States] /\ tstate'[h] = RUNNING
      /\ \A t \in Threads : t # h => tstate'[t] = S[t]
  BY <1>1, <1>2, StateFacts
<1>5. ASSUME NEW t \in Threads \ {h} PROVE Placed(M, tstate', act, t)
  <2>1. Queued(M, t) <=> Queued(L, t)
    BY <1>2 DEF Queued
  <2>2. Has(M[RunQ], t) <=> Has(L[RunQ], t)
    BY <1>2, ListFacts
  <2> QED  BY <2>1, <2>2, <1>4 DEF Placed
<1>6. RunsAt(M, tstate', Q, h, prio, act)
  BY <1>2, <1>3, <1>4, <1>5 DEF RunsAt
<1>7. Highest(M, h, prio)
  <2> SUFFICES ASSUME NEW i \in DOMAIN M[RunQ] PROVE prio[M[RunQ][i]] <= prio[h]
    BY DEF Highest
  <2>1. M[RunQ][i] \in Threads
    BY <1>2, ListFacts, HasThread DEF ListsOK, Has
  <2>2. prio[h] \in Nat /\ prio[M[RunQ][i]] \in Nat
    BY <2>1, <1>2 DEF ListsOK
  <2> QED  BY <2>2, <1>2
<1> QED  BY <1>1, <1>6, <1>7 DEF Scheduled

(* __osEnqueueAndYield: the running thread gives up the CPU to wait on l    *)
(* (as WAITING), or to stay ready on the run queue (as RUNNABLE).          *)
LEMMA YieldSchedules ==
  ASSUME NEW L, NEW S, NEW Q, NEW l \in Lists, NEW prio, NEW act, NEW x,
         RunsAt(L, S, Q, running, prio, act),
         x = WAITING \/ (x = RUNNABLE /\ l = RunQ),
         EnqueueAndYield(L, [S EXCEPT ![running] = x], Q, l, prio)
  PROVE  Scheduled(prio, act)
<1> DEFINE M == Enqueued(L, l, running, prio)
           R == [S EXCEPT ![running] = x]
           P == [Q EXCEPT ![running] = l]
<1>1. l # NoQ
  BY ListFacts
<1>2. DispatchThread(M, R, P)
  BY <1>1 DEF EnqueueAndYield
<1>3. ListsOK(L, Q, prio) /\ running \in Threads /\ ~Queued(L, running)
  BY DEF RunsAt
<1>4. /\ ListsOK(M, P, prio)
      /\ \A k \in Lists, u \in Threads :
           Has(M[k], u) <=> Has(L[k], u) \/ (k = l /\ u = running)
  BY <1>3, EnqueuedIs
<1> HIDE DEF M, P
<1>5. R \in [Threads -> States] /\ R[running] = x
      /\ \A t \in Threads : t # running => R[t] = S[t]
  BY <1>3, StateFacts DEF RunsAt
<1> HIDE DEF R
<1>6. ASSUME NEW t \in Threads PROVE Placed(M, R, act, t)
  <2>1. CASE t = running
    <3>1. Queued(M, t) /\ Has(M[l], t)
      BY <2>1, <1>4 DEF Queued
    <3> QED  BY <3>1, <2>1, <1>5, StateFacts DEF Placed, RunsAt
  <2>2. CASE t # running
    <3>1. Placed(L, S, act, t)
      BY <2>2 DEF RunsAt
    <3>2. (Queued(M, t) <=> Queued(L, t)) /\ (Has(M[RunQ], t) <=> Has(L[RunQ], t))
      BY <2>2, <1>4, ListFacts DEF Queued
    <3> QED  BY <3>1, <3>2, <2>2, <1>5 DEF Placed
  <2> QED  BY <2>1, <2>2
<1> QED  BY <1>2, <1>4, <1>5, <1>6, DispatchSchedules DEF RunsAt

(* The tail of osStartThread and osSetThreadPri.                            *)
LEMMA PreemptSchedules ==
  ASSUME NEW L, NEW S, NEW Q, NEW prio, NEW act,
         RunsAt(L, S, Q, running, prio, act),
         PreemptOrReturn(L, S, Q, prio)
  PROVE  Scheduled(prio, act)
<1>1. CASE L[RunQ] # << >> /\ prio[running] < prio[Head(L[RunQ])]
  BY <1>1, YieldSchedules, ListFacts DEF PreemptOrReturn
<1>2. CASE ~(L[RunQ] # << >> /\ prio[running] < prio[Head(L[RunQ])])
  <2>1. list' = L /\ tstate' = S /\ tqueue' = Q /\ running' = running
    BY <1>2 DEF PreemptOrReturn
  <2>2. /\ L[RunQ] \in Seq(Threads) /\ Descending(L[RunQ], prio)
        /\ running \in Threads /\ prio \in [Threads -> Nat]
    BY ListFacts DEF RunsAt, ListsOK
  <2>3. ASSUME NEW i \in DOMAIN L[RunQ] PROVE prio[L[RunQ][i]] <= prio[running]
    <3>1. L[RunQ] # << >> /\ L[RunQ][i] \in Threads /\ L[RunQ][1] = Head(L[RunQ])
          /\ DOMAIN L[RunQ] = 1 .. Len(L[RunQ]) /\ Len(L[RunQ]) \in Nat
      BY <2>2, HeadTailProperties, LenProperties, ElementOfSeq
    <3>2. Head(L[RunQ]) \in Threads
      BY <3>1, <2>2, HeadTailProperties
    <3>3. prio[running] >= prio[Head(L[RunQ])]
      BY <3>1, <3>2, <1>2, <2>2
    <3>4. i = 1 \/ prio[Head(L[RunQ])] >= prio[L[RunQ][i]]
      BY <3>1, <2>2, TailIs
    <3> QED  BY <3>1, <3>2, <3>3, <3>4, <2>2
  <2> QED  BY <2>1, <2>3 DEF Scheduled, Highest
<1> QED  BY <1>1, <1>2

(* osStartThread of a thread that is on no list.                            *)
LEMMA StartSchedules ==
  ASSUME NEW L, NEW t \in active,
         ListsOK(L, tqueue, pri), tstate \in [Threads -> States],
         active \in SUBSET Threads,
         running \in active, tstate[running] = RUNNING, ~Queued(L, running),
         \A u \in Threads \ {running, t} : Placed(L, tstate, active, u),
         t # running, ~Queued(L, t), tstate[t] \in {WAITING, STOPPED},
         StartThread(L, tqueue, t)
  PROVE  Scheduled(pri, active)
<1>1. t \in Threads /\ running \in Threads /\ tqueue \in [Threads -> Lists \cup {NoQ}]
  BY DEF ListsOK
<1>2. CASE tstate[t] = WAITING \/ (tstate[t] = STOPPED /\ tqueue[t] \in {NoQ, RunQ})
  <2> DEFINE M == Enqueued(L, RunQ, t, pri)
             R == [tstate EXCEPT ![t] = RUNNABLE]
             P == [tqueue EXCEPT ![t] = RunQ]
  <2>1. PreemptOrReturn(M, R, P, pri)
    BY <1>2 DEF StartThread
  <2>2. /\ ListsOK(M, P, pri)
        /\ \A k \in Lists, u \in Threads :
             Has(M[k], u) <=> Has(L[k], u) \/ (k = RunQ /\ u = t)
    BY <1>1, EnqueuedIs, ListFacts
  <2>3. R \in [Threads -> States] /\ R[t] = RUNNABLE
        /\ \A u \in Threads : u # t => R[u] = tstate[u]
    BY <1>1, StateFacts
  <2> HIDE DEF M, R, P
  <2>4. ASSUME NEW u \in Threads \ {running} PROVE Placed(M, R, active, u)
    <3>1. CASE u = t
      BY <3>1, <2>2, <2>3, ListFacts, StateFacts DEF Placed, Queued
    <3>2. CASE u # t
      <4>1. (Queued(M, u) <=> Queued(L, u)) /\ (Has(M[RunQ], u) <=> Has(L[RunQ], u))
        BY <3>2, <2>2, ListFacts DEF Queued
      <4> QED  BY <4>1, <3>2, <2>3 DEF Placed
    <3> QED  BY <3>1, <3>2
  <2>5. ~Queued(M, running)
    BY <1>1, <2>2 DEF Queued
  <2>6. RunsAt(M, R, P, running, pri, active)
    BY <1>1, <2>2, <2>3, <2>4, <2>5 DEF RunsAt
  <2> QED  BY <2>1, <2>6, PreemptSchedules
<1>3. CASE tstate[t] = STOPPED /\ tqueue[t] \notin {NoQ, RunQ}
  <2> DEFINE l == tqueue[t]
             L1 == Enqueued(L, l, t, pri)
             h == Head(L1[l])
             L2 == Popped(L1, l)
             M == Enqueued(L2, RunQ, h, pri)
             R == [tstate EXCEPT ![t] = WAITING]
             P == [tqueue EXCEPT ![h] = RunQ]
  <2>1. PreemptOrReturn(M, R, P, pri)
    BY <1>3, StateFacts DEF StartThread
  <2>2. l \in Lists /\ l # RunQ /\ [tqueue EXCEPT ![t] = l] = tqueue
    BY <1>1, <1>3
  <2>3. /\ ListsOK(L1, tqueue, pri) /\ L1[l] # << >>
        /\ \A k \in Lists, u \in Threads :
             Has(L1[k], u) <=> Has(L[k], u) \/ (k = l /\ u = t)
    BY <1>1, <2>2, EnqueuedIs
  <2> HIDE DEF L1
  <2>4. /\ ListsOK(L2, tqueue, pri)
        /\ h \in Threads /\ Has(L1[l], h) /\ ~Queued(L2, h)
        /\ \A k \in Lists, u \in Threads : Has(L2[k], u) <=> Has(L1[k], u) /\ u # h
    BY <2>2, <2>3, PoppedIs
  <2> HIDE DEF L2, h
  <2>5. /\ ListsOK(M, P, pri)
        /\ \A k \in Lists, u \in Threads :
             Has(M[k], u) <=> Has(L2[k], u) \/ (k = RunQ /\ u = h)
    BY <2>4, EnqueuedIs, ListFacts
  <2>6. R \in [Threads -> States] /\ R[t] = WAITING
        /\ \A u \in Threads : u # t => R[u] = tstate[u]
    BY <1>1, StateFacts
  <2> HIDE DEF M, R, P
  <2>7. h # running
    BY <1>1, <2>2, <2>3, <2>4 DEF Queued
  <2>8. h = t \/ (Placed(L, tstate, active, h) /\ Has(L[l], h))
    BY <2>2, <2>3, <2>4, <2>7
  <2>9. ~Has(L[RunQ], h)
    BY <2>2, <2>3, <2>4, <2>8, ListFacts DEF ListsOK, Queued
  <2>10. h \in active /\ R[h] = WAITING
    <3>1. CASE h = t
      BY <3>1, <2>6
    <3>2. CASE h # t
      BY <3>2, <2>2, <2>4, <2>6, <2>8, <2>9, StateFacts DEF Placed, Queued
    <3> QED  BY <3>1, <3>2
  <2>11. ASSUME NEW u \in Threads \ {running} PROVE Placed(M, R, active, u)
    <3>1. CASE u = h
      BY <3>1, <2>5, <2>10, ListFacts, StateFacts DEF Placed, Queued
    <3>2. CASE u # h /\ u = t
      BY <3>2, <2>2, <2>3, <2>4, <2>5, <2>6, StateFacts DEF Placed, Queued
    <3>3. CASE u # h /\ u # t
      <4>1. (Queued(M, u) <=> Queued(L, u)) /\ (Has(M[RunQ], u) <=> Has(L[RunQ], u))
        BY <3>3, <2>3, <2>4, <2>5, ListFacts DEF Queued
      <4> QED  BY <4>1, <3>3, <2>6 DEF Placed
    <3> QED  BY <3>1, <3>2, <3>3
  <2>12. ~Queued(M, running)
    BY <1>1, <2>3, <2>4, <2>5, <2>7 DEF Queued
  <2>13. RunsAt(M, R, P, running, pri, active)
    BY <1>1, <2>5, <2>6, <2>11, <2>12 DEF RunsAt
  <2> QED  BY <2>1, <2>13, PreemptSchedules
<1> QED  BY <1>1, <1>2, <1>3

(* Waking the head of a wait list after a message call has succeeded.       *)
LEMMA WakeSchedules ==
  ASSUME NEW l \in WaitLists,
         RunsAt(list, tstate, tqueue, running, pri, active),
         Highest(list, running, pri),
         WakeHead(l)
  PROVE  Scheduled(pri, active)
<1>1. CASE list[l] = << >>
  BY <1>1 DEF WakeHead, Scheduled, threadVars
<1>2. CASE list[l] # << >>
  <2> DEFINE M == Popped(list, l)
             h == Head(list[l])
  <2>1. StartThread(M, tqueue, h)
    BY <1>2 DEF WakeHead
  <2>2. l \in Lists /\ l # RunQ /\ ListsOK(list, tqueue, pri)
    BY ListFacts DEF RunsAt
  <2>3. /\ ListsOK(M, tqueue, pri)
        /\ h \in Threads /\ Has(list[l], h) /\ ~Queued(M, h)
        /\ \A k \in Lists, u \in Threads : Has(M[k], u) <=> Has(list[k], u) /\ u # h
    BY <1>2, <2>2, PoppedIs
  <2> HIDE DEF M, h
  <2>4. h # running /\ running \in Threads /\ Queued(list, h)
    BY <2>2, <2>3 DEF RunsAt, Queued
  <2>5. ~Has(list[RunQ], h)
    BY <2>2, <2>3, ListFacts DEF ListsOK
  <2>6. h \in active /\ tstate[h] = WAITING
    BY <2>3, <2>4, <2>5, StateFacts DEF Placed, RunsAt
  <2>7. ASSUME NEW u \in Threads \ {running, h} PROVE Placed(M, tstate, active, u)
    <3>1. (Queued(M, u) <=> Queued(list, u)) /\ (Has(M[RunQ], u) <=> Has(list[RunQ], u))
      BY <2>3, ListFacts DEF Queued
    <3> QED  BY <3>1 DEF Placed, RunsAt
  <2>8. ~Queued(M, running)
    BY <2>3, <2>4 DEF RunsAt, Queued
  <2> QED  BY <2>1, <2>3, <2>4, <2>6, <2>7, <2>8, StartSchedules DEF RunsAt
<1> QED  BY <1>1, <1>2

-----------------------------------------------------------------------------
(* The inductive invariant.                                                *)

DataTypes ==
  /\ pri \in [Threads -> Priorities]
  /\ msgs \in Buffers
  /\ pend \in [Threads -> MesgCalls \cup {NoCall, InBind}]
  /\ eventTab \in [Events -> Bindings \cup {NoBinding}]
  /\ shutdown \in BOOLEAN
  /\ preNMI \in BOOLEAN
  /\ causes \in SUBSET Events

Inv ==
  /\ DataTypes
  /\ ListsOK(list, tqueue, pri)
  /\ tstate \in [Threads -> States]
  /\ active \in SUBSET Threads
  /\ running \in active
  /\ k0 \in {NoThread, running}
  /\ tstate[running] = IF k0 = NoThread THEN RUNNING ELSE RUNNABLE
  /\ ~Queued(list, running)
  /\ \A t \in Threads \ {running} : Placed(list, tstate, active, t)
  /\ k0 = NoThread => Highest(list, running, pri)

LEMMA PriNat ==
  ASSUME NEW p \in [Threads -> Priorities]
  PROVE  p \in [Threads -> Nat]
BY KernelAssumption DEF KernelAssumption

(* Storing a list of messages that fits.                                    *)
LEMMA BuffersUpdate ==
  ASSUME NEW f \in Buffers, NEW q \in Queues, NEW s \in Seq(Messages), Len(s) <= Capacity[q]
  PROVE  [f EXCEPT ![q] = s] \in Buffers
<1> DEFINE g == [f EXCEPT ![q] = s]
<1>1. g \in [Queues -> Seq(Messages)] /\ g[q] = s /\ \A r \in Queues : r # q => g[r] = f[r]
  BY DEF Buffers
<1> HIDE DEF g
<1>2. \A r \in Queues : Len(g[r]) <= Capacity[r]
  BY <1>1 DEF Buffers
<1>3. g \in Buffers
  BY <1>1, <1>2 DEF Buffers
<1> QED  BY <1>3 DEF g

LEMMA BufferAppend ==
  ASSUME NEW f \in Buffers, NEW q \in Queues, NEW m \in Messages, Len(f[q]) < Capacity[q]
  PROVE  [f EXCEPT ![q] = Append(@, m)] \in Buffers
<1>1. f[q] \in Seq(Messages) /\ Capacity[q] \in Nat
  BY KernelAssumption DEF Buffers, KernelAssumption
<1>2. Append(f[q], m) \in Seq(Messages) /\ Len(Append(f[q], m)) <= Capacity[q]
  BY <1>1
<1> QED  BY <1>2, BuffersUpdate

(* Outside the exception handler the invariant is exactly that the          *)
(* scheduler has done its work.                                            *)
LEMMA InvRuns ==
  ASSUME Inv, k0 = NoThread
  PROVE  RunsAt(list, tstate, tqueue, running, pri, active) /\ Highest(list, running, pri)
BY DEF Inv, RunsAt

LEMMA ScheduledInv ==
  ASSUME Scheduled(pri', active'), DataTypes', k0' = NoThread
  PROVE  Inv'
BY DEF Scheduled, RunsAt, Inv, Highest, Placed, Queued, ListsOK

(* One evaluation of a message call keeps the types and ends in the         *)
(* scheduler, whether it returns or blocks.                                *)
LEMMA DoCallSchedules ==
  ASSUME Inv, k0 = NoThread, NEW c \in MesgCalls, DoCall(c)
  PROVE  /\ Scheduled(pri, active)
         /\ msgs' \in Buffers
         /\ pend' \in [Threads -> MesgCalls \cup {NoCall, InBind}]
<1>1. /\ c.q \in Queues /\ c.m \in Messages /\ c.op \in {"recv", "send", "jam"}
      /\ Mt(c.q) \in WaitLists /\ Full(c.q) \in WaitLists
  BY ListFacts DEF MesgCalls
<1>2. RunsAt(list, tstate, tqueue, running, pri, active) /\ Highest(list, running, pri)
  BY InvRuns
<1>3. /\ msgs \in Buffers /\ running \in Threads
      /\ pend \in [Threads -> MesgCalls \cup {NoCall, InBind}]
  BY DEF Inv, DataTypes
<1>4. ASSUME NEW l \in WaitLists, BlockOn(c, l)
      PROVE  /\ Scheduled(pri, active)
             /\ msgs' \in Buffers
             /\ pend' \in [Threads -> MesgCalls \cup {NoCall, InBind}]
  <2>1. l \in Lists /\ EnqueueAndYield(list, [tstate EXCEPT ![running] = WAITING], tqueue, l, pri)
    BY <1>4, ListFacts DEF BlockOn
  <2>2. Scheduled(pri, active)
    BY <2>1, <1>2, YieldSchedules
  <2> QED  BY <2>2, <1>3, <1>4 DEF BlockOn
<1>5. Returned \in [Threads -> MesgCalls \cup {NoCall, InBind}]
  BY <1>3 DEF Returned
<1>6. ASSUME RecvMesg(c)
      PROVE  /\ Scheduled(pri, active)
             /\ msgs' \in Buffers
             /\ pend' \in [Threads -> MesgCalls \cup {NoCall, InBind}]
  <2>1. CASE msgs[c.q] = << >>
    BY <2>1, <1>6, <1>4, <1>1 DEF RecvMesg
  <2>2. CASE msgs[c.q] # << >>
    <3>1. msgs[c.q] \in Seq(Messages) /\ Len(msgs[c.q]) <= Capacity[c.q] /\ Capacity[c.q] \in Nat
      BY <1>1, <1>3, KernelAssumption DEF Buffers, KernelAssumption
    <3>2. Tail(msgs[c.q]) \in Seq(Messages) /\ Len(Tail(msgs[c.q])) = Len(msgs[c.q]) - 1
          /\ Len(msgs[c.q]) \in Nat
      BY <2>2, <3>1, HeadTailProperties, LenProperties
    <3>3. [msgs EXCEPT ![c.q] = Tail(@)] \in Buffers
      <4>1. Len(Tail(msgs[c.q])) <= Capacity[c.q]
        BY <3>1, <3>2
      <4> QED  BY <1>1, <1>3, <3>2, <4>1, BuffersUpdate
    <3> QED  BY <3>3, <2>2, <1>6, <1>1, <1>2, <1>3, <1>5, WakeSchedules DEF RecvMesg
  <2> QED  BY <2>1, <2>2
<1>7. ASSUME SendMesg(c)
      PROVE  /\ Scheduled(pri, active)
             /\ msgs' \in Buffers
             /\ pend' \in [Threads -> MesgCalls \cup {NoCall, InBind}]
  <2>1. CASE Len(msgs[c.q]) >= Capacity[c.q]
    BY <2>1, <1>7, <1>4, <1>1 DEF SendMesg
  <2>2. CASE ~(Len(msgs[c.q]) >= Capacity[c.q])
    <3>1. Len(msgs[c.q]) < Capacity[c.q]
      BY <2>2, <1>1, <1>3, KernelAssumption DEF Buffers, KernelAssumption
    <3>2. [msgs EXCEPT ![c.q] = Append(@, c.m)] \in Buffers
      BY <3>1, <1>1, <1>3, BufferAppend
    <3> QED  BY <3>2, <2>2, <1>7, <1>1, <1>2, <1>3, <1>5, WakeSchedules DEF SendMesg
  <2> QED  BY <2>1, <2>2
<1>8. ASSUME JamMesg(c)
      PROVE  /\ Scheduled(pri, active)
             /\ msgs' \in Buffers
             /\ pend' \in [Threads -> MesgCalls \cup {NoCall, InBind}]
  <2>1. CASE Len(msgs[c.q]) >= Capacity[c.q]
    BY <2>1, <1>8, <1>4, <1>1 DEF JamMesg
  <2>2. CASE ~(Len(msgs[c.q]) >= Capacity[c.q])
    <3>1. /\ <<c.m>> \in Seq(Messages) /\ Len(<<c.m>>) = 1
          /\ msgs[c.q] \in Seq(Messages) /\ Len(msgs[c.q]) \in Nat /\ Capacity[c.q] \in Nat
      BY <1>1, <1>3, LenProperties, KernelAssumption DEF Buffers, KernelAssumption
    <3>2. /\ <<c.m>> \o msgs[c.q] \in Seq(Messages)
          /\ Len(<<c.m>> \o msgs[c.q]) <= Capacity[c.q]
      BY <3>1, <2>2, ConcatProperties
    <3>3. [msgs EXCEPT ![c.q] = <<c.m>> \o @] \in Buffers
      BY <3>2, <1>1, <1>3, BuffersUpdate
    <3> QED  BY <3>3, <2>2, <1>8, <1>1, <1>2, <1>3, <1>5, WakeSchedules DEF JamMesg
  <2> QED  BY <2>1, <2>2
<1>9. CASE c.op = "recv"
  BY <1>9, <1>6 DEF DoCall
<1>10. CASE c.op = "send"
  BY <1>10, <1>7 DEF DoCall
<1>11. CASE c.op = "jam"
  BY <1>11, <1>8 DEF DoCall
<1> QED  BY <1>1, <1>9, <1>10, <1>11

(* Posting an event inside the handler moves at most one waiter to the run  *)
(* queue.                                                                  *)
LEMMA PostEventIs ==
  ASSUME Inv, NEW e \in Events, PostEvent(e)
  PROVE  /\ ListsOK(list', tqueue', pri)
         /\ \A u \in Threads : Queued(list', u) <=> Queued(list, u)
         /\ \A u \in Threads : Has(list[RunQ], u) => Has(list'[RunQ], u)
         /\ msgs' \in Buffers
<1> DEFINE b == eventTab[e]
<1>1. ListsOK(list, tqueue, pri) /\ msgs \in Buffers
      /\ b \in Bindings \cup {NoBinding}
  BY DEF Inv, DataTypes
<1>2. CASE ~(b # NoBinding /\ Len(msgs[b.q]) < Capacity[b.q])
  <2>1. UNCHANGED <<msgs, list, tqueue>>
    BY <1>2 DEF PostEvent
  <2>2. msgs' = msgs /\ list' = list /\ tqueue' = tqueue
    BY <2>1
  <2> QED  BY <2>2, <1>1
<1>3. CASE b # NoBinding /\ Len(msgs[b.q]) < Capacity[b.q]
  <2>1. b.q \in Queues /\ b.m \in Messages
    BY <1>1, <1>3 DEF Bindings
  <2>2. msgs' = [msgs EXCEPT ![b.q] = Append(@, b.m)]
    BY <1>3 DEF PostEvent
  <2>4. msgs' \in Buffers
    BY <1>1, <1>3, <2>1, <2>2, BufferAppend
  <2>5. CASE list[Mt(b.q)] = << >>
    BY <2>5, <2>4, <1>1, <1>3 DEF PostEvent
  <2>6. CASE list[Mt(b.q)] # << >>
    <3> DEFINE l == Mt(b.q)
               w == Head(list[l])
               M == Popped(list, l)
               N == Enqueued(M, RunQ, w, pri)
    <3>1. list' = N /\ tqueue' = [tqueue EXCEPT ![w] = RunQ]
      BY <1>3, <2>6 DEF PostEvent
    <3>2. l \in Lists
      BY <2>1, ListFacts
    <3>3. /\ ListsOK(M, tqueue, pri)
          /\ w \in Threads /\ Has(list[l], w) /\ ~Queued(M, w)
          /\ \A k \in Lists, u \in Threads : Has(M[k], u) <=> Has(list[k], u) /\ u # w
      BY <3>2, <2>6, <1>1, PoppedIs
    <3> HIDE DEF l, w, M
    <3>4. /\ ListsOK(N, [tqueue EXCEPT ![w] = RunQ], pri)
          /\ \A k \in Lists, u \in Threads :
               Has(N[k], u) <=> Has(M[k], u) \/ (k = RunQ /\ u = w)
      BY <3>3, EnqueuedIs, ListFacts
    <3> HIDE DEF N
    <3>5. ASSUME NEW u \in Threads
          PROVE  /\ Queued(N, u) <=> Queued(list, u)
                 /\ Has(list[RunQ], u) => Has(N[RunQ], u)
      BY <3>2, <3>3, <3>4, ListFacts DEF Queued
    <3> QED  BY <3>1, <3>4, <3>5, <2>4
  <2> QED  BY <2>5, <2>6
<1> QED  BY <1>2, <1>3

-----------------------------------------------------------------------------

LEMMA InvInit == Init => Inv
<1> SUFFICES ASSUME Init PROVE Inv
  OBVIOUS
<1>1. \A l \in Lists : list[l] = << >> /\ DOMAIN list[l] = {}
  BY EmptySeq, LenProperties DEF Init
<1>2. list \in [Lists -> Seq(Threads)] /\ tqueue \in [Threads -> Lists \cup {NoQ}]
  BY ListFacts DEF Init
<1>3. \A u : ~Queued(list, u)
  BY <1>1 DEF Queued, Has
<1>4. pri \in [Threads -> Priorities] /\ pri \in [Threads -> Nat]
  BY PriNat, KernelAssumption DEF Init, KernelAssumption
<1>5. ListsOK(list, tqueue, pri)
  BY <1>1, <1>2, <1>3, <1>4 DEF ListsOK, Distinct, Descending, Queued
<1>6. DataTypes
  <2>1. << >> \in Seq(Messages) /\ Len(<< >>) = 0
    BY EmptySeq
  <2>2. msgs \in Buffers
    BY <2>1, KernelAssumption DEF Init, Buffers, KernelAssumption
  <2> QED  BY <1>4, <2>2 DEF Init, DataTypes
<1>7. Idle \in Threads /\ active = {Idle} /\ running = Idle /\ k0 = NoThread
      /\ tstate = [t \in Threads |-> IF t = Idle THEN RUNNING ELSE STOPPED]
  BY KernelAssumption DEF Init, KernelAssumption
<1>8. Highest(list, running, pri)
  BY <1>1, ListFacts DEF Highest
<1>9. \A t \in Threads \ {running} : Placed(list, tstate, active, t)
  BY <1>3, <1>7, StateFacts DEF Placed
<1>10. tstate \in [Threads -> States] /\ tstate[running] = RUNNING
  BY <1>7, StateFacts
<1> QED  BY <1>3, <1>5, <1>6, <1>7, <1>8, <1>9, <1>10 DEF Inv

(* Every step of the kernel keeps the invariant: the steps of a thread go   *)
(* through the scheduler lemmas, the handler's through PostEventIs.         *)
LEMMA InvNext ==
  ASSUME WAITING \notin Calls
  PROVE  Inv /\ [Next]_vars => Inv'
<1> SUFFICES ASSUME Inv, [Next]_vars PROVE Inv'
  OBVIOUS
<1> USE ListFacts, StateFacts
<1>1. /\ DataTypes /\ ListsOK(list, tqueue, pri) /\ tstate \in [Threads -> States]
      /\ active \in SUBSET Threads /\ running \in active /\ running \in Threads
      /\ ~Queued(list, running)
      /\ \A t \in Threads \ {running} : Placed(list, tstate, active, t)
      /\ NoThread \notin Threads /\ pri \in [Threads -> Nat]
  BY PriNat, KernelAssumption DEF Inv, DataTypes, KernelAssumption
<1>2. k0 = NoThread =>
        /\ RunsAt(list, tstate, tqueue, running, pri, active)
        /\ Highest(list, running, pri)
        /\ tstate[running] = RUNNING
  BY InvRuns DEF RunsAt
<1>3. k0 # NoThread => k0 = running /\ tstate[running] = RUNNABLE
  BY DEF Inv
<1>4. ASSUME NEW c \in MesgCalls, NEW block \in BOOLEAN, CallMesg(c, block) PROVE Inv'
  <2>1. k0 = NoThread /\ DoCall(c) /\ UNCHANGED <<pri, active, eventVars, excVars>>
    BY <1>4 DEF CallMesg, InThread
  <2>2. /\ Scheduled(pri, active)
        /\ msgs' \in Buffers
        /\ pend' \in [Threads -> MesgCalls \cup {NoCall, InBind}]
    BY <2>1, DoCallSchedules
  <2>3. DataTypes' /\ Scheduled(pri', active') /\ k0' = NoThread
    BY <1>1, <2>1, <2>2 DEF DataTypes, eventVars, excVars
  <2> QED  BY <2>3, ScheduledInv
<1>5. CASE ResumeMesg
  <2>1. /\ k0 = NoThread /\ pend[running] \in MesgCalls
        /\ DoCall(pend[running]) /\ UNCHANGED <<pri, active, eventVars, excVars>>
    BY <1>5, <1>1 DEF ResumeMesg, DataTypes
  <2>2. /\ Scheduled(pri, active)
        /\ msgs' \in Buffers
        /\ pend' \in [Threads -> MesgCalls \cup {NoCall, InBind}]
    BY <2>1, DoCallSchedules
  <2>3. DataTypes' /\ Scheduled(pri', active') /\ k0' = NoThread
    BY <1>1, <2>1, <2>2 DEF DataTypes, eventVars, excVars
  <2> QED  BY <2>3, ScheduledInv
<1>6. CASE OsYieldThread
  <2>1. /\ k0 = NoThread
        /\ EnqueueAndYield(list, [tstate EXCEPT ![running] = RUNNABLE], tqueue, RunQ, pri)
        /\ UNCHANGED <<pri, active, msgs, pend, eventVars, excVars>>
    BY <1>6 DEF OsYieldThread, InThread
  <2>2. Scheduled(pri, active)
    BY <2>1, <1>2, YieldSchedules
  <2>3. DataTypes' /\ Scheduled(pri', active') /\ k0' = NoThread
    BY <1>1, <2>1, <2>2 DEF DataTypes, eventVars, excVars
  <2> QED  BY <2>3, ScheduledInv
<1>7. ASSUME NEW t \in Threads, NEW p \in Priorities, OsCreateThread(t, p) PROVE Inv'
  <2>1. /\ k0 = NoThread /\ t \notin active
        /\ pri' = [pri EXCEPT ![t] = p] /\ tqueue' = [tqueue EXCEPT ![t] = NoQ]
        /\ tstate' = [tstate EXCEPT ![t] = STOPPED] /\ pend' = [pend EXCEPT ![t] = NoCall]
        /\ active' = active \cup {t} /\ list' = list /\ running' = running /\ msgs' = msgs
        /\ UNCHANGED <<eventVars, excVars>>
    BY <1>7 DEF OsCreateThread, InThread
  <2>2. p \in Nat
    BY KernelAssumption DEF KernelAssumption
  <2>3. t # running /\ ~Queued(list, t)
    BY <1>1, <2>1 DEF Placed
  <2>4. ListsOK(list, tqueue, pri')
    BY <1>1, <2>1, <2>2, <2>3, RePrioritized
  <2>5. ListsOK(list', tqueue', pri')
    <3>1. \A l \in Lists, u \in Threads : Has(list[l], u) => u # t /\ tqueue[u] = l
      BY <2>3, <1>1 DEF ListsOK, Queued
    <3>2. tqueue \in [Threads -> Lists \cup {NoQ}]
      BY <1>1 DEF ListsOK
    <3>3. tqueue' \in [Threads -> Lists \cup {NoQ}] /\ \A u \in Threads : u # t => tqueue'[u] = tqueue[u]
      BY <2>1, <3>2
    <3> QED  BY <2>1, <2>4, <3>1, <3>3 DEF ListsOK
  <2>6. tstate' \in [Threads -> States] /\ tstate'[running] = RUNNING
        /\ tstate'[t] = STOPPED /\ \A u \in Threads : u # t => tstate'[u] = tstate[u]
    BY <1>1, <1>2, <2>1, <2>3
  <2>7. ASSUME NEW u \in Threads \ {running} PROVE Placed(list, tstate', active', u)
    BY <1>1, <2>1, <2>3, <2>6 DEF Placed
  <2>8. Highest(list, running, pri')
    <3> SUFFICES ASSUME NEW i \in DOMAIN list[RunQ]
                 PROVE  pri'[list[RunQ][i]] <= pri'[running]
      BY DEF Highest
    <3>1. list[RunQ][i] \in Threads /\ list[RunQ][i] # t
      BY <1>1, <2>3, HasThread DEF ListsOK, Queued, Has
    <3> QED  BY <3>1, <2>1, <2>3, <1>1, <1>2 DEF Highest
  <2>9. DataTypes'
    <3>1. pri' \in [Threads -> Priorities] /\ pend' \in [Threads -> MesgCalls \cup {NoCall, InBind}]
      BY <1>1, <2>1 DEF DataTypes
    <3> QED  BY <1>1, <2>1, <3>1 DEF DataTypes, eventVars, excVars
  <2>10. RunsAt(list', tstate', tqueue', running', pri', active')
    BY <1>1, <2>1, <2>5, <2>6, <2>7 DEF RunsAt
  <2> QED  BY <2>1, <2>8, <2>9, <2>10, ScheduledInv DEF Scheduled, excVars
<1>8. ASSUME NEW t \in Threads, OsStartThread(t) PROVE Inv'
  <2>1. /\ k0 = NoThread /\ t \in active /\ tstate[t] = STOPPED
        /\ StartThread(list, tqueue, t)
        /\ UNCHANGED <<pri, active, msgs, pend, eventVars, excVars>>
    BY <1>8 DEF OsStartThread, InThread
  <2>2. t # running /\ ~Queued(list, t)
    BY <1>1, <1>2, <2>1 DEF Placed
  <2>3. Scheduled(pri, active)
    BY <1>1, <1>2, <2>1, <2>2, StartSchedules
  <2>4. DataTypes' /\ Scheduled(pri', active') /\ k0' = NoThread
    BY <1>1, <2>1, <2>3 DEF DataTypes, eventVars, excVars
  <2> QED  BY <2>4, ScheduledInv
<1>9. ASSUME NEW t \in Threads, OsStopThread(t) PROVE Inv'
  <2>1. /\ k0 = NoThread /\ t \in active
        /\ UNCHANGED <<pri, active, msgs, pend, eventVars, excVars>>
    BY <1>9 DEF OsStopThread, InThread
  <2>2. DataTypes' /\ pri' = pri /\ active' = active /\ k0' = NoThread
    BY <1>1, <2>1 DEF DataTypes, eventVars, excVars
  <2>3. CASE /\ tstate[t] = RUNNING
             /\ EnqueueAndYield(list, [tstate EXCEPT ![running] = STOPPED], tqueue, NoQ, pri)
    <3> DEFINE R == [tstate EXCEPT ![running] = STOPPED]
    <3>1. DispatchThread(list, R, tqueue)
      BY <2>3 DEF EnqueueAndYield
    <3>2. R \in [Threads -> States] /\ R[running] = STOPPED
          /\ \A u \in Threads : u # running => R[u] = tstate[u]
      BY <1>1
    <3> HIDE DEF R
    <3>3. \A u \in Threads : Placed(list, R, active, u)
      BY <1>1, <3>2 DEF Placed
    <3>4. Scheduled(pri, active)
      BY <1>1, <3>1, <3>2, <3>3, DispatchSchedules
    <3> QED  BY <2>2, <3>4, ScheduledInv
  <2>4. CASE /\ tstate[t] \in {RUNNABLE, WAITING}
             /\ list' = Dequeued(list, tqueue[t], t)
             /\ tstate' = [tstate EXCEPT ![t] = STOPPED]
             /\ UNCHANGED <<running, tqueue>>
    <3>1. t # running /\ Queued(list, t)
      BY <1>1, <1>2, <2>1, <2>4 DEF Placed
    <3>2. /\ ListsOK(list', tqueue, pri) /\ ~Queued(list', t)
          /\ \A k \in Lists, u \in Threads : Has(list'[k], u) <=> Has(list[k], u) /\ u # t
      BY <1>1, <2>4, <3>1, DequeuedIs
    <3>3. tstate' \in [Threads -> States] /\ tstate'[t] = STOPPED
          /\ \A u \in Threads : u # t => tstate'[u] = tstate[u]
      BY <1>1, <2>4
    <3>4. ASSUME NEW u \in Threads \ {running} PROVE Placed(list', tstate', active, u)
      <4>1. CASE u = t
        BY <4>1, <3>2, <3>3 DEF Placed
      <4>2. CASE u # t
        <5>1. (Queued(list', u) <=> Queued(list, u)) /\ (Has(list'[RunQ], u) <=> Has(list[RunQ], u))
          BY <4>2, <3>2 DEF Queued
        <5> QED  BY <5>1, <4>2, <3>3, <1>1 DEF Placed
      <4> QED  BY <4>1, <4>2
    <3>5. ~Queued(list', running)
      BY <1>1, <3>2 DEF Queued
    <3>6. RunsAt(list', tstate', tqueue, running, pri, active)
      BY <1>1, <1>2, <2>1, <3>1, <3>2, <3>3, <3>4, <3>5 DEF RunsAt
    <3>7. Highest(list', running, pri)
      <4> SUFFICES ASSUME NEW i \in DOMAIN list'[RunQ]
                   PROVE  pri[list'[RunQ][i]] <= pri[running]
        BY DEF Highest
      <4>1. list'[RunQ][i] \in Threads /\ Has(list'[RunQ], list'[RunQ][i])
        BY <3>2, HasThread DEF ListsOK, Has
      <4>2. Has(list[RunQ], list'[RunQ][i])
        BY <4>1, <3>2
      <4> QED  BY <4>2, <1>2, <2>1 DEF Highest, Has
    <3> QED  BY <2>2, <2>4, <3>6, <3>7, ScheduledInv DEF Scheduled
  <2> QED  BY <1>9, <2>3, <2>4 DEF OsStopThread
<1>10. ASSUME NEW t \in Threads, OsDestroyThread(t) PROVE Inv'
  <2> DEFINE L == IF tstate[t] # STOPPED THEN Dequeued(list, tqueue[t], t) ELSE list
  <2>1. /\ k0 = NoThread /\ t \in active
        /\ active' = active \ {t} /\ pend' = [pend EXCEPT ![t] = NoCall]
        /\ UNCHANGED <<pri, msgs, eventVars, excVars>>
    BY <1>10 DEF OsDestroyThread, InThread
  <2>2. DataTypes' /\ pri' = pri /\ k0' = NoThread
    BY <1>1, <2>1 DEF DataTypes, eventVars, excVars
  <2>3. CASE t = running
    <3>1. L = Dequeued(list, tqueue[t], t) /\ DispatchThread(L, tstate, tqueue)
      BY <1>2, <1>10, <2>1, <2>3 DEF OsDestroyThread
    <3>2. L[RunQ] # << >> /\ list' = Popped(L, RunQ)
      BY <3>1 DEF DispatchThread
    <3>3. L = list
      <4>1. CASE tqueue[t] \in Lists
        <5>1. Unlinked(list[tqueue[t]], t) = list[tqueue[t]]
          BY <1>1, <2>3, <4>1 DEF Unlinked, Queued, Has
        <5> QED  BY <3>1, <4>1, <5>1, <1>1 DEF Dequeued, ListsOK
      <4>2. CASE tqueue[t] \notin Lists
        BY <3>1, <4>2, <1>1 DEF Dequeued, ListsOK
      <4> QED  BY <4>1, <4>2
    <3> HIDE DEF L
    <3>4. \A u \in Threads : Placed(list, tstate, active', u)
      BY <1>1, <2>1, <2>3 DEF Placed
    <3>5. active' \in SUBSET Threads
      BY <1>1, <2>1
    <3>6. Scheduled(pri, active')
      BY <1>1, <3>1, <3>3, <3>4, <3>5, DispatchSchedules
    <3> QED  BY <2>2, <3>6, ScheduledInv
  <2>4. CASE t # running
    <3>1. list' = L /\ UNCHANGED <<running, tstate, tqueue>>
      BY <1>10, <2>4 DEF OsDestroyThread
    <3>2. /\ ListsOK(L, tqueue, pri) /\ ~Queued(L, t)
          /\ \A k \in Lists, u \in Threads : Has(L[k], u) <=> Has(list[k], u) /\ u # t
      <4>1. CASE tstate[t] = STOPPED
        <5>1. L = list /\ ~Queued(list, t)
          BY <4>1, <1>1, <2>1, <2>4 DEF Placed
        <5> QED  BY <5>1, <1>1 DEF Queued
      <4>2. CASE tstate[t] # STOPPED
        <5>1. L = Dequeued(list, tqueue[t], t) /\ Queued(list, t)
          BY <4>2, <1>1, <2>1, <2>4 DEF Placed
        <5> QED  BY <5>1, <1>1, DequeuedIs
      <4> QED  BY <4>1, <4>2
    <3> HIDE DEF L
    <3>3. ASSUME NEW u \in Threads \ {running} PROVE Placed(L, tstate, active', u)
      <4>1. CASE u = t
        BY <4>1, <3>2, <2>1 DEF Placed
      <4>2. CASE u # t
        <5>1. (Queued(L, u) <=> Queued(list, u)) /\ (Has(L[RunQ], u) <=> Has(list[RunQ], u))
          BY <4>2, <3>2 DEF Queued
        <5> QED  BY <5>1, <4>2, <2>1, <1>1 DEF Placed
      <4> QED  BY <4>1, <4>2
    <3>4. ~Queued(L, running)
      BY <1>1, <3>2 DEF Queued
    <3>5. RunsAt(L, tstate, tqueue, running, pri, active')
      BY <1>1, <1>2, <2>1, <2>4, <3>2, <3>3, <3>4 DEF RunsAt
    <3>6. Highest(L, running, pri)
      <4> SUFFICES ASSUME NEW i \in DOMAIN L[RunQ] PROVE pri[L[RunQ][i]] <= pri[running]
        BY DEF Highest
      <4>1. L[RunQ][i] \in Threads /\ Has(L[RunQ], L[RunQ][i])
        BY <3>2, HasThread DEF ListsOK, Has
      <4>2. Has(list[RunQ], L[RunQ][i])
        BY <4>1, <3>2
      <4> QED  BY <4>2, <1>2, <2>1 DEF Highest, Has
    <3> QED  BY <2>2, <3>1, <3>5, <3>6, ScheduledInv DEF Scheduled
  <2> QED  BY <2>3, <2>4
<1>11. ASSUME NEW t \in Threads, NEW p \in Priorities, OsSetThreadPri(t, p) PROVE Inv'
  <2> DEFINE M == Dequeued(list, tqueue[t], t)
             L == IF t # running /\ tstate[t] # STOPPED
                  THEN Enqueued(M, tqueue[t], t, pri')
                  ELSE list
  <2>1. /\ k0 = NoThread /\ t \in active /\ pri' = [pri EXCEPT ![t] = p]
        /\ PreemptOrReturn(L, tstate, tqueue, pri')
        /\ UNCHANGED <<active, msgs, pend, eventVars, excVars>>
    BY <1>11 DEF OsSetThreadPri, InThread
  <2>2. DataTypes' /\ active' = active /\ k0' = NoThread
    BY <1>1, <2>1 DEF DataTypes, eventVars, excVars
  <2>3. p \in Nat
    BY KernelAssumption DEF KernelAssumption
  <2>4. /\ ListsOK(L, tqueue, pri')
        /\ \A k \in Lists, u \in Threads : Has(L[k], u) <=> Has(list[k], u)
    <3>1. CASE t # running /\ tstate[t] # STOPPED
      <4>1. Queued(list, t)
        BY <3>1, <1>1, <2>1 DEF Placed
      <4>2. /\ tqueue[t] \in Lists /\ ListsOK(M, tqueue, pri) /\ ~Queued(M, t)
            /\ \A k \in Lists, u \in Threads : Has(M[k], u) <=> Has(list[k], u) /\ u # t
        BY <4>1, <1>1, DequeuedIs
      <4> HIDE DEF M
      <4>3. ListsOK(M, tqueue, pri')
        BY <4>2, <2>1, <2>3, RePrioritized
      <4>4. L = Enqueued(M, tqueue[t], t, pri')
        BY <3>1
      <4>5. [tqueue EXCEPT ![t] = tqueue[t]] = tqueue
        BY <1>1 DEF ListsOK
      <4> HIDE DEF L
      <4>6. /\ ListsOK(L, tqueue, pri')
            /\ \A k \in Lists, u \in Threads :
                 Has(L[k], u) <=> Has(M[k], u) \/ (k = tqueue[t] /\ u = t)
        BY <4>2, <4>3, <4>4, <4>5, EnqueuedIs
      <4>7. \A k \in Lists : Has(list[k], t) <=> k = tqueue[t]
        BY <4>1, <1>1 DEF ListsOK, Queued
      <4> QED  BY <4>2, <4>6, <4>7
    <3>2. CASE ~(t # running /\ tstate[t] # STOPPED)
      <4>1. L = list /\ ~Queued(list, t)
        BY <3>2, <1>1, <2>1 DEF Placed
      <4> HIDE DEF L
      <4> QED  BY <4>1, <1>1, <2>1, <2>3, RePrioritized
    <3> QED  BY <3>1, <3>2
  <2> HIDE DEF L
  <2>5. ASSUME NEW u \in Threads PROVE Queued(L, u) <=> Queued(list, u)
    BY <2>4 DEF Queued
  <2>6. ASSUME NEW u \in Threads \ {running} PROVE Placed(L, tstate, active, u)
    BY <2>4, <2>5, <1>1 DEF Placed
  <2>7. RunsAt(L, tstate, tqueue, running, pri', active)
    BY <1>1, <1>2, <2>1, <2>4, <2>5, <2>6 DEF RunsAt
  <2>8. Scheduled(pri', active)
    BY <2>1, <2>7, PreemptSchedules
  <2> QED  BY <2>2, <2>8, ScheduledInv
<1>12. ASSUME NEW e \in Events, NEW b \in Bindings, OsSetEventMesg(e, b) PROVE Inv'
  <2>1. /\ k0 = NoThread /\ eventTab' = [eventTab EXCEPT ![e] = b]
        /\ UNCHANGED <<pri, active, shutdown, excVars>>
    BY <1>12 DEF OsSetEventMesg, InThread
  <2>2. eventTab' \in [Events -> Bindings \cup {NoBinding}]
    BY <1>1, <2>1 DEF DataTypes
  <2>3. preNMI' \in BOOLEAN /\ pend' \in [Threads -> MesgCalls \cup {NoCall, InBind}]
    BY <1>1, <1>12 DEF OsSetEventMesg, DataTypes
  <2>4. CASE UNCHANGED <<threadVars, msgs>>
    <3>1. DataTypes' /\ k0' = NoThread
      BY <1>1, <2>1, <2>2, <2>3, <2>4 DEF DataTypes, excVars
    <3>2. Scheduled(pri', active')
      BY <1>2, <2>1, <2>4 DEF Scheduled, threadVars
    <3> QED  BY <3>1, <3>2, ScheduledInv
  <2>5. CASE /\ Len(msgs[b.q]) < Capacity[b.q]
             /\ msgs' = [msgs EXCEPT ![b.q] = Append(@, b.m)]
             /\ WakeHead(Mt(b.q))
    <3>1. b.q \in Queues /\ b.m \in Messages /\ Mt(b.q) \in WaitLists
      BY ListFacts DEF Bindings
    <3>2. msgs' \in Buffers
      BY <1>1, <2>5, <3>1, BufferAppend DEF DataTypes
    <3>3. Scheduled(pri, active)
      BY <1>2, <2>1, <2>5, <3>1, WakeSchedules
    <3>4. DataTypes' /\ Scheduled(pri', active') /\ k0' = NoThread
      BY <1>1, <2>1, <2>2, <2>3, <3>2, <3>3 DEF DataTypes, excVars
    <3> QED  BY <3>4, ScheduledInv
  <2> QED  BY <1>12, <2>4, <2>5 DEF OsSetEventMesg
<1>20. CASE FinishBind
  <2>1. /\ k0 = NoThread /\ preNMI' = TRUE /\ pend' = Returned
        /\ UNCHANGED <<threadVars, pri, active, msgs, eventTab, shutdown, excVars>>
    BY <1>20 DEF FinishBind
  <2>2. DataTypes' /\ k0' = NoThread
    BY <1>1, <2>1 DEF DataTypes, excVars, Returned
  <2>3. Scheduled(pri', active')
    BY <1>2, <2>1 DEF Scheduled, threadVars
  <2> QED  BY <2>2, <2>3, ScheduledInv
<1>13. ASSUME NEW S \in SUBSET Events, ExceptionEntry(S) PROVE Inv'
  <2>1. /\ k0 = NoThread /\ k0' = running /\ causes' = S
        /\ tstate' = [tstate EXCEPT ![running] = RUNNABLE]
        /\ UNCHANGED <<list, running, tqueue, pri, active, msgs, pend, eventVars>>
    BY <1>13 DEF ExceptionEntry, InThread
  <2>2. DataTypes'
    BY <1>1, <2>1 DEF DataTypes, eventVars
  <2>3. tstate' \in [Threads -> States] /\ tstate'[running] = RUNNABLE
        /\ \A u \in Threads : u # running => tstate'[u] = tstate[u]
    BY <1>1, <2>1
  <2>4. \A u \in Threads \ {running} : Placed(list, tstate', active, u)
    BY <1>1, <2>3 DEF Placed
  <2> QED  BY <1>1, <2>1, <2>2, <2>3, <2>4 DEF Inv
<1>14. ASSUME NEW e \in Events, k0 # NoThread, PostEvent(e), causes' \in SUBSET Events,
              shutdown' \in BOOLEAN,
              UNCHANGED <<running, tstate, pri, active, pend, eventTab, preNMI, k0>>
       PROVE  Inv'
  <2>1. /\ ListsOK(list', tqueue', pri)
        /\ \A u \in Threads : Queued(list', u) <=> Queued(list, u)
        /\ \A u \in Threads : Has(list[RunQ], u) => Has(list'[RunQ], u)
        /\ msgs' \in Buffers
    BY <1>14, PostEventIs
  <2>2. DataTypes'
    BY <1>1, <1>14, <2>1 DEF DataTypes
  <2>3. \A u \in Threads \ {running} : Placed(list', tstate, active, u)
    BY <1>1, <2>1 DEF Placed
  <2> QED  BY <1>1, <1>3, <1>14, <2>1, <2>2, <2>3 DEF Inv
<1>15. ASSUME NEW e \in Events, ServeCause(e) PROVE Inv'
  <2>1. causes' \in SUBSET Events /\ shutdown' \in BOOLEAN
    BY <1>1, <1>15 DEF ServeCause, DataTypes, eventVars
  <2> QED  BY <1>14, <1>15, <2>1 DEF ServeCause, eventVars
<1>16. CASE ServePreNmi
  <2>1. /\ k0 # NoThread /\ shutdown' = TRUE /\ causes' = {}
        /\ UNCHANGED <<running, tstate, pri, active, pend, eventTab, preNMI, k0>>
    BY <1>16 DEF ServePreNmi
  <2>2. CASE shutdown
    <3>1. UNCHANGED <<msgs, list, tqueue>>
      BY <1>16, <2>2 DEF ServePreNmi
    <3>2. DataTypes'
      BY <1>1, <2>1, <3>1 DEF DataTypes
    <3> QED  BY <1>1, <1>3, <2>1, <3>1, <3>2 DEF Inv
  <2>3. CASE ~shutdown
    <3>1. PostEvent("prenmi") /\ "prenmi" \in Events
      BY <1>1, <1>16, <2>3 DEF ServePreNmi, IsNextCause, DataTypes
    <3> QED  BY <1>14, <2>1, <3>1
  <2> QED  BY <2>2, <2>3
<1>17. CASE Redispatch
  <2>1. /\ k0 # NoThread /\ k0 = running /\ tstate[running] = RUNNABLE /\ k0' = NoThread
        /\ UNCHANGED <<pri, active, msgs, pend, eventVars, causes>>
    BY <1>3, <1>17 DEF Redispatch
  <2>2. DataTypes'
    BY <1>1, <2>1 DEF DataTypes, eventVars
  <2>3. CASE list[RunQ] = << >> \/ pri[k0] >= pri[Head(list[RunQ])]
    <3>1. /\ running' = k0 /\ tstate' = [tstate EXCEPT ![k0] = RUNNING]
          /\ list' = list /\ tqueue' = tqueue
      BY <1>17, <2>3 DEF Redispatch
    <3>2. tstate' \in [Threads -> States] /\ tstate'[running] = RUNNING
          /\ \A u \in Threads : u # running => tstate'[u] = tstate[u]
      BY <1>1, <2>1, <3>1
    <3>3. \A u \in Threads \ {running} : Placed(list, tstate', active, u)
      BY <1>1, <3>2 DEF Placed
    <3>4. RunsAt(list', tstate', tqueue', running', pri, active)
      BY <1>1, <2>1, <3>1, <3>2, <3>3 DEF RunsAt
    <3>5. ASSUME NEW i \in DOMAIN list[RunQ] PROVE pri[list[RunQ][i]] <= pri[running]
      <4>1. list[RunQ] \in Seq(Threads) /\ Descending(list[RunQ], pri)
        BY <1>1 DEF ListsOK
      <4>2. list[RunQ] # << >> /\ list[RunQ][i] \in Threads /\ Head(list[RunQ]) = list[RunQ][1]
        BY <4>1, HeadTailProperties, LenProperties, ElementOfSeq
      <4>3. /\ Head(list[RunQ]) \in Threads
            /\ i = 1 \/ pri[Head(list[RunQ])] >= pri[list[RunQ][i]]
        BY <4>1, <4>2, TailIs
      <4> QED  BY <4>2, <4>3, <2>1, <2>3, <1>1
    <3>6. Highest(list', running', pri)
      BY <3>1, <3>5, <2>1 DEF Highest
    <3> QED  BY <2>1, <2>2, <3>4, <3>6, ScheduledInv DEF Scheduled
  <2>4. CASE ~(list[RunQ] = << >> \/ pri[k0] >= pri[Head(list[RunQ])])
    <3> DEFINE L == Enqueued(list, RunQ, running, pri)
    <3>1. DispatchThread(L, tstate, [tqueue EXCEPT ![running] = RunQ])
      BY <1>17, <2>1, <2>4 DEF Redispatch
    <3>2. /\ ListsOK(L, [tqueue EXCEPT ![running] = RunQ], pri)
          /\ \A k \in Lists, u \in Threads :
               Has(L[k], u) <=> Has(list[k], u) \/ (k = RunQ /\ u = running)
      <4>1. RunQ \in Lists /\ running \in Threads /\ ListsOK(list, tqueue, pri)
            /\ ~Queued(list, running)
        BY <1>1
      <4> QED  BY <4>1, EnqueuedIs
    <3> HIDE DEF L
    <3>3. ASSUME NEW u \in Threads PROVE Placed(L, tstate, active, u)
      <4>1. CASE u = running
        <5>1. Has(L[RunQ], u) /\ Queued(L, u)
          BY <4>1, <3>2 DEF Queued
        <5> QED  BY <5>1, <4>1, <2>1, <1>1 DEF Placed
      <4>2. CASE u # running
        <5>1. (Queued(L, u) <=> Queued(list, u)) /\ (Has(L[RunQ], u) <=> Has(list[RunQ], u))
          BY <4>2, <3>2 DEF Queued
        <5> QED  BY <5>1, <4>2, <1>1 DEF Placed
      <4> QED  BY <4>1, <4>2
    <3>4. Scheduled(pri, active)
      BY <1>1, <3>1, <3>2, <3>3, DispatchSchedules
    <3> QED  BY <2>1, <2>2, <3>4, ScheduledInv
  <2> QED  BY <2>3, <2>4
<1>18. CASE Panic
  <2> DEFINE b == eventTab["fault"]
             post == b # NoBinding /\ Len(msgs[b.q]) < Capacity[b.q]
             wakes == post /\ list[Mt(b.q)] # << >>
             w == Head(list[Mt(b.q)])
             S == [tstate EXCEPT ![running] = STOPPED]
             M == Popped(list, Mt(b.q))
             L == Enqueued(M, RunQ, w, pri)
  <2>1. /\ k0 # NoThread /\ k0 = running /\ k0' = NoThread /\ causes' = {}
        /\ "fault" \in Events
        /\ UNCHANGED <<pri, active, pend, eventVars>>
    BY <1>1, <1>3, <1>18 DEF Panic, DataTypes
  <2>2. b \in Bindings \cup {NoBinding} /\ msgs \in Buffers
    BY <1>1, <2>1 DEF DataTypes
  <2>3. post => b.q \in Queues /\ b.m \in Messages
    BY <2>2 DEF Bindings
  <2>4. msgs' = IF post THEN [msgs EXCEPT ![b.q] = Append(@, b.m)] ELSE msgs
    BY <1>18 DEF Panic
  <2>5. msgs' \in Buffers
    <3>1. CASE post
      BY <2>2, <2>3, <2>4, <3>1, BufferAppend
    <3>2. CASE ~post
      BY <2>2, <2>4, <3>2
    <3> QED  BY <3>1, <3>2
  <2>6. DataTypes'
    BY <1>1, <2>1, <2>5 DEF DataTypes, eventVars
  <2>7. S \in [Threads -> States] /\ S[running] = STOPPED
        /\ \A u \in Threads : u # running => S[u] = tstate[u]
    BY <1>1
  <2>8. CASE wakes
    <3>1. DispatchThread(L, S, [tqueue EXCEPT ![w] = RunQ])
      BY <1>18, <2>1, <2>8 DEF Panic
    <3>2. Mt(b.q) \in Lists /\ list[Mt(b.q)] # << >>
      BY <2>3, <2>8
    <3>3. /\ ListsOK(M, tqueue, pri)
          /\ w \in Threads /\ ~Queued(M, w) /\ Has(list[Mt(b.q)], w)
          /\ \A k \in Lists, u \in Threads : Has(M[k], u) <=> Has(list[k], u) /\ u # w
      BY <1>1, <3>2, PoppedIs
    <3> HIDE DEF S, M, w
    <3>4. /\ ListsOK(L, [tqueue EXCEPT ![w] = RunQ], pri)
          /\ \A k \in Lists, u \in Threads :
               Has(L[k], u) <=> Has(M[k], u) \/ (k = RunQ /\ u = w)
      BY <3>3, EnqueuedIs
    <3> HIDE DEF L
    <3>5. ASSUME NEW u \in Threads
          PROVE  /\ Queued(L, u) <=> Queued(list, u)
                 /\ Has(list[RunQ], u) => Has(L[RunQ], u)
      BY <3>2, <3>3, <3>4 DEF Queued
    <3>6. ASSUME NEW u \in Threads PROVE Placed(L, S, active, u)
      <4>1. CASE u = running
        BY <4>1, <3>5, <2>7, <1>1 DEF Placed
      <4>2. CASE u # running
        BY <4>2, <3>5, <2>7, <1>1 DEF Placed
      <4> QED  BY <4>1, <4>2
    <3>7. Scheduled(pri, active)
      BY <1>1, <2>7, <3>1, <3>4, <3>6, DispatchSchedules
    <3> QED  BY <2>1, <2>6, <3>7, ScheduledInv
  <2>9. CASE ~wakes
    <3>1. DispatchThread(list, S, tqueue)
      BY <1>18, <2>1, <2>9 DEF Panic
    <3> HIDE DEF S
    <3>2. ASSUME NEW u \in Threads PROVE Placed(list, S, active, u)
      <4>1. CASE u = running
        BY <4>1, <2>7, <1>1 DEF Placed
      <4>2. CASE u # running
        BY <4>2, <2>7, <1>1 DEF Placed
      <4> QED  BY <4>1, <4>2
    <3>3. Scheduled(pri, active)
      BY <1>1, <2>7, <3>1, <3>2, DispatchSchedules
    <3> QED  BY <2>1, <2>6, <3>3, ScheduledInv
  <2> QED  BY <2>8, <2>9
<1>19. CASE UNCHANGED vars
  BY <1>19 DEF vars, threadVars, eventVars, excVars, Inv, DataTypes, ListsOK, Placed, Queued,
     Highest
<1> QED
  BY <1>4, <1>5, <1>6, <1>7, <1>8, <1>9, <1>10, <1>11, <1>12, <1>13, <1>15, <1>16, <1>17,
     <1>18, <1>19, <1>20 DEF Next

-----------------------------------------------------------------------------
(* The theorems.  They are about programs that leave the start of a WAITING *)
(* thread to the library, as every program of this repository does; the    *)
(* run kernel_wakestart shows that without it the lists do get entangled.  *)

THEOREM KernelInvariant ==
  ASSUME WAITING \notin Calls
  PROVE  Spec => []Inv
<1>1. Init => Inv
  BY InvInit
<1>2. Inv /\ [Next]_vars => Inv'
  BY InvNext
<1> QED  BY <1>1, <1>2, PTL DEF Spec

(* Every variable of the kernel keeps its type.                             *)
THEOREM KernelTypes ==
  ASSUME WAITING \notin Calls
  PROVE  Spec => []TypeOK
<1>1. Inv => TypeOK
  <2> SUFFICES ASSUME Inv PROVE TypeOK
    OBVIOUS
  <2>1. running \in Threads /\ k0 \in Threads \cup {NoThread}
    BY DEF Inv
  <2> QED  BY <2>1 DEF Inv, DataTypes, ListsOK, TypeOK
<1> QED  BY <1>1, KernelInvariant, PTL

(* The intrusive links are never shared: no thread is ever on two lists, or *)
(* twice on one, and its queue field names the list it is on, so            *)
(* __osDequeueThread always finds the thread it is asked to unlink.        *)
THEOREM KernelLists ==
  ASSUME WAITING \notin Calls
  PROVE  Spec => []OnOneList
<1>1. Inv => OnOneList
  <2> SUFFICES ASSUME Inv, NEW l \in Lists, NEW i \in DOMAIN list[l]
               PROVE  /\ tqueue[list[l][i]] = l
                      /\ \A j \in DOMAIN list[l] : list[l][i] = list[l][j] => i = j
    BY DEF OnOneList
  <2>1. list[l] \in Seq(Threads) /\ Distinct(list[l]) /\ Has(list[l], list[l][i])
    BY DEF Inv, ListsOK, Has
  <2>2. list[l][i] \in Threads
    BY <2>1, HasThread
  <2> QED  BY <2>1, <2>2 DEF Inv, ListsOK, Distinct
<1> QED  BY <1>1, KernelInvariant, PTL

(* The state field of every thread agrees with the list it is on.           *)
THEOREM KernelStates ==
  ASSUME WAITING \notin Calls
  PROVE  Spec => []StatesAgree
<1>1. Inv => StatesAgree
  <2> SUFFICES ASSUME Inv PROVE StatesAgree
    OBVIOUS
  <2>1. \A t, l : On(t, l) <=> Has(list[l], t)
    BY DEF On, Has
  <2>2. \A t : (\E l \in Lists : On(t, l)) <=> Queued(list, t)
    BY <2>1 DEF Queued
  <2>3. \A l \in Lists : ~On(running, l)
    BY <2>2 DEF Inv
  <2>4. ASSUME NEW t \in Threads \ {running}
        PROVE  LET s == IF t \in active THEN tstate[t] ELSE STOPPED
               IN  /\ s # RUNNING
                   /\ s \in {RUNNABLE, WAITING} <=> \E l \in Lists : On(t, l)
                   /\ s = RUNNABLE => On(t, RunQ)
    BY <2>1, <2>2 DEF Inv, Placed
  <2> QED  BY <2>3, <2>4 DEF Inv, StatesAgree
<1> QED  BY <1>1, KernelInvariant, PTL

(* Every list stays in priority order, across changes of priority too.      *)
THEOREM KernelSorted ==
  ASSUME WAITING \notin Calls
  PROVE  Spec => []Sorted
<1>1. Inv => Sorted
  BY DEF Inv, ListsOK, Descending, Sorted
<1> QED  BY <1>1, KernelInvariant, PTL

(* Whenever a thread runs its own code, no ready thread outranks it.        *)
THEOREM KernelHighestRuns ==
  ASSUME WAITING \notin Calls
  PROVE  Spec => []HighestRuns
<1>1. Inv => HighestRuns
  BY DEF Inv, Highest, HighestRuns
<1> QED  BY <1>1, KernelInvariant, PTL

(* An interrupt returns to the thread it interrupted unless one of strictly *)
(* higher priority is ready (redispatch, enqueueRunning).                   *)
THEOREM KernelPreemption ==
  ASSUME WAITING \notin Calls
  PROVE  Spec => InterruptPreemption
<1> DEFINE Keeps == k0 # NoThread /\ k0' = NoThread /\ "fault" \notin causes =>
                      running' = k0 \/ pri[running'] > pri[k0]
<1>1. Inv /\ [Next]_vars => [Keeps]_vars
  <2> SUFFICES ASSUME Inv, Next, k0 # NoThread, k0' = NoThread, "fault" \notin causes
               PROVE  running' = k0 \/ pri[running'] > pri[k0]
    OBVIOUS
  <2>1. Redispatch
    BY DEF Next, CallMesg, ResumeMesg, OsYieldThread, OsCreateThread, OsStartThread,
       OsStopThread, OsDestroyThread, OsSetThreadPri, OsSetEventMesg, FinishBind,
       ExceptionEntry, ServeCause, ServePreNmi, Panic, InThread
  <2>2. /\ k0 = running /\ running \in Threads /\ ListsOK(list, tqueue, pri)
        /\ ~Queued(list, running) /\ pri \in [Threads -> Nat]
    BY DEF Inv, ListsOK
  <2>3. CASE list[RunQ] = << >> \/ pri[k0] >= pri[Head(list[RunQ])]
    BY <2>1, <2>3 DEF Redispatch
  <2>4. CASE ~(list[RunQ] = << >> \/ pri[k0] >= pri[Head(list[RunQ])])
    <3> DEFINE h == Head(list[RunQ])
               L == Enqueued(list, RunQ, running, pri)
    <3>1. running' = Head(L[RunQ])
      BY <2>1, <2>2, <2>4 DEF Redispatch, DispatchThread
    <3>2. h \in Threads /\ Has(list[RunQ], h)
      BY <2>2, <2>4, ListFacts, TailIs DEF ListsOK
    <3>3. /\ ListsOK(L, [tqueue EXCEPT ![running] = RunQ], pri) /\ L[RunQ] # << >>
          /\ \A u \in Threads : Has(L[RunQ], u) <=> Has(list[RunQ], u) \/ u = running
      BY <2>2, ListFacts, EnqueuedIs
    <3>4. pri[h] > pri[k0]
      BY <2>2, <2>4, <3>2
    <3> HIDE DEF h, L
    <3>5. /\ L[RunQ] \in Seq(Threads) /\ Descending(L[RunQ], pri) /\ Has(L[RunQ], h)
      BY <3>2, <3>3, ListFacts DEF ListsOK
    <3>6. PICK i \in DOMAIN L[RunQ] : L[RunQ][i] = h
      BY <3>5 DEF Has
    <3>7. /\ Head(L[RunQ]) \in Threads /\ L[RunQ][1] = Head(L[RunQ])
          /\ i = 1 \/ pri[Head(L[RunQ])] >= pri[L[RunQ][i]]
      BY <3>3, <3>5, <3>6, TailIs, HeadTailProperties
    <3>8. pri[Head(L[RunQ])] >= pri[h]
      <4>1. pri[Head(L[RunQ])] \in Nat /\ pri[h] \in Nat
        BY <2>2, <3>2, <3>7
      <4> QED  BY <4>1, <3>6, <3>7
    <3>9. pri[Head(L[RunQ])] > pri[k0]
      BY <2>2, <3>2, <3>4, <3>7, <3>8
    <3> QED  BY <3>1, <3>9
  <2> QED  BY <2>3, <2>4
<1>2. Spec => [][Keeps]_vars
  BY <1>1, KernelInvariant, PTL DEF Spec
<1> QED  BY <1>2 DEF InterruptPreemption

-----------------------------------------------------------------------------
(* What the scheduler does to the wait lists and the queue fields.         *)

LEMMA DispatchMoves ==
  ASSUME NEW L, NEW S, NEW Q, NEW prio, ListsOK(L, Q, prio), DispatchThread(L, S, Q)
  PROVE  /\ tqueue' = Q
         /\ running' \in Threads /\ Q[running'] = RunQ
         /\ \A k \in WaitLists : list'[k] = L[k]
<1>1. /\ L[RunQ] # << >> /\ list' = Popped(L, RunQ) /\ running' = Head(L[RunQ])
      /\ tqueue' = Q
  BY DEF DispatchThread
<1>2. Head(L[RunQ]) \in Threads /\ Has(L[RunQ], Head(L[RunQ]))
  BY <1>1, PoppedIs, ListFacts
<1>3. L \in [Lists -> Seq(Threads)] /\ \A u \in Threads : Has(L[RunQ], u) => Q[u] = RunQ
  BY ListFacts DEF ListsOK
<1>4. \A k \in WaitLists : list'[k] = L[k]
  BY <1>1, <1>3, ListFacts DEF Popped
<1> QED  BY <1>1, <1>2, <1>3, <1>4

LEMMA YieldMoves ==
  ASSUME NEW L, NEW S, NEW Q, NEW l \in Lists, NEW prio,
         ListsOK(L, Q, prio), running \in Threads, ~Queued(L, running),
         EnqueueAndYield(L, S, Q, l, prio)
  PROVE  /\ tqueue' = [Q EXCEPT ![running] = l]
         /\ running' \in Threads /\ tqueue'[running'] = RunQ
         /\ \A k \in WaitLists \ {l} : list'[k] = L[k]
<1> DEFINE M == Enqueued(L, l, running, prio)
           P == [Q EXCEPT ![running] = l]
<1>1. DispatchThread(M, S, P)
  BY ListFacts DEF EnqueueAndYield
<1>2. ListsOK(M, P, prio)
  BY EnqueuedIs
<1>3. \A k \in WaitLists \ {l} : M[k] = L[k]
  BY ListFacts DEF Enqueued, ListsOK
<1> HIDE DEF M, P
<1>4. /\ tqueue' = P /\ running' \in Threads /\ P[running'] = RunQ
      /\ \A k \in WaitLists : list'[k] = M[k]
  BY <1>1, <1>2, DispatchMoves
<1>5. QED
  BY <1>3, <1>4 DEF P

LEMMA PreemptMoves ==
  ASSUME NEW L, NEW S, NEW Q, NEW prio,
         ListsOK(L, Q, prio), running \in Threads, ~Queued(L, running), Q[running] = RunQ,
         PreemptOrReturn(L, S, Q, prio)
  PROVE  /\ tqueue' = Q
         /\ running' \in Threads /\ Q[running'] = RunQ
         /\ \A k \in WaitLists : list'[k] = L[k]
<1>1. CASE L[RunQ] # << >> /\ prio[running] < prio[Head(L[RunQ])]
  <2> DEFINE R == [S EXCEPT ![running] = RUNNABLE]
  <2>1. EnqueueAndYield(L, R, Q, RunQ, prio)
    BY <1>1 DEF PreemptOrReturn
  <2> HIDE DEF R
  <2>2. [Q EXCEPT ![running] = RunQ] = Q
    BY DEF ListsOK
  <2>3. RunQ \in Lists /\ \A k \in WaitLists : k # RunQ
    BY ListFacts
  <2>4. /\ tqueue' = [Q EXCEPT ![running] = RunQ]
        /\ running' \in Threads /\ tqueue'[running'] = RunQ
        /\ \A k \in WaitLists \ {RunQ} : list'[k] = L[k]
    BY <2>1, <2>3, YieldMoves
  <2> QED  BY <2>2, <2>3, <2>4
<1>2. CASE ~(L[RunQ] # << >> /\ prio[running] < prio[Head(L[RunQ])])
  BY <1>2 DEF PreemptOrReturn
<1> QED  BY <1>1, <1>2

(* One element put on an empty list and taken off again leaves it empty.    *)
LEMMA TailOfOne ==
  ASSUME NEW t \in Threads, NEW prio \in [Threads -> Nat]
  PROVE  Tail(InsertThread(<< >>, t, prio)) = << >>
<1> DEFINE r == InsertThread(<< >>, t, prio)
<1>1. << >> \in Seq(Threads) /\ Len(<< >>) = 0
  BY EmptySeq
<1>2. DOMAIN r = 1 .. 1
  BY <1>1 DEF InsertThread
<1>3. r \in Seq(Threads) /\ r # << >>
  BY <1>1, InsertThreadIs
<1> HIDE DEF r
<1>4. Len(r) = 1
  BY <1>2, <1>3, LenProperties
<1>5. Tail(r) \in Seq(Threads) /\ Len(Tail(r)) = 0
  BY <1>3, <1>4, HeadTailProperties
<1>6. Tail(r) = << >>
  BY <1>5, EmptySeq
<1> QED  BY <1>6 DEF r

(* osStartThread of a thread t that is on no list: some thread is moved to  *)
(* the run queue, t itself unless it was stopped while it waited.          *)
LEMMA StartMoves ==
  ASSUME NEW L, NEW t \in Threads,
         ListsOK(L, tqueue, pri), running \in Threads, ~Queued(L, running),
         tqueue[running] = RunQ, t # running, ~Queued(L, t),
         tstate[t] \in {WAITING, STOPPED}, StartThread(L, tqueue, t)
  PROVE  /\ \E h \in Threads :
              /\ tqueue' = [tqueue EXCEPT ![h] = RunQ]
              /\ tstate[t] = WAITING => h = t
         /\ running' \in Threads /\ tqueue'[running'] = RunQ
         /\ \A k \in WaitLists : list'[k] # << >> => L[k] # << >>
<1>1. tqueue \in [Threads -> Lists \cup {NoQ}] /\ pri \in [Threads -> Nat]
      /\ L \in [Lists -> Seq(Threads)]
  BY DEF ListsOK
<1>2. CASE tstate[t] = WAITING \/ (tstate[t] = STOPPED /\ tqueue[t] \in {NoQ, RunQ})
  <2> DEFINE M == Enqueued(L, RunQ, t, pri)
             P == [tqueue EXCEPT ![t] = RunQ]
  <2>1. PreemptOrReturn(M, [tstate EXCEPT ![t] = RUNNABLE], P, pri)
    BY <1>2 DEF StartThread
  <2>2. /\ ListsOK(M, P, pri)
        /\ \A k \in Lists, u \in Threads :
             Has(M[k], u) <=> Has(L[k], u) \/ (k = RunQ /\ u = t)
    BY EnqueuedIs, ListFacts
  <2>3. ~Queued(M, running) /\ P[running] = RunQ
    BY <1>1, <2>2 DEF Queued
  <2>4. \A k \in WaitLists : M[k] = L[k]
    BY <1>1, ListFacts DEF Enqueued
  <2> HIDE DEF M, P
  <2>5. /\ tqueue' = P /\ running' \in Threads /\ P[running'] = RunQ
        /\ \A k \in WaitLists : list'[k] = M[k]
    BY <2>1, <2>2, <2>3, PreemptMoves
  <2> QED  BY <2>4, <2>5 DEF P
<1>3. CASE tstate[t] = STOPPED /\ tqueue[t] \notin {NoQ, RunQ}
  <2> DEFINE l == tqueue[t]
             L1 == Enqueued(L, l, t, pri)
             h == Head(L1[l])
             L2 == Popped(L1, l)
             M == Enqueued(L2, RunQ, h, pri)
             P == [tqueue EXCEPT ![h] = RunQ]
  <2>1. PreemptOrReturn(M, [tstate EXCEPT ![t] = WAITING], P, pri)
    BY <1>3, StateFacts DEF StartThread
  <2>2. l \in Lists /\ l # RunQ /\ [tqueue EXCEPT ![t] = l] = tqueue
    BY <1>1, <1>3
  <2>3. /\ ListsOK(L1, tqueue, pri) /\ L1[l] # << >>
        /\ \A k \in Lists, u \in Threads :
             Has(L1[k], u) <=> Has(L[k], u) \/ (k = l /\ u = t)
    BY <1>1, <2>2, EnqueuedIs
  <2>4. L1 = [L EXCEPT ![l] = InsertThread(L[l], t, pri)]
    BY DEF Enqueued
  <2> HIDE DEF L1
  <2>5. /\ ListsOK(L2, tqueue, pri)
        /\ h \in Threads /\ Has(L1[l], h) /\ ~Queued(L2, h)
        /\ \A k \in Lists, u \in Threads : Has(L2[k], u) <=> Has(L1[k], u) /\ u # h
    BY <2>2, <2>3, PoppedIs
  <2>6. L2 = [L1 EXCEPT ![l] = Tail(L1[l])]
    BY DEF Popped
  <2> HIDE DEF L2, h
  <2>7. /\ ListsOK(M, P, pri)
        /\ \A k \in Lists, u \in Threads :
             Has(M[k], u) <=> Has(L2[k], u) \/ (k = RunQ /\ u = h)
    <3>1. RunQ \in Lists
      BY ListFacts
    <3>2. h \in Threads /\ ListsOK(L2, tqueue, pri) /\ ~Queued(L2, h)
      BY <2>5
    <3> QED  BY ONLY <3>1, <3>2, EnqueuedIs
  <2>8. \A k \in WaitLists : M[k] = L2[k]
    BY <2>5, ListFacts DEF Enqueued, ListsOK
  <2> HIDE DEF M, P
  <2>9. h # running
    BY <2>2, <2>3, <2>5 DEF Queued
  <2>10. ~Queued(M, running) /\ P[running] = RunQ
    BY <1>1, <2>2, <2>3, <2>5, <2>7, <2>9 DEF Queued, P
  <2>11. /\ tqueue' = P /\ running' \in Threads /\ P[running'] = RunQ
         /\ \A k \in WaitLists : list'[k] = M[k]
    BY <2>1, <2>7, <2>10, PreemptMoves
  <2>12. ASSUME NEW k \in WaitLists, L[k] = << >> PROVE list'[k] = << >>
    <3>1. list'[k] = L2[k] /\ k \in Lists
      BY <2>8, <2>11, ListFacts
    <3>2. CASE k # l
      BY <3>1, <3>2, <2>2, <2>4, <2>6, <2>12, <1>1
    <3>3. CASE k = l
      <4>1. L1[l] = InsertThread(<< >>, t, pri)
        BY <3>3, <2>2, <2>4, <2>12, <1>1
      <4>2. L2[l] = Tail(L1[l])
        <5>1. L1 \in [Lists -> Seq(Threads)]
          BY <2>3 DEF ListsOK
        <5> QED  BY <5>1, <2>2, <2>6
      <4> QED  BY <3>1, <3>3, <4>1, <4>2, <1>1, TailOfOne
    <3> QED  BY <3>2, <3>3
  <2> QED  BY <2>5, <2>11, <2>12, <1>3, StateFacts DEF P
<1> QED  BY <1>2, <1>3

-----------------------------------------------------------------------------
(* The same as a predicate of a step.                                      *)

Quiet ==
  /\ running' \in Threads /\ tqueue'[running'] = RunQ
  /\ \A t \in active : tqueue[t] = RunQ => tqueue'[t] = RunQ
  /\ \A t \in active : tqueue'[t] \in WaitLists => tqueue'[t] = tqueue[t]
  /\ \A k \in WaitLists : list'[k] # << >> => list[k] # << >>

Wakes(l) == list[l] # << >> => \E h \in active : tqueue[h] = l /\ tqueue'[h] = RunQ

-----------------------------------------------------------------------------
(* For what a thread waits.                                                *)

(* The list a call waits on.                                                *)
WaitList(c) == IF c.op = "recv" THEN Mt(c.q) ELSE Full(c.q)

(* The running thread was taken from the run queue, and the queue field of  *)
(* any other thread names a wait list only while it is blocked in a call    *)
(* that waits there, also when the thread was stopped in the meantime.      *)
WaitInv ==
  /\ tqueue[running] = RunQ
  /\ \A t \in active : tqueue[t] \in WaitLists =>
       pend[t] \in MesgCalls /\ tqueue[t] = WaitList(pend[t])

LEMMA MesgCallFacts ==
  ASSUME NEW c \in MesgCalls
  PROVE  /\ c # NoCall /\ c # InBind
         /\ c.q \in Queues /\ c.m \in Messages /\ c.op \in {"recv", "send", "jam"}
         /\ WaitList(c) \in WaitLists /\ Mt(c.q) \in WaitLists /\ Full(c.q) \in WaitLists
<1>1. c.q \in Queues /\ c.m \in Messages /\ c.op \in {"recv", "send", "jam"}
  BY DEF MesgCalls
<1>2. NoCall.op = "none" /\ InBind.op = "bind"
  BY DEF NoCall, InBind
<1>3. c # NoCall /\ c # InBind
  BY <1>1, <1>2
<1> QED  BY <1>1, <1>3, ListFacts DEF WaitList

LEMMA InvFacts ==
  ASSUME Inv
  PROVE  /\ ListsOK(list, tqueue, pri) /\ tqueue \in [Threads -> Lists \cup {NoQ}]
         /\ list \in [Lists -> Seq(Threads)]
         /\ active \in SUBSET Threads /\ running \in active /\ running \in Threads
         /\ ~Queued(list, running) /\ pri \in [Threads -> Nat]
         /\ tstate \in [Threads -> States]
         /\ pend \in [Threads -> MesgCalls \cup {NoCall, InBind}] /\ msgs \in Buffers
BY DEF Inv, ListsOK, DataTypes

(* A step that moves at most the thread h, to the run queue.                *)
LEMMA QuietBy ==
  ASSUME Inv, NEW h \in Threads,
         tqueue' = tqueue \/ tqueue' = [tqueue EXCEPT ![h] = RunQ],
         running' \in Threads, tqueue'[running'] = RunQ,
         \A k \in WaitLists : list'[k] # << >> => list[k] # << >>
  PROVE  Quiet
BY InvFacts, ListFacts DEF Quiet

LEMMA QuietUnchanged ==
  ASSUME Inv, WaitInv, UNCHANGED <<list, running, tqueue>>
  PROVE  Quiet
BY InvFacts DEF Quiet, WaitInv

(* The head of a wait list is an active thread that waits.                  *)
LEMMA HeadWaits ==
  ASSUME Inv, NEW l \in WaitLists, list[l] # << >>
  PROVE  LET h == Head(list[l])
             M == Popped(list, l)
         IN  /\ h \in Threads /\ h \in active /\ h # running
             /\ tqueue[h] = l /\ tstate[h] = WAITING
             /\ ListsOK(M, tqueue, pri) /\ ~Queued(M, h) /\ ~Queued(M, running)
             /\ \A k \in WaitLists : M[k] # << >> => list[k] # << >>
<1> DEFINE h == Head(list[l])
           M == Popped(list, l)
<1>1. l \in Lists /\ l # RunQ
  BY ListFacts
<1>2. /\ ListsOK(M, tqueue, pri)
      /\ h \in Threads /\ Has(list[l], h) /\ ~Queued(M, h)
      /\ \A k \in Lists, u \in Threads : Has(M[k], u) <=> Has(list[k], u) /\ u # h
  BY <1>1, InvFacts, PoppedIs
<1>3. \A k \in WaitLists : M[k] # << >> => list[k] # << >>
  BY <1>1, InvFacts, ListFacts DEF Popped
<1> HIDE DEF M, h
<1>4. h # running /\ Queued(list, h) /\ tqueue[h] = l
  BY <1>1, <1>2, InvFacts DEF Queued, ListsOK
<1>5. ~Has(list[RunQ], h)
  BY <1>1, <1>2, InvFacts, ListFacts DEF ListsOK
<1>6. h \in active /\ tstate[h] = WAITING
  BY <1>2, <1>4, <1>5, StateFacts DEF Placed, Inv
<1>7. ~Queued(M, running)
  BY <1>2, InvFacts DEF Queued
<1> QED  BY <1>2, <1>3, <1>4, <1>6, <1>7 DEF M, h

(* osStartThread(__osPopThread(l)) after a call that returned.              *)
LEMMA WakeIsQuiet ==
  ASSUME Inv, WaitInv, NEW l \in WaitLists, WakeHead(l)
  PROVE  Quiet /\ Wakes(l)
<1>1. CASE list[l] = << >>
  BY <1>1, QuietUnchanged DEF WakeHead, Wakes, threadVars
<1>2. CASE list[l] # << >>
  <2> DEFINE h == Head(list[l])
             M == Popped(list, l)
  <2>1. StartThread(M, tqueue, h)
    BY <1>2 DEF WakeHead
  <2>2. /\ h \in Threads /\ h \in active /\ h # running
        /\ tqueue[h] = l /\ tstate[h] = WAITING
        /\ ListsOK(M, tqueue, pri) /\ ~Queued(M, h) /\ ~Queued(M, running)
        /\ \A k \in WaitLists : M[k] # << >> => list[k] # << >>
    BY <1>2, HeadWaits
  <2> HIDE DEF h, M
  <2>3. running \in Threads /\ tqueue[running] = RunQ
    BY InvFacts DEF WaitInv
  <2>4. /\ \E g \in Threads :
              /\ tqueue' = [tqueue EXCEPT ![g] = RunQ]
              /\ tstate[h] = WAITING => g = h
        /\ running' \in Threads /\ tqueue'[running'] = RunQ
        /\ \A k \in WaitLists : list'[k] # << >> => M[k] # << >>
    BY <2>1, <2>2, <2>3, StartMoves
  <2>5. tqueue' = [tqueue EXCEPT ![h] = RunQ]
    BY <2>2, <2>4
  <2>6. Quiet
    BY <2>2, <2>4, <2>5, QuietBy
  <2> QED  BY <2>2, <2>5, <2>6, InvFacts DEF Wakes
<1> QED  BY <1>1, <1>2

-----------------------------------------------------------------------------
(* The four kinds of step, as the waiting threads see them.                 *)

Grows(q) ==
  \A r \in Queues : Len(msgs'[r]) = IF r = q THEN Len(msgs[r]) + 1 ELSE Len(msgs[r])
Shrinks(q) ==
  \A r \in Queues : Len(msgs'[r]) = IF r = q THEN Len(msgs[r]) - 1 ELSE Len(msgs[r])

(* The running thread blocks in c.                                          *)
Blocks(c) ==
  /\ c \in MesgCalls /\ MustWait(c)
  /\ pend[running] \in {NoCall, c}
  /\ running' \in Threads /\ tqueue'[running'] = RunQ
  /\ tqueue' = [tqueue EXCEPT ![running] = WaitList(c)]
  /\ \A k \in WaitLists \ {WaitList(c)} : list'[k] = list[k]
  /\ pend' = [pend EXCEPT ![running] = c]
  /\ UNCHANGED <<msgs, active>>

(* The running thread completes c, at its first attempt or a later one.     *)
Completes(c) ==
  /\ c \in MesgCalls /\ ~MustWait(c)
  /\ pend[running] \in {NoCall, c}
  /\ pend' = Returned
  /\ Quiet
  /\ IF c.op = "recv"
     THEN Shrinks(c.q) /\ Wakes(Full(c.q))
     ELSE Grows(c.q) /\ Wakes(Mt(c.q))
  /\ UNCHANGED active

(* A step neither enters nor leaves a message call of t.                    *)
KeepsCall(t) == pend'[t] = pend[t] \/ {pend[t], pend'[t]} \subseteq {NoCall, InBind}

(* The handler posts an event to q, or osSetEventMesg the reset notice.     *)
Posts(q) ==
  /\ q \in Queues /\ Len(msgs[q]) < Capacity[q]
  /\ Quiet /\ Grows(q) /\ Wakes(Mt(q))
  /\ \A t \in active : KeepsCall(t)
  /\ UNCHANGED active

(* Every other step: a thread is created, destroyed or scheduled.           *)
Passes ==
  /\ Quiet
  /\ \A t \in active' : IF t \in active THEN KeepsCall(t) ELSE tqueue'[t] = NoQ
  /\ "destroy" \in Calls \/ active \subseteq active'
  /\ UNCHANGED msgs

(* One evaluation of a message call blocks or completes.                    *)
LEMMA DoCallKinds ==
  ASSUME Inv, WaitInv, NEW c \in MesgCalls, DoCall(c), pend[running] \in {NoCall, c},
         UNCHANGED active
  PROVE  Blocks(c) \/ Completes(c)
<1>1. /\ c.q \in Queues /\ c.m \in Messages /\ c.op \in {"recv", "send", "jam"}
      /\ WaitList(c) \in WaitLists /\ Mt(c.q) \in WaitLists /\ Full(c.q) \in WaitLists
  BY MesgCallFacts
<1>2. /\ msgs \in [Queues -> Seq(Messages)] /\ Len(msgs[c.q]) \in Nat
      /\ msgs[c.q] \in Seq(Messages)
  BY <1>1, InvFacts, LenProperties DEF Buffers
<1>3. ASSUME MustWait(c), BlockOn(c, WaitList(c)) PROVE Blocks(c)
  <2> DEFINE R == [tstate EXCEPT ![running] = WAITING]
             l == WaitList(c)
  <2>1. EnqueueAndYield(list, R, tqueue, l, pri)
    BY <1>3 DEF BlockOn
  <2>2. /\ ListsOK(list, tqueue, pri) /\ running \in Threads /\ ~Queued(list, running)
        /\ l \in Lists
    BY <1>1, InvFacts, ListFacts
  <2> HIDE DEF R, l
  <2>3. /\ tqueue' = [tqueue EXCEPT ![running] = l]
        /\ running' \in Threads /\ tqueue'[running'] = RunQ
        /\ \A k \in WaitLists \ {l} : list'[k] = list[k]
    BY ONLY <2>1, <2>2, YieldMoves, ZenonT(60)
  <2> QED  BY <1>3, <2>3 DEF Blocks, BlockOn, l
<1>4. CASE c.op = "recv"
  <2>1. RecvMesg(c) /\ WaitList(c) = Mt(c.q)
    BY <1>4 DEF DoCall, WaitList
  <2>2. CASE msgs[c.q] = << >>
    BY <1>3, <1>4, <2>1, <2>2 DEF RecvMesg, MustWait
  <2>3. CASE msgs[c.q] # << >>
    <3>1. /\ msgs' = [msgs EXCEPT ![c.q] = Tail(@)] /\ pend' = Returned
          /\ WakeHead(Full(c.q))
      BY <2>1, <2>3 DEF RecvMesg
    <3>2. Len(Tail(msgs[c.q])) = Len(msgs[c.q]) - 1
      BY <1>2, <2>3, HeadTailProperties
    <3>3. Shrinks(c.q)
      BY <1>1, <1>2, <3>1, <3>2 DEF Shrinks
    <3>4. Quiet /\ Wakes(Full(c.q))
      BY <1>1, <3>1, WakeIsQuiet
    <3> QED  BY <1>4, <2>3, <3>1, <3>3, <3>4 DEF Completes, MustWait
  <2> QED  BY <2>2, <2>3
<1>5. CASE c.op # "recv"
  <2> DEFINE s == IF c.op = "send" THEN Append(msgs[c.q], c.m) ELSE <<c.m>> \o msgs[c.q]
  <2>1. WaitList(c) = Full(c.q)
    BY <1>5 DEF WaitList
  <2>2. CASE Len(msgs[c.q]) >= Capacity[c.q]
    <3>1. BlockOn(c, Full(c.q))
      BY <1>1, <1>5, <2>2 DEF DoCall, SendMesg, JamMesg
    <3> QED  BY <1>3, <1>5, <2>1, <2>2, <3>1 DEF MustWait
  <2>3. CASE ~(Len(msgs[c.q]) >= Capacity[c.q])
    <3>1. pend' = Returned /\ WakeHead(Mt(c.q)) /\ msgs' = [msgs EXCEPT ![c.q] = s]
      <4>1. CASE c.op = "send"
        BY <2>3, <4>1 DEF DoCall, SendMesg
      <4>2. CASE c.op = "jam"
        BY <2>3, <4>2 DEF DoCall, JamMesg
      <4> QED  BY <1>1, <1>5, <4>1, <4>2
    <3>2. Len(s) = Len(msgs[c.q]) + 1
      <4>1. Len(Append(msgs[c.q], c.m)) = Len(msgs[c.q]) + 1
        BY <1>1, <1>2, AppendProperties
      <4>2. Len(<<c.m>> \o msgs[c.q]) = Len(msgs[c.q]) + 1
        <5>1. <<c.m>> \in Seq(Messages) /\ Len(<<c.m>>) = 1
          BY <1>1
        <5> QED  BY <5>1, <1>2, ConcatProperties
      <4> QED  BY <4>1, <4>2
    <3> HIDE DEF s
    <3>3. Grows(c.q)
      BY <1>1, <1>2, <3>1, <3>2 DEF Grows
    <3>4. Quiet /\ Wakes(Mt(c.q))
      BY <1>1, <3>1, WakeIsQuiet
    <3> QED  BY <1>5, <2>3, <3>1, <3>3, <3>4 DEF Completes, MustWait
  <2> QED  BY <2>2, <2>3
<1> QED  BY <1>4, <1>5

(* Dequeuing adds nothing to a list, and a thread on no list changes none.  *)
LEMMA UnlinkedEmpty ==
  ASSUME NEW L \in [Lists -> Seq(Threads)], NEW l, NEW t
  PROVE  \A k \in WaitLists : Dequeued(L, l, t)[k] # << >> => L[k] # << >>
<1> SUFFICES ASSUME NEW k \in WaitLists, L[k] = << >>
             PROVE  Dequeued(L, l, t)[k] = << >>
  OBVIOUS
<1>1. k \in Lists
  BY ListFacts
<1>2. Unlinked(<< >>, t) = << >>
  BY EmptySeq, LenProperties DEF Unlinked
<1> QED  BY <1>1, <1>2 DEF Dequeued

LEMMA DequeueAbsent ==
  ASSUME NEW L \in [Lists -> Seq(Threads)], NEW l, NEW t, ~Queued(L, t)
  PROVE  Dequeued(L, l, t) = L
<1>1. CASE l \in Lists
  <2>1. Unlinked(L[l], t) = L[l]
    BY <1>1 DEF Unlinked, Queued, Has
  <2> QED  BY <1>1, <2>1 DEF Dequeued
<1>2. CASE l \notin Lists
  BY <1>2 DEF Dequeued
<1> QED  BY <1>1, <1>2

(* The lists osSetThreadPri leaves: the thread is put back on the list it   *)
(* was taken from.                                                         *)
LEMMA ReorderIs ==
  ASSUME Inv, NEW t \in active, NEW p \in Priorities
  PROVE  LET new == [pri EXCEPT ![t] = p]
             L == IF t # running /\ tstate[t] # STOPPED
                  THEN Enqueued(Dequeued(list, tqueue[t], t), tqueue[t], t, new)
                  ELSE list
         IN  /\ ListsOK(L, tqueue, new) /\ ~Queued(L, running)
             /\ \A k \in WaitLists : L[k] # << >> => list[k] # << >>
<1> DEFINE M == Dequeued(list, tqueue[t], t)
           new == [pri EXCEPT ![t] = p]
           L == IF t # running /\ tstate[t] # STOPPED
                THEN Enqueued(M, tqueue[t], t, new)
                ELSE list
<1>1. /\ ListsOK(list, tqueue, pri) /\ tqueue \in [Threads -> Lists \cup {NoQ}]
      /\ list \in [Lists -> Seq(Threads)]
      /\ active \in SUBSET Threads /\ running \in Threads
      /\ ~Queued(list, running)
  BY InvFacts
<1>2. p \in Nat /\ t \in Threads
  BY <1>1, KernelAssumption DEF KernelAssumption
<1>3. CASE t # running /\ tstate[t] # STOPPED
  <2>1. Queued(list, t)
    BY <1>2, <1>3, StateFacts DEF Placed, Inv
  <2>2. /\ tqueue[t] \in Lists /\ ListsOK(M, tqueue, pri) /\ ~Queued(M, t)
        /\ \A k \in Lists, u \in Threads : Has(M[k], u) <=> Has(list[k], u) /\ u # t
    BY <1>1, <1>2, <2>1, DequeuedIs
  <2>3. \A k \in WaitLists : M[k] # << >> => list[k] # << >>
    BY <1>1, UnlinkedEmpty
  <2> HIDE DEF M
  <2>4. ListsOK(M, tqueue, new)
    BY <1>2, <2>2, RePrioritized
  <2>5. L = Enqueued(M, tqueue[t], t, new) /\ [tqueue EXCEPT ![t] = tqueue[t]] = tqueue
    BY <1>1, <1>3
  <2> HIDE DEF L, new
  <2>6. /\ ListsOK(L, tqueue, new)
        /\ \A k \in Lists, u \in Threads :
             Has(L[k], u) <=> Has(M[k], u) \/ (k = tqueue[t] /\ u = t)
    BY <1>2, <2>2, <2>4, <2>5, EnqueuedIs
  <2>7. ~Queued(L, running)
    BY <1>1, <1>3, <2>2, <2>6 DEF Queued
  <2>8. \A k \in Lists : k # tqueue[t] => L[k] = M[k]
    BY <2>4, <2>5 DEF Enqueued, ListsOK
  <2>9. list[tqueue[t]] # << >>
    <3>1. Has(list[tqueue[t]], t)
      BY <1>1, <2>1, <1>2 DEF Queued, ListsOK
    <3> QED  BY <3>1, EmptySeq, LenProperties DEF Has
  <2>10. \A k \in WaitLists : L[k] # << >> => list[k] # << >>
    BY <2>3, <2>8, <2>9, ListFacts
  <2> QED  BY <2>6, <2>7, <2>10 DEF L, M, new
<1>4. CASE ~(t # running /\ tstate[t] # STOPPED)
  <2>1. L = list /\ ~Queued(list, t)
    BY <1>1, <1>2, <1>4, StateFacts DEF Placed, Inv
  <2> HIDE DEF L
  <2>2. ListsOK(list, tqueue, new)
    BY <1>1, <1>2, <2>1, RePrioritized
  <2> QED  BY <1>1, <2>1, <2>2 DEF L
<1> QED  BY <1>3, <1>4

(* Posting an event to a queue with room, or to none.                       *)
LEMMA PostKinds ==
  ASSUME Inv, WaitInv, NEW e \in Events, PostEvent(e),
         UNCHANGED <<running, pend, active>>
  PROVE  (\E q \in Queues : Posts(q)) \/ (Quiet /\ UNCHANGED msgs)
<1> DEFINE b == eventTab[e]
<1>1. b \in Bindings \cup {NoBinding} /\ msgs \in [Queues -> Seq(Messages)]
  BY DEF Inv, DataTypes, Buffers
<1>2. CASE ~(b # NoBinding /\ Len(msgs[b.q]) < Capacity[b.q])
  BY <1>2, QuietUnchanged DEF PostEvent
<1>3. CASE b # NoBinding /\ Len(msgs[b.q]) < Capacity[b.q]
  <2>1. b.q \in Queues /\ b.m \in Messages /\ Mt(b.q) \in WaitLists
    BY <1>1, <1>3, ListFacts DEF Bindings
  <2>2. msgs' = [msgs EXCEPT ![b.q] = Append(@, b.m)]
    BY <1>3 DEF PostEvent
  <2>3. Grows(b.q)
    <3>1. Len(Append(msgs[b.q], b.m)) = Len(msgs[b.q]) + 1
      BY <1>1, <2>1, AppendProperties
    <3> QED  BY <1>1, <2>1, <2>2, <3>1 DEF Grows
  <2>4. CASE list[Mt(b.q)] = << >>
    <3>1. UNCHANGED <<list, running, tqueue>>
      BY <1>3, <2>4 DEF PostEvent
    <3>2. Quiet /\ Wakes(Mt(b.q))
      BY <2>4, <3>1, QuietUnchanged DEF Wakes
    <3> QED  BY <1>3, <2>1, <2>3, <3>2 DEF Posts, KeepsCall
  <2>5. CASE list[Mt(b.q)] # << >>
    <3> DEFINE l == Mt(b.q)
               h == Head(list[l])
               M == Popped(list, l)
    <3>1. list' = Enqueued(M, RunQ, h, pri) /\ tqueue' = [tqueue EXCEPT ![h] = RunQ]
      BY <1>3, <2>5 DEF PostEvent
    <3>2. /\ h \in Threads /\ h \in active /\ h # running /\ tqueue[h] = l
          /\ ListsOK(M, tqueue, pri)
          /\ \A k \in WaitLists : M[k] # << >> => list[k] # << >>
      BY <2>1, <2>5, HeadWaits
    <3> HIDE DEF h, M
    <3>3. \A k \in WaitLists : list'[k] = M[k]
      BY <3>1, <3>2, ListFacts DEF Enqueued, ListsOK
    <3>4. running' \in Threads /\ tqueue'[running'] = RunQ /\ tqueue'[h] = RunQ
      BY <3>1, <3>2, InvFacts DEF WaitInv
    <3>5. Quiet
      BY <3>1, <3>2, <3>3, <3>4, QuietBy
    <3>6. Wakes(l)
      BY <3>2, <3>4 DEF Wakes
    <3> QED  BY <1>3, <2>1, <2>3, <3>5, <3>6 DEF Posts, KeepsCall
  <2> QED  BY <2>4, <2>5
<1> QED  BY <1>2, <1>3

(* A fault stops the interrupted thread and posts like an event.            *)
LEMMA PanicKinds ==
  ASSUME Inv, WaitInv, Panic
  PROVE  (\E q \in Queues : Posts(q)) \/ Passes
<1> DEFINE b == eventTab["fault"]
           post == b # NoBinding /\ Len(msgs[b.q]) < Capacity[b.q]
           S == [tstate EXCEPT ![k0] = STOPPED]
<1>1. /\ ListsOK(list, tqueue, pri) /\ tqueue \in [Threads -> Lists \cup {NoQ}]
      /\ active \in SUBSET Threads /\ running \in Threads
      /\ UNCHANGED <<active, pend>>
  BY InvFacts DEF Panic
<1>2. "fault" \in Events
  BY DEF Panic, Inv, DataTypes
<1>3. b \in Bindings \cup {NoBinding} /\ msgs \in [Queues -> Seq(Messages)]
  BY <1>2 DEF Inv, DataTypes, Buffers
<1>4. post => b.q \in Queues /\ b.m \in Messages /\ Mt(b.q) \in WaitLists
  BY <1>3, ListFacts DEF Bindings
<1>5. CASE post /\ list[Mt(b.q)] # << >>
  <2> DEFINE l == Mt(b.q)
             h == Head(list[l])
             M == Popped(list, l)
             L == Enqueued(M, RunQ, h, pri)
             P == [tqueue EXCEPT ![h] = RunQ]
  <2>1. DispatchThread(L, S, P)
    BY <1>5 DEF Panic
  <2>2. /\ h \in Threads /\ h \in active /\ tqueue[h] = l
        /\ ListsOK(M, tqueue, pri) /\ ~Queued(M, h)
        /\ \A k \in WaitLists : M[k] # << >> => list[k] # << >>
    BY <1>4, <1>5, HeadWaits
  <2> HIDE DEF h, M, S
  <2>3. ListsOK(L, P, pri)
    BY <2>2, EnqueuedIs, ListFacts
  <2>4. \A k \in WaitLists : L[k] = M[k]
    BY <2>2, ListFacts DEF Enqueued, ListsOK
  <2> HIDE DEF L, P
  <2>5. /\ tqueue' = P /\ running' \in Threads /\ P[running'] = RunQ
        /\ \A k \in WaitLists : list'[k] = L[k]
    BY <2>1, <2>3, DispatchMoves
  <2>6. Quiet
    BY <2>2, <2>4, <2>5, QuietBy DEF P
  <2>7. Wakes(l)
    BY <1>1, <2>2, <2>5 DEF Wakes, P
  <2>8. msgs' = [msgs EXCEPT ![b.q] = Append(@, b.m)]
    BY <1>5 DEF Panic
  <2>9. Grows(b.q)
    <3>1. Len(Append(msgs[b.q], b.m)) = Len(msgs[b.q]) + 1
      BY <1>3, <1>4, <1>5, AppendProperties
    <3> QED  BY <1>3, <1>4, <1>5, <2>8, <3>1 DEF Grows
  <2> QED  BY <1>1, <1>4, <1>5, <2>6, <2>7, <2>9 DEF Posts, KeepsCall
<1>6. CASE ~(post /\ list[Mt(b.q)] # << >>)
  <2>1. DispatchThread(list, S, tqueue)
    BY <1>6 DEF Panic
  <2> HIDE DEF S
  <2>2. /\ tqueue' = tqueue /\ running' \in Threads /\ tqueue[running'] = RunQ
        /\ \A k \in WaitLists : list'[k] = list[k]
    BY <1>1, <2>1, DispatchMoves
  <2>3. Quiet
    BY <1>1, <2>2, QuietBy
  <2>4. CASE post
    <3>1. msgs' = [msgs EXCEPT ![b.q] = Append(@, b.m)]
      BY <2>4 DEF Panic
    <3>2. Len(Append(msgs[b.q], b.m)) = Len(msgs[b.q]) + 1
      BY <1>3, <1>4, <2>4, AppendProperties
    <3>3. Grows(b.q)
      BY <1>3, <1>4, <2>4, <3>1, <3>2 DEF Grows
    <3>4. Wakes(Mt(b.q))
      BY <1>6, <2>4 DEF Wakes
    <3> QED  BY <1>1, <1>4, <2>3, <2>4, <3>3, <3>4 DEF Posts, KeepsCall
  <2>5. CASE ~post
    <3>1. msgs' = msgs
      BY <2>5 DEF Panic
    <3> QED  BY <1>1, <2>3, <3>1 DEF Passes, KeepsCall
  <2> QED  BY <2>4, <2>5
<1> QED  BY <1>5, <1>6

LEMMA StepKinds ==
  ASSUME Inv, WaitInv, WAITING \notin Calls, [Next]_vars
  PROVE  \/ \E c \in MesgCalls : Blocks(c) \/ Completes(c)
         \/ \E q \in Queues : Posts(q)
         \/ Passes
<1> USE ListFacts, StateFacts
<1> DEFINE Goal == \/ \E c \in MesgCalls : Blocks(c) \/ Completes(c)
                   \/ \E q \in Queues : Posts(q)
                   \/ Passes
<1>1. /\ ListsOK(list, tqueue, pri) /\ tqueue \in [Threads -> Lists \cup {NoQ}]
      /\ list \in [Lists -> Seq(Threads)]
      /\ active \in SUBSET Threads /\ running \in active /\ running \in Threads
      /\ ~Queued(list, running) /\ pri \in [Threads -> Nat]
      /\ pend \in [Threads -> MesgCalls \cup {NoCall, InBind}]
      /\ tqueue[running] = RunQ
  BY InvFacts DEF WaitInv
<1>2. k0 = NoThread => tstate[running] = RUNNING
  BY DEF Inv
<1>3. \A t \in Threads \ {running} : Placed(list, tstate, active, t)
  BY DEF Inv
<1>4. ASSUME Quiet, UNCHANGED <<pend, msgs>>, active' = active PROVE Goal
  BY <1>4 DEF Passes, KeepsCall
<1>5. ASSUME NEW c \in MesgCalls, NEW block \in BOOLEAN, CallMesg(c, block) PROVE Goal
  <2>1. DoCall(c) /\ pend[running] \in {NoCall, c} /\ UNCHANGED active
    BY <1>5 DEF CallMesg, InThread
  <2> QED  BY <2>1, DoCallKinds
<1>6. CASE ResumeMesg
  <2>1. /\ pend[running] \in MesgCalls
        /\ DoCall(pend[running]) /\ UNCHANGED active
    BY <1>1, <1>6 DEF ResumeMesg
  <2> QED  BY <2>1, DoCallKinds
<1>7. CASE OsYieldThread
  <2> DEFINE R == [tstate EXCEPT ![running] = RUNNABLE]
  <2>1. EnqueueAndYield(list, R, tqueue, RunQ, pri) /\ UNCHANGED <<active, msgs, pend>>
    BY <1>7 DEF OsYieldThread
  <2> HIDE DEF R
  <2>2. /\ tqueue' = [tqueue EXCEPT ![running] = RunQ]
        /\ running' \in Threads /\ tqueue'[running'] = RunQ
        /\ \A k \in WaitLists \ {RunQ} : list'[k] = list[k]
    BY <1>1, <2>1, YieldMoves
  <2>3. Quiet
    BY <1>1, <2>2, QuietBy
  <2> QED  BY <1>4, <2>1, <2>3
<1>8. ASSUME NEW t \in Threads, NEW p \in Priorities, OsCreateThread(t, p) PROVE Goal
  <2>1. /\ t \notin active /\ tqueue' = [tqueue EXCEPT ![t] = NoQ]
        /\ pend' = [pend EXCEPT ![t] = NoCall] /\ active' = active \cup {t}
        /\ UNCHANGED <<list, running, msgs>>
    BY <1>8 DEF OsCreateThread
  <2>2. t # running
    BY <1>1, <2>1
  <2>3. Quiet
    BY <1>1, <2>1, <2>2 DEF Quiet
  <2> QED  BY <1>1, <2>1, <2>3 DEF Passes, KeepsCall
<1>9. ASSUME NEW t \in Threads, OsStartThread(t) PROVE Goal
  <2>1. /\ k0 = NoThread /\ t \in active /\ tstate[t] = STOPPED
        /\ StartThread(list, tqueue, t) /\ UNCHANGED <<active, msgs, pend>>
    BY <1>9 DEF OsStartThread, InThread
  <2>2. t # running /\ ~Queued(list, t)
    BY <1>2, <1>3, <2>1 DEF Placed
  <2>3. /\ \E h \in Threads : tqueue' = [tqueue EXCEPT ![h] = RunQ]
        /\ running' \in Threads /\ tqueue'[running'] = RunQ
        /\ \A k \in WaitLists : list'[k] # << >> => list[k] # << >>
    BY <1>1, <2>1, <2>2, StartMoves
  <2>4. Quiet
    BY <2>3, QuietBy
  <2> QED  BY <1>4, <2>1, <2>4
<1>10. ASSUME NEW t \in Threads, OsStopThread(t) PROVE Goal
  <2>1. /\ k0 = NoThread /\ t \in active /\ UNCHANGED <<active, msgs, pend>>
    BY <1>10 DEF OsStopThread, InThread
  <2>2. CASE EnqueueAndYield(list, [tstate EXCEPT ![running] = STOPPED], tqueue, NoQ, pri)
    <3>1. DispatchThread(list, [tstate EXCEPT ![running] = STOPPED], tqueue)
      BY <2>2 DEF EnqueueAndYield
    <3>2. /\ tqueue' = tqueue /\ running' \in Threads /\ tqueue[running'] = RunQ
          /\ \A k \in WaitLists : list'[k] = list[k]
      BY <1>1, <3>1, DispatchMoves
    <3>3. Quiet
      BY <1>1, <3>2, QuietBy
    <3> QED  BY <1>4, <2>1, <3>3
  <2>3. CASE /\ tstate[t] \in {RUNNABLE, WAITING}
             /\ list' = Dequeued(list, tqueue[t], t)
             /\ UNCHANGED <<running, tqueue>>
    <3>3. \A k \in WaitLists : Dequeued(list, tqueue[t], t)[k] # << >> => list[k] # << >>
      BY <1>1, UnlinkedEmpty
    <3>1. \A k \in WaitLists : list'[k] # << >> => list[k] # << >>
      BY <2>3, <3>3
    <3>2. Quiet
      BY <1>1, <2>3, <3>1, QuietBy
    <3> QED  BY <1>4, <2>1, <3>2
  <2> QED  BY <1>10, <2>2, <2>3 DEF OsStopThread
<1>11. ASSUME NEW t \in Threads, OsDestroyThread(t) PROVE Goal
  <2> DEFINE L == IF tstate[t] # STOPPED THEN Dequeued(list, tqueue[t], t) ELSE list
  <2>1. /\ k0 = NoThread /\ "destroy" \in Calls /\ t \in active
        /\ active' = active \ {t} /\ pend' = [pend EXCEPT ![t] = NoCall]
        /\ UNCHANGED msgs
    BY <1>11 DEF OsDestroyThread, InThread
  <2>2. \A k \in WaitLists : L[k] # << >> => list[k] # << >>
    BY <1>1, UnlinkedEmpty DEF Dequeued
  <2>3. CASE t = running
    <3>1. DispatchThread(L, tstate, tqueue)
      BY <1>11, <2>3 DEF OsDestroyThread
    <3>2. ListsOK(L, tqueue, pri)
      <4>1. Dequeued(list, tqueue[t], t) = list
        BY <1>1, <2>3, DequeueAbsent
      <4>2. L = list
        BY <4>1
      <4> QED  BY <1>1, <4>2
    <3> HIDE DEF L
    <3>3. /\ tqueue' = tqueue /\ running' \in Threads /\ tqueue[running'] = RunQ
          /\ \A k \in WaitLists : list'[k] = L[k]
      BY <3>1, <3>2, DispatchMoves
    <3>4. Quiet
      BY <1>1, <2>2, <3>3, QuietBy
    <3> QED  BY <1>1, <2>1, <3>4 DEF Passes, KeepsCall
  <2>4. CASE t # running
    <3>1. list' = L /\ UNCHANGED <<running, tqueue>>
      BY <1>11, <2>4 DEF OsDestroyThread
    <3> HIDE DEF L
    <3>2. Quiet
      BY <1>1, <2>2, <3>1, QuietBy
    <3> QED  BY <1>1, <2>1, <3>2 DEF Passes, KeepsCall
  <2> QED  BY <2>3, <2>4
<1>12. ASSUME NEW t \in Threads, NEW p \in Priorities, OsSetThreadPri(t, p) PROVE Goal
  <2> DEFINE M == Dequeued(list, tqueue[t], t)
             L == IF t # running /\ tstate[t] # STOPPED
                  THEN Enqueued(M, tqueue[t], t, pri')
                  ELSE list
  <2>1. /\ k0 = NoThread /\ t \in active /\ pri' = [pri EXCEPT ![t] = p]
        /\ PreemptOrReturn(L, tstate, tqueue, pri')
        /\ UNCHANGED <<active, msgs, pend>>
    BY <1>12 DEF OsSetThreadPri, InThread
  <2>2. /\ ListsOK(L, tqueue, pri') /\ ~Queued(L, running)
        /\ \A k \in WaitLists : L[k] # << >> => list[k] # << >>
    BY <1>1, <1>3, <2>1, ReorderIs
  <2> HIDE DEF L
  <2>3. /\ tqueue' = tqueue /\ running' \in Threads /\ tqueue[running'] = RunQ
        /\ \A k \in WaitLists : list'[k] = L[k]
    BY <1>1, <2>1, <2>2, PreemptMoves
  <2>4. Quiet
    BY <1>1, <2>2, <2>3, QuietBy
  <2> QED  BY <1>4, <2>1, <2>4
<1>13. ASSUME NEW e \in Events, NEW b \in Bindings, OsSetEventMesg(e, b) PROVE Goal
  <2>1. pend[running] = NoCall /\ active' = active
    BY <1>13 DEF OsSetEventMesg, InThread
  <2>2. pend' = pend \/ pend' = [pend EXCEPT ![running] = InBind]
    BY <1>13 DEF OsSetEventMesg
  <2>3. \A t \in active : KeepsCall(t)
    BY <1>1, <2>1, <2>2 DEF KeepsCall
  <2>4. CASE UNCHANGED <<threadVars, msgs>>
    <3>1. Quiet
      BY <2>4, QuietUnchanged DEF threadVars
    <3> QED  BY <2>1, <2>3, <2>4, <3>1 DEF Passes
  <2>5. CASE /\ Len(msgs[b.q]) < Capacity[b.q]
             /\ msgs' = [msgs EXCEPT ![b.q] = Append(@, b.m)]
             /\ WakeHead(Mt(b.q))
    <3>1. b.q \in Queues /\ b.m \in Messages /\ Mt(b.q) \in WaitLists
      BY DEF Bindings
    <3>2. Quiet /\ Wakes(Mt(b.q))
      BY <2>5, <3>1, WakeIsQuiet
    <3>3. Grows(b.q)
      <4>1. msgs \in [Queues -> Seq(Messages)] /\ msgs[b.q] \in Seq(Messages)
        BY <3>1, InvFacts DEF Buffers
      <4>2. Len(Append(msgs[b.q], b.m)) = Len(msgs[b.q]) + 1
        BY <3>1, <4>1, AppendProperties
      <4> QED  BY <2>5, <3>1, <4>1, <4>2 DEF Grows
    <3>4. Posts(b.q)
      BY <2>1, <2>3, <2>5, <3>1, <3>2, <3>3 DEF Posts
    <3> QED  BY <3>1, <3>4
  <2> QED  BY <1>13, <2>4, <2>5 DEF OsSetEventMesg
<1>20. CASE FinishBind
  <2>1. /\ pend[running] = InBind /\ pend' = [pend EXCEPT ![running] = NoCall]
        /\ UNCHANGED <<list, running, tqueue, active, msgs>>
    BY <1>20 DEF FinishBind, Returned, threadVars
  <2>2. \A t \in active : KeepsCall(t)
    BY <1>1, <2>1 DEF KeepsCall
  <2>3. Quiet
    BY <2>1, QuietUnchanged
  <2> QED  BY <2>1, <2>2, <2>3 DEF Passes
<1>14. ASSUME NEW S \in SUBSET Events, ExceptionEntry(S) PROVE Goal
  <2>1. UNCHANGED <<list, running, tqueue, active, msgs, pend>>
    BY <1>14 DEF ExceptionEntry
  <2> QED  BY <1>4, <2>1, QuietUnchanged
<1>15. ASSUME NEW e \in Events, ServeCause(e) PROVE Goal
  <2>1. PostEvent(e) /\ UNCHANGED <<running, pend, active>>
    BY <1>15 DEF ServeCause
  <2> QED  BY <1>4, <2>1, PostKinds
<1>16. CASE ServePreNmi
  <2>1. UNCHANGED <<running, pend, active>> /\ "prenmi" \in Events
    BY <1>16 DEF ServePreNmi, IsNextCause, Inv, DataTypes
  <2>2. CASE UNCHANGED <<msgs, list, tqueue>>
    BY <1>4, <2>1, <2>2, QuietUnchanged
  <2>3. CASE PostEvent("prenmi")
    BY <1>4, <2>1, <2>3, PostKinds
  <2> QED  BY <1>16, <2>2, <2>3 DEF ServePreNmi
<1>17. CASE Redispatch
  <2>1. k0 = running /\ UNCHANGED <<active, msgs, pend>>
    BY <1>17 DEF Redispatch, Inv
  <2>2. CASE list[RunQ] = << >> \/ pri[k0] >= pri[Head(list[RunQ])]
    BY <1>4, <1>17, <2>1, <2>2, QuietUnchanged DEF Redispatch
  <2>3. CASE ~(list[RunQ] = << >> \/ pri[k0] >= pri[Head(list[RunQ])])
    <3>1. EnqueueAndYield(list, tstate, tqueue, RunQ, pri)
      BY <1>17, <2>1, <2>3 DEF Redispatch, EnqueueAndYield
    <3>2. /\ tqueue' = [tqueue EXCEPT ![running] = RunQ]
          /\ running' \in Threads /\ tqueue'[running'] = RunQ
          /\ \A k \in WaitLists \ {RunQ} : list'[k] = list[k]
      BY <1>1, <3>1, YieldMoves
    <3>3. Quiet
      BY <1>1, <3>2, QuietBy
    <3> QED  BY <1>4, <2>1, <3>3
  <2> QED  BY <2>2, <2>3
<1>18. CASE Panic
  BY <1>18, PanicKinds DEF Goal
<1>19. CASE UNCHANGED vars
  BY <1>4, <1>19, QuietUnchanged DEF vars, threadVars
<1> QED
  BY <1>5, <1>6, <1>7, <1>8, <1>9, <1>10, <1>11, <1>12, <1>13, <1>14, <1>15, <1>16, <1>17,
     <1>18, <1>19, <1>20 DEF Next

-----------------------------------------------------------------------------
(* WaitInv is inductive.                                                   *)

LEMMA WaitInvInit == Init => WaitInv
BY ListFacts, KernelAssumption DEF Init, WaitInv, KernelAssumption

LEMMA WaitInvNext ==
  ASSUME WAITING \notin Calls
  PROVE  Inv /\ WaitInv /\ [Next]_vars => WaitInv'
<1> SUFFICES ASSUME Inv, WaitInv, [Next]_vars PROVE WaitInv'
  OBVIOUS
<1>1. /\ active \in SUBSET Threads /\ running \in active
      /\ tqueue \in [Threads -> Lists \cup {NoQ}]
      /\ pend \in [Threads -> MesgCalls \cup {NoCall, InBind}]
      /\ tqueue[running] = RunQ /\ RunQ \notin WaitLists /\ NoQ \notin WaitLists
  BY InvFacts, ListFacts DEF WaitInv
<1>2. \A t \in active : tqueue[t] \in WaitLists =>
        pend[t] \in MesgCalls /\ tqueue[t] = WaitList(pend[t])
  BY DEF WaitInv
<1>3. ASSUME Quiet, NEW t \in active', t \in active, tqueue'[t] \in WaitLists
      PROVE  t # running /\ tqueue'[t] = tqueue[t]
  BY <1>1, <1>3 DEF Quiet
<1>8. \A t : pend[t] \in MesgCalls /\ KeepsCall(t) => pend'[t] = pend[t]
  BY MesgCallFacts DEF KeepsCall
<1>4. ASSUME NEW c \in MesgCalls, Blocks(c) PROVE WaitInv'
  <2>1. /\ tqueue' = [tqueue EXCEPT ![running] = WaitList(c)] /\ tqueue'[running'] = RunQ
        /\ pend' = [pend EXCEPT ![running] = c] /\ active' = active
    BY <1>4 DEF Blocks
  <2>2. ASSUME NEW t \in active', tqueue'[t] \in WaitLists
        PROVE  pend'[t] \in MesgCalls /\ tqueue'[t] = WaitList(pend'[t])
    BY <1>1, <1>2, <2>1, <2>2
  <2> QED  BY <2>1, <2>2 DEF WaitInv
<1>5. ASSUME NEW c \in MesgCalls, Completes(c) PROVE WaitInv'
  <2>1. Quiet /\ active' = active /\ pend' = [pend EXCEPT ![running] = NoCall]
    BY <1>5 DEF Completes, Returned
  <2>2. ASSUME NEW t \in active', tqueue'[t] \in WaitLists
        PROVE  pend'[t] \in MesgCalls /\ tqueue'[t] = WaitList(pend'[t])
    BY <1>1, <1>2, <1>3, <2>1, <2>2
  <2> QED  BY <2>1, <2>2 DEF WaitInv, Quiet
<1>6. ASSUME NEW q \in Queues, Posts(q) PROVE WaitInv'
  <2>1. Quiet /\ active' = active /\ \A t \in active : KeepsCall(t)
    BY <1>6 DEF Posts
  <2>2. ASSUME NEW t \in active', tqueue'[t] \in WaitLists
        PROVE  pend'[t] \in MesgCalls /\ tqueue'[t] = WaitList(pend'[t])
    BY <1>1, <1>2, <1>3, <1>8, <2>1, <2>2
  <2> QED  BY <2>1, <2>2 DEF WaitInv, Quiet
<1>7. ASSUME Passes PROVE WaitInv'
  <2>1. /\ Quiet
        /\ \A t \in active' : IF t \in active THEN KeepsCall(t) ELSE tqueue'[t] = NoQ
    BY <1>7 DEF Passes
  <2>2. ASSUME NEW t \in active', tqueue'[t] \in WaitLists
        PROVE  pend'[t] \in MesgCalls /\ tqueue'[t] = WaitList(pend'[t])
    <3>1. t \in active /\ KeepsCall(t)
      BY <1>1, <2>1, <2>2
    <3> QED  BY <1>2, <1>3, <1>8, <2>1, <2>2, <3>1
  <2> QED  BY <2>1, <2>2 DEF WaitInv, Quiet
<1> QED  BY <1>4, <1>5, <1>6, <1>7, StepKinds

LEMMA WaitInvariant ==
  ASSUME WAITING \notin Calls
  PROVE  Spec => [](Inv /\ WaitInv)
<1>1. Init => Inv /\ WaitInv
  BY InvInit, WaitInvInit
<1>2. Inv /\ WaitInv /\ [Next]_vars => (Inv /\ WaitInv)'
  BY InvNext, WaitInvNext
<1> QED  BY <1>1, <1>2, PTL DEF Spec

(* A thread is on the list of a queue exactly for the call it is blocked    *)
(* in, across stops and restarts of waiting threads: the next message or   *)
(* slot of that queue wakes a thread that asked for it.                    *)
THEOREM KernelWaiters ==
  ASSUME WAITING \notin Calls
  PROVE  Spec => []WaitersAgree
<1>1. Inv /\ WaitInv => WaitersAgree
  <2> SUFFICES ASSUME Inv, WaitInv, NEW t \in Threads, NEW q \in Queues
               PROVE  /\ On(t, Mt(q)) =>
                           pend[t] # NoCall /\ pend[t].op = "recv" /\ pend[t].q = q
                      /\ On(t, Full(q)) =>
                           pend[t] # NoCall /\ pend[t].op \in {"send", "jam"} /\ pend[t].q = q
    BY DEF WaitersAgree
  <2>1. ASSUME NEW l \in WaitLists, On(t, l)
        PROVE  pend[t] \in MesgCalls /\ l = WaitList(pend[t])
    <3>1. l \in Lists /\ Has(list[l], t)
      BY <2>1, ListFacts DEF On, Has
    <3>2. tqueue[t] = l /\ Queued(list, t) /\ t # running
      BY <3>1, InvFacts DEF Queued, ListsOK
    <3>3. t \in active
      BY <3>2, StateFacts DEF Inv, Placed
    <3> QED  BY <3>2, <3>3 DEF WaitInv
  <2>2. \A r \in Queues : Mt(q) # Full(r) /\ (Mt(q) = Mt(r) => q = r) /\ (Full(q) = Full(r) => q = r)
    BY DEF Mt, Full
  <2>3. ASSUME On(t, Mt(q))
        PROVE  pend[t] # NoCall /\ pend[t].op = "recv" /\ pend[t].q = q
    BY <2>1, <2>2, <2>3, ListFacts, MesgCallFacts DEF WaitList
  <2>4. \A r \in Queues : Full(q) # Mt(r)
    BY DEF Mt, Full
  <2>5. ASSUME On(t, Full(q))
        PROVE  pend[t] # NoCall /\ pend[t].op \in {"send", "jam"} /\ pend[t].q = q
    BY <2>1, <2>2, <2>4, <2>5, ListFacts, MesgCallFacts DEF WaitList
  <2> QED  BY <2>3, <2>5
<1> QED  BY <1>1, WaitInvariant, PTL

-----------------------------------------------------------------------------
(* No wakeup is lost.  A step takes at most the running thread out of the   *)
(* woken threads of a queue; what follows counts those that are left.      *)

LEMMA Counted ==
  ASSUME NEW A, NEW B, IsFiniteSet(B), NEW r, A \ {r} \subseteq B,
         NEW d \in Int, NEW e \in Int, d <= Cardinality(A),
         \/ r \notin A /\ e <= d
         \/ e <= d - 1
         \/ r \notin A /\ (\E h \in B : h \notin A) /\ e <= d + 1
  PROVE  e <= Cardinality(B)
<1>1. IsFiniteSet(A \ {r}) /\ Cardinality(A \ {r}) <= Cardinality(B)
  BY FS_Subset
<1>2. IsFiniteSet(A) /\ Cardinality(A) \in Nat /\ Cardinality(B) \in Nat
  <2>1. IsFiniteSet((A \ {r}) \cup {r})
    BY <1>1, FS_AddElement
  <2>2. A \subseteq (A \ {r}) \cup {r}
    OBVIOUS
  <2>3. IsFiniteSet(A)
    BY <2>1, <2>2, FS_Subset
  <2> QED  BY <2>3, FS_CardinalityType
<1>3. Cardinality(A \ {r}) >= Cardinality(A) - 1
  <2>1. Cardinality(A \ {r}) = IF r \in A THEN Cardinality(A) - 1 ELSE Cardinality(A)
    BY ONLY <1>2, FS_RemoveElement, Zenon
  <2> QED  BY <1>2, <2>1
<1>4. CASE r \notin A /\ e <= d
  <2>1. A \subseteq B
    BY <1>4
  <2>2. Cardinality(A) <= Cardinality(B)
    BY <2>1, FS_Subset
  <2> QED  BY <1>2, <1>4, <2>2
<1>5. CASE e <= d - 1
  <2>1. Cardinality(A \ {r}) \in Nat
    BY <1>1, FS_CardinalityType
  <2> QED  BY <1>1, <1>2, <1>3, <1>5, <2>1
<1>6. CASE r \notin A /\ (\E h \in B : h \notin A) /\ e <= d + 1
  <2>1. PICK h \in B : h \notin A
    BY <1>6
  <2>2. Cardinality(A \cup {h}) = Cardinality(A) + 1
    BY <1>2, <2>1, FS_AddElement
  <2>3. A \cup {h} \subseteq B
    BY <1>6, <2>1
  <2>4. Cardinality(A \cup {h}) <= Cardinality(B)
    BY <2>3, FS_Subset
  <2> QED  BY <1>2, <1>6, <2>2, <2>4
<1> QED  BY <1>4, <1>5, <1>6

(* What a step keeps of the woken threads other than r, and whom it adds.   *)
Keeps(r) ==
  /\ active \subseteq active'
  /\ \A t \in active \ {r} :
       tqueue[t] = RunQ => tqueue'[t] = RunQ /\ KeepsCall(t)

LEMMA WokenKept ==
  ASSUME NEW r, Keeps(r), NEW q \in Queues, NEW ops \in SUBSET {"recv", "send", "jam"}
  PROVE  Woken(q, ops) \ {r} \subseteq Woken(q, ops)'
<1>1. NoCall.op = "none" /\ InBind.op = "bind"
  BY DEF NoCall, InBind
<1>2. \A t \in Woken(q, ops) : KeepsCall(t) => pend'[t] = pend[t]
  BY <1>1 DEF Woken, KeepsCall
<1> QED  BY <1>2 DEF Keeps, Woken

LEMMA WokenAdds ==
  ASSUME Inv, WaitInv, Quiet, NEW l \in WaitLists, Wakes(l), list[l] # << >>,
         active' = active, \A t \in active \ {running} : KeepsCall(t),
         NEW q \in Queues, NEW ops,
         \A c \in MesgCalls : WaitList(c) = l => c.q = q /\ c.op \in ops
  PROVE  \E h \in Woken(q, ops)' : h \notin Woken(q, ops)
<1>1. PICK h \in active : tqueue[h] = l /\ tqueue'[h] = RunQ
  BY DEF Wakes
<1>2. h # running /\ l # RunQ
  BY <1>1, ListFacts DEF WaitInv
<1>3. pend[h] \in MesgCalls /\ l = WaitList(pend[h]) /\ pend'[h] = pend[h]
  BY <1>1, <1>2, MesgCallFacts DEF WaitInv, KeepsCall
<1>4. h \in Woken(q, ops)'
  BY <1>1, <1>3 DEF Woken
<1>5. h \notin Woken(q, ops)
  BY <1>1, <1>2 DEF Woken
<1> QED  BY <1>4, <1>5

LEMMA WaitListIs ==
  ASSUME NEW c \in MesgCalls, NEW q \in Queues
  PROVE  /\ WaitList(c) = Mt(q) <=> c.q = q /\ c.op = "recv"
         /\ WaitList(c) = Full(q) <=> c.q = q /\ c.op \in {"send", "jam"}
<1>1. \A r \in Queues : Mt(q) # Full(r) /\ Full(q) # Mt(r)
  BY DEF Mt, Full
<1>2. \A r \in Queues : (Mt(q) = Mt(r) <=> q = r) /\ (Full(q) = Full(r) <=> q = r)
  BY DEF Mt, Full
<1>3. c.q \in Queues /\ c.op \in {"recv", "send", "jam"}
  BY MesgCallFacts
<1>4. CASE c.op = "recv"
  BY <1>1, <1>2, <1>3, <1>4 DEF WaitList
<1>5. CASE c.op # "recv"
  BY <1>1, <1>2, <1>3, <1>5 DEF WaitList
<1> QED  BY <1>4, <1>5

(* One queue, one of its two lists: d counts the messages (the free slots)  *)
(* before the step, e those after it.                                      *)
LEMMA WakeupsKept ==
  ASSUME IsFiniteSet(Threads), Inv, Inv', NEW r, Keeps(r),
         NEW q \in Queues, NEW ops \in SUBSET {"recv", "send", "jam"},
         NEW l \in WaitLists, NEW d \in Int, NEW e \in Int,
         list[l] # << >> => d <= Cardinality(Woken(q, ops)),
         \/ e <= 0
         \/ /\ list'[l] # << >> => list[l] # << >>
            /\ \/ r \notin Woken(q, ops) /\ e <= d
               \/ e <= d - 1
               \/ /\ r \notin Woken(q, ops) /\ e <= d + 1
                  /\ list[l] # << >> => \E h \in Woken(q, ops)' : h \notin Woken(q, ops)
  PROVE  list'[l] # << >> => e <= Cardinality(Woken(q, ops)')
<1> DEFINE A == Woken(q, ops)
           B == Woken(q, ops)'
<1>1. IsFiniteSet(B)
  <2>1. B \subseteq Threads
    BY InvFacts DEF Woken, Inv
  <2> QED  BY <2>1, FS_Subset
<1>2. Cardinality(B) \in Nat
  BY <1>1, FS_CardinalityType
<1>3. A \ {r} \subseteq B
  BY WokenKept
<1> HIDE DEF A, B
<1>4. CASE e <= 0
  BY <1>2, <1>4 DEF B
<1>5. CASE ~(e <= 0)
  <2> SUFFICES ASSUME list'[l] # << >> PROVE e <= Cardinality(B)
    BY DEF B
  <2>1. d <= Cardinality(A)
    BY <1>5 DEF A
  <2>2. \/ r \notin A /\ e <= d
        \/ e <= d - 1
        \/ r \notin A /\ (\E h \in B : h \notin A) /\ e <= d + 1
    BY <1>5 DEF A, B
  <2> QED  BY <1>1, <1>3, <2>1, <2>2, Counted
<1> QED  BY <1>4, <1>5

LEMMA WakeupsNext ==
  ASSUME IsFiniteSet(Threads), {WAITING, "destroy"} \cap Calls = {}
  PROVE  Inv /\ WaitInv /\ NoLostMessageWakeup /\ NoLostSlotWakeup /\ Inv' /\ [Next]_vars
           => NoLostMessageWakeup' /\ NoLostSlotWakeup'
<1> SUFFICES ASSUME Inv, WaitInv, NoLostMessageWakeup, NoLostSlotWakeup, Inv', [Next]_vars,
                    NEW q \in Queues
             PROVE  /\ list'[Mt(q)] # << >> =>
                         Len(msgs'[q]) <= Cardinality(Woken(q, {"recv"})')
                    /\ list'[Full(q)] # << >> =>
                         Capacity[q] - Len(msgs'[q]) <= Cardinality(Woken(q, {"send", "jam"})')
  BY DEF NoLostMessageWakeup, NoLostSlotWakeup, Woken
<1> DEFINE n == Len(msgs[q])
           m == Len(msgs'[q])
           R == Woken(q, {"recv"})
           S == Woken(q, {"send", "jam"})
<1>1. /\ n \in Nat /\ m \in Nat /\ Capacity[q] \in Nat
      /\ n <= Capacity[q] /\ m <= Capacity[q]
  <2>1. msgs \in Buffers /\ msgs' \in Buffers
    BY DEF Inv, DataTypes
  <2> QED  BY <2>1, LenProperties, KernelAssumption DEF Buffers, KernelAssumption
<1>2. /\ Mt(q) \in WaitLists /\ Full(q) \in WaitLists
      /\ list[Mt(q)] # << >> => n <= Cardinality(R)
      /\ list[Full(q)] # << >> => Capacity[q] - n <= Cardinality(S)
  BY ListFacts DEF NoLostMessageWakeup, NoLostSlotWakeup
<1>3. /\ active \in SUBSET Threads /\ running \in active
      /\ tqueue \in [Threads -> Lists \cup {NoQ}]
      /\ pend \in [Threads -> MesgCalls \cup {NoCall, InBind}]
  BY InvFacts
<1>4. NoCall.op = "none"
  BY DEF NoCall
<1>5. ASSUME NEW r, Keeps(r),
             \/ m <= 0
             \/ /\ list'[Mt(q)] # << >> => list[Mt(q)] # << >>
                /\ \/ r \notin R /\ m <= n
                   \/ m <= n - 1
                   \/ /\ r \notin R /\ m <= n + 1
                      /\ list[Mt(q)] # << >> => \E h \in Woken(q, {"recv"})' : h \notin R
      PROVE  list'[Mt(q)] # << >> => m <= Cardinality(Woken(q, {"recv"})')
  <2>1. n \in Int /\ m \in Int
    BY <1>1
  <2> HIDE DEF n, m
  <2> QED  BY <1>2, <1>5, <2>1, WakeupsKept
<1>6. ASSUME NEW d \in Int, NEW e \in Int, d = Capacity[q] - n, e = Capacity[q] - m,
             NEW r, Keeps(r),
             \/ e <= 0
             \/ /\ list'[Full(q)] # << >> => list[Full(q)] # << >>
                /\ \/ r \notin S /\ e <= d
                   \/ e <= d - 1
                   \/ /\ r \notin S /\ e <= d + 1
                      /\ list[Full(q)] # << >> =>
                           \E h \in Woken(q, {"send", "jam"})' : h \notin S
      PROVE  list'[Full(q)] # << >> =>
               Capacity[q] - m <= Cardinality(Woken(q, {"send", "jam"})')
  BY <1>2, <1>6, WakeupsKept
<1>7. \A c \in MesgCalls : pend[running] \in {NoCall, c} =>
        /\ running \in R => c.op = "recv" /\ c.q = q
        /\ running \in S => c.op \in {"send", "jam"} /\ c.q = q
  BY <1>4 DEF Woken
<1>8. \A c \in MesgCalls :
        /\ WaitList(c) = Mt(q) => c.q = q /\ c.op \in {"recv"}
        /\ WaitList(c) = Full(q) => c.q = q /\ c.op \in {"send", "jam"}
  BY WaitListIs
<1>9. ASSUME Quiet, Wakes(Mt(q)), active' = active,
             \A t \in active \ {running} : KeepsCall(t), list[Mt(q)] # << >>
      PROVE  \E h \in Woken(q, {"recv"})' : h \notin R
  BY <1>2, <1>8, <1>9, WokenAdds
<1>10. ASSUME Quiet, Wakes(Full(q)), active' = active,
              \A t \in active \ {running} : KeepsCall(t), list[Full(q)] # << >>
       PROVE  \E h \in Woken(q, {"send", "jam"})' : h \notin S
  BY <1>2, <1>8, <1>10, WokenAdds
<1> DEFINE d == Capacity[q] - n
           e == Capacity[q] - m
<1>11. d \in Int /\ e \in Int
  BY <1>1
<1>16. NoThread \notin R /\ NoThread \notin S
  BY <1>3, KernelAssumption DEF KernelAssumption, Woken
<1> HIDE DEF R, S
<1>12. ASSUME NEW c \in MesgCalls, Blocks(c)
       PROVE  /\ list'[Mt(q)] # << >> => m <= Cardinality(Woken(q, {"recv"})')
              /\ list'[Full(q)] # << >> => e <= Cardinality(Woken(q, {"send", "jam"})')
  <2>1. /\ MustWait(c) /\ pend[running] \in {NoCall, c} /\ active' = active /\ msgs' = msgs
        /\ tqueue' = [tqueue EXCEPT ![running] = WaitList(c)]
        /\ pend' = [pend EXCEPT ![running] = c]
        /\ \A k \in WaitLists \ {WaitList(c)} : list'[k] = list[k]
    BY <1>12 DEF Blocks
  <2>2. Keeps(running)
    BY <1>3, <2>1 DEF Keeps, KeepsCall
  <2>3. list'[Mt(q)] # << >> => m <= Cardinality(Woken(q, {"recv"})')
    <3>1. CASE c.op = "recv" /\ c.q = q
      <4>1. m = 0
        BY <2>1, <3>1, EmptySeq DEF MustWait
      <4> QED  BY <1>5, <2>2, <4>1
    <3>2. CASE ~(c.op = "recv" /\ c.q = q)
      <4>1. WaitList(c) # Mt(q) /\ running \notin R
        BY <1>7, <1>8, <2>1, <3>2
      <4>2. list'[Mt(q)] = list[Mt(q)] /\ m <= n
        BY <1>1, <1>2, <2>1, <4>1
      <4> QED  BY <1>5, <2>2, <4>1, <4>2
    <3> QED  BY <3>1, <3>2
  <2>4. list'[Full(q)] # << >> => e <= Cardinality(Woken(q, {"send", "jam"})')
    <3>1. CASE c.op # "recv" /\ c.q = q
      <4>1. e <= 0
        BY <1>1, <2>1, <3>1 DEF MustWait
      <4> QED  BY <1>6, <1>11, <2>2, <4>1
    <3>2. CASE ~(c.op # "recv" /\ c.q = q)
      <4>1. WaitList(c) # Full(q) /\ running \notin S
        BY <1>7, <1>8, <2>1, <3>2
      <4>2. list'[Full(q)] = list[Full(q)] /\ e <= d
        BY <1>1, <1>2, <2>1, <4>1
      <4> QED  BY <1>6, <1>11, <2>2, <4>1, <4>2
    <3> QED  BY <3>1, <3>2
  <2> QED  BY <2>3, <2>4
<1>13. ASSUME NEW c \in MesgCalls, Completes(c)
       PROVE  /\ list'[Mt(q)] # << >> => m <= Cardinality(Woken(q, {"recv"})')
              /\ list'[Full(q)] # << >> => e <= Cardinality(Woken(q, {"send", "jam"})')
  <2>1. /\ pend[running] \in {NoCall, c} /\ active' = active /\ Quiet
        /\ pend' = [pend EXCEPT ![running] = NoCall]
        /\ IF c.op = "recv"
           THEN Shrinks(c.q) /\ Wakes(Full(c.q))
           ELSE Grows(c.q) /\ Wakes(Mt(c.q))
    BY <1>13 DEF Completes, Returned
  <2>2. /\ \A t \in active \ {running} : KeepsCall(t)
        /\ list'[Mt(q)] # << >> => list[Mt(q)] # << >>
        /\ list'[Full(q)] # << >> => list[Full(q)] # << >>
    BY <1>2, <1>3, <2>1 DEF Quiet, KeepsCall
  <2>3. Keeps(running)
    BY <2>1, <2>2 DEF Keeps, Quiet
  <2>4. CASE c.q # q
    <3>1. m = n /\ running \notin R /\ running \notin S
      BY <1>7, <2>1, <2>4 DEF Grows, Shrinks
    <3>2. m <= n /\ e <= d
      BY <1>1, <3>1
    <3> QED  BY <1>5, <1>6, <1>11, <2>2, <2>3, <3>1, <3>2
  <2>5. CASE c.q = q /\ c.op = "recv"
    <3>1. m = n - 1 /\ running \notin S /\ Wakes(Full(q))
      BY <1>7, <2>1, <2>5 DEF Shrinks
    <3>2. m <= n - 1 /\ e <= d + 1
      BY <1>1, <3>1
    <3>3. list[Full(q)] # << >> => \E h \in Woken(q, {"send", "jam"})' : h \notin S
      BY <1>10, <2>1, <2>2, <3>1
    <3> QED  BY <1>5, <1>6, <1>11, <2>2, <2>3, <3>1, <3>2, <3>3
  <2>6. CASE c.q = q /\ c.op # "recv"
    <3>1. m = n + 1 /\ running \notin R /\ Wakes(Mt(q))
      BY <1>7, <2>1, <2>6 DEF Grows
    <3>2. m <= n + 1 /\ e <= d - 1
      BY <1>1, <3>1
    <3>3. list[Mt(q)] # << >> => \E h \in Woken(q, {"recv"})' : h \notin R
      BY <1>9, <2>1, <2>2, <3>1
    <3> QED  BY <1>5, <1>6, <1>11, <2>2, <2>3, <3>1, <3>2, <3>3
  <2> QED  BY <2>4, <2>5, <2>6
<1>14. ASSUME NEW p \in Queues, Posts(p)
       PROVE  /\ list'[Mt(q)] # << >> => m <= Cardinality(Woken(q, {"recv"})')
              /\ list'[Full(q)] # << >> => e <= Cardinality(Woken(q, {"send", "jam"})')
  <2>1. /\ active' = active /\ Quiet /\ Grows(p) /\ Wakes(Mt(p))
        /\ \A t \in active : KeepsCall(t)
    BY <1>14 DEF Posts
  <2>2. /\ list'[Mt(q)] # << >> => list[Mt(q)] # << >>
        /\ list'[Full(q)] # << >> => list[Full(q)] # << >>
    BY <1>2, <2>1 DEF Quiet
  <2>3. Keeps(NoThread)
    BY <2>1 DEF Keeps, Quiet
  <2>4. CASE p # q
    <3>1. m = n
      BY <2>1, <2>4 DEF Grows
    <3>2. m <= n /\ e <= d
      BY <1>1, <3>1
    <3> QED  BY <1>5, <1>6, <1>11, <1>16, <2>2, <2>3, <3>2
  <2>5. CASE p = q
    <3>1. m = n + 1 /\ Wakes(Mt(q))
      BY <2>1, <2>5 DEF Grows
    <3>2. m <= n + 1 /\ e <= d - 1
      BY <1>1, <3>1
    <3>3. list[Mt(q)] # << >> => \E h \in Woken(q, {"recv"})' : h \notin R
      BY <1>9, <2>1, <3>1
    <3> QED  BY <1>5, <1>6, <1>11, <1>16, <2>2, <2>3, <3>2, <3>3
  <2> QED  BY <2>4, <2>5
<1>15. ASSUME Passes
       PROVE  /\ list'[Mt(q)] # << >> => m <= Cardinality(Woken(q, {"recv"})')
              /\ list'[Full(q)] # << >> => e <= Cardinality(Woken(q, {"send", "jam"})')
  <2>1. /\ Quiet /\ active \subseteq active' /\ msgs' = msgs
        /\ \A t \in active' : IF t \in active THEN KeepsCall(t) ELSE tqueue'[t] = NoQ
    BY <1>15 DEF Passes
  <2>2. /\ list'[Mt(q)] # << >> => list[Mt(q)] # << >>
        /\ list'[Full(q)] # << >> => list[Full(q)] # << >>
    BY <1>2, <2>1 DEF Quiet
  <2>3. Keeps(NoThread)
    BY <2>1 DEF Keeps, Quiet
  <2>4. m <= n /\ e <= d
    BY <1>1, <2>1
  <2> QED  BY <1>5, <1>6, <1>11, <1>16, <2>2, <2>3, <2>4
<1> QED  BY <1>12, <1>13, <1>14, <1>15, StepKinds

LEMMA WakeupsInvariant ==
  ASSUME IsFiniteSet(Threads), {WAITING, "destroy"} \cap Calls = {}
  PROVE  Spec => [](NoLostMessageWakeup /\ NoLostSlotWakeup)
<1> DEFINE NoLost == NoLostMessageWakeup /\ NoLostSlotWakeup
<1>1. Init => NoLost
  BY ListFacts DEF Init, NoLostMessageWakeup, NoLostSlotWakeup
<1>2. (Inv /\ WaitInv) /\ (Inv /\ WaitInv)' /\ NoLost /\ [Next]_vars => NoLost'
  BY WakeupsNext
<1>3. Spec => [](Inv /\ WaitInv)
  BY WaitInvariant
<1> HIDE DEF NoLost
<1>4. Spec => []NoLost
  BY <1>1, <1>2, <1>3, PTL DEF Spec
<1> QED  BY <1>4 DEF NoLost

(* While a receiver still sleeps on a queue, there are no more messages in  *)
(* it than woken receivers on their way to take them, in a program that    *)
(* destroys no thread; the run kernel_destroy shows why that is needed.    *)
THEOREM KernelNoLostMessages ==
  ASSUME IsFiniteSet(Threads), {WAITING, "destroy"} \cap Calls = {}
  PROVE  Spec => []NoLostMessageWakeup
BY WakeupsInvariant, PTL

(* And while a sender still sleeps, no more free slots than woken senders.  *)
THEOREM KernelNoLostSlots ==
  ASSUME IsFiniteSet(Threads), {WAITING, "destroy"} \cap Calls = {}
  PROVE  Spec => []NoLostSlotWakeup
BY WakeupsInvariant, PTL

-----------------------------------------------------------------------------
(* Yielding, and the reset notice.                                         *)

(* A thread is inserted behind every thread of its own priority.            *)
LEMMA InsertedBehind ==
  ASSUME NEW s \in Seq(Threads), NEW prio \in [Threads -> Nat], NEW t \in Threads,
         Descending(s, prio), NEW k \in DOMAIN s, prio[s[k]] = prio[t]
  PROVE  LET r == InsertThread(s, t, prio)
         IN  \E j \in 1 .. Len(s) + 1 : k < j /\ r[k] = s[k] /\ r[j] = t
<1> DEFINE i == InsertPos(s, prio[t], prio)
           r == InsertThread(s, t, prio)
<1>1. Len(s) \in Nat /\ DOMAIN s = 1 .. Len(s) /\ \A m \in 1 .. Len(s) : s[m] \in Threads
  BY ElementOfSeq, LenProperties
<1>2. i \in 1 .. Len(s) + 1 /\ (i <= Len(s) => prio[s[i]] < prio[t])
  <2>1. prio[t] \in Nat
    OBVIOUS
  <2> QED  BY <2>1, InsertPosIs
<1> HIDE DEF i
<1>3. r = [j \in 1 .. Len(s) + 1 |-> IF j < i THEN s[j] ELSE IF j = i THEN t ELSE s[j - 1]]
  BY DEF InsertThread, i
<1> HIDE DEF r
<1>4. k < i
  <2> SUFFICES ASSUME ~(k < i) PROVE FALSE
    OBVIOUS
  <2>1. i \in 1 .. Len(s) /\ prio[s[i]] < prio[s[k]] /\ prio[s[i]] \in Nat /\ prio[s[k]] \in Nat
    BY <1>1, <1>2
  <2>2. prio[s[i]] >= prio[s[k]]
    <3>1. CASE i = k
      BY <2>1, <3>1
    <3>2. CASE i < k
      BY <1>1, <2>1, <3>2 DEF Descending
    <3> QED  BY <1>1, <2>1, <3>1, <3>2
  <2> QED  BY <2>1, <2>2
<1>5. r[k] = s[k] /\ r[i] = t
  BY <1>1, <1>2, <1>3, <1>4
<1> QED  BY <1>2, <1>4, <1>5 DEF r

(* osYieldThread goes behind every ready thread of the same priority.       *)
THEOREM KernelYield ==
  ASSUME WAITING \notin Calls
  PROVE  Spec => YieldIsRoundRobin
<1> DEFINE Robin ==
             \A t \in Threads :
               OsYieldThread /\ On(t, RunQ) /\ pri[t] = pri[running] =>
                 \/ t = running'
                 \/ \E i, j \in DOMAIN list'[RunQ] :
                      i < j /\ list'[RunQ][i] = t /\ list'[RunQ][j] = running
<1>1. ASSUME Inv PROVE Robin
  <2> SUFFICES ASSUME NEW t \in Threads, OsYieldThread, On(t, RunQ), pri[t] = pri[running],
                      t # running'
               PROVE  \E i, j \in DOMAIN list'[RunQ] :
                        i < j /\ list'[RunQ][i] = t /\ list'[RunQ][j] = running
    OBVIOUS
  <2> DEFINE s == list[RunQ]
             r == InsertThread(s, running, pri)
             L == Enqueued(list, RunQ, running, pri)
  <2>1. /\ list \in [Lists -> Seq(Threads)] /\ RunQ \in Lists /\ running \in Threads
        /\ pri \in [Threads -> Nat] /\ s \in Seq(Threads) /\ Descending(s, pri)
    BY <1>1, InvFacts, ListFacts DEF ListsOK
  <2>2. list' = Popped(L, RunQ) /\ running' = Head(L[RunQ])
    BY ListFacts DEF OsYieldThread, EnqueueAndYield, DispatchThread
  <2>3. L = [list EXCEPT ![RunQ] = r]
    BY DEF Enqueued
  <2>4. r \in Seq(Threads) /\ r # << >>
    BY <2>1, InsertThreadIs
  <2>5. PICK k \in DOMAIN s : s[k] = t
    BY DEF On
  <2>6. PICK j \in 1 .. Len(s) + 1 : k < j /\ r[k] = t /\ r[j] = running
    <3>1. pri[s[k]] = pri[running]
      BY <2>5
    <3> HIDE DEF s
    <3>2. \E j \in 1 .. Len(s) + 1 : k < j /\ r[k] = s[k] /\ r[j] = running
      <4>1. s \in Seq(Threads) /\ pri \in [Threads -> Nat] /\ running \in Threads /\ Descending(s, pri)
        BY <2>1
      <4> QED  BY ONLY <4>1, <3>1, k \in DOMAIN s, InsertedBehind, ZenonT(60)
    <3> HIDE DEF r
    <3> QED  BY <2>5, <3>2
  <2>7. Len(s) \in Nat /\ DOMAIN s = 1 .. Len(s) /\ Len(r) = Len(s) + 1
    <3>1. Len(s) \in Nat /\ DOMAIN s = 1 .. Len(s)
      BY <2>1, LenProperties
    <3>2. DOMAIN r = 1 .. Len(s) + 1
      BY DEF InsertThread
    <3>3. Len(r) \in Nat /\ DOMAIN r = 1 .. Len(r)
      BY <2>4, LenProperties
    <3> HIDE DEF r, s
    <3> QED  BY <3>1, <3>2, <3>3
  <2> HIDE DEF r, s
  <2>8. list'[RunQ] = Tail(r) /\ running' = Head(r)
    <3>1. L[RunQ] = r /\ L \in [Lists -> Seq(Threads)]
      BY <2>1, <2>3, <2>4
    <3> HIDE DEF L
    <3> QED  BY <2>1, <2>2, <3>1 DEF Popped
  <2>9. /\ Head(r) = r[1] /\ Tail(r) \in Seq(Threads) /\ Len(Tail(r)) = Len(s)
        /\ \A m \in 1 .. Len(s) : Tail(r)[m] = r[m + 1]
    BY <2>4, <2>7, HeadTailProperties
  <2>10. DOMAIN Tail(r) = 1 .. Len(s)
    BY <2>9, LenProperties
  <2>11. k # 1
    BY <2>6, <2>8, <2>9
  <2>12. /\ k - 1 \in 1 .. Len(s) /\ j - 1 \in 1 .. Len(s) /\ k - 1 < j - 1
         /\ (k - 1) + 1 = k /\ (j - 1) + 1 = j
    BY <2>5, <2>6, <2>7, <2>11
  <2>13. Tail(r)[k - 1] = t /\ Tail(r)[j - 1] = running
    BY <2>6, <2>9, <2>12
  <2> QED  BY <2>8, <2>10, <2>12, <2>13
<1>2. Spec => [][Robin]_vars
  <2>1. Inv /\ [Next]_vars => [Robin]_vars
    BY <1>1
  <2> QED  BY <2>1, KernelInvariant, PTL DEF Spec
<1> QED  BY <1>2 DEF YieldIsRoundRobin

Registered == "prenmi" \in Events /\ eventTab["prenmi"] # NoBinding

(* __osPreNMI follows the registration, except while one is cut off between *)
(* the notice and the flag.                                                *)
PreInv ==
  /\ Registered <=> preNMI \/ \E t \in Threads : pend[t] = InBind
  /\ \A t \in Threads \ active : pend[t] = NoCall

LEMMA BindingIs == ASSUME NEW b \in Bindings PROVE b # NoBinding /\ b.q \in Queues /\ b.m \in Messages
<1>1. DOMAIN b = {"q", "m"} /\ DOMAIN NoBinding = {"q"}
  BY DEF Bindings, NoBinding
<1>2. "m" # "q"
  OBVIOUS
<1>3. b # NoBinding
  BY <1>1, <1>2
<1> QED  BY <1>3 DEF Bindings

LEMMA PreInvNext ==
  ASSUME "destroy" \notin Calls
  PROVE  Inv /\ PreInv /\ [Next]_vars => PreInv'
<1> SUFFICES ASSUME Inv, PreInv, [Next]_vars PROVE PreInv'
  OBVIOUS
<1>1. /\ eventTab \in [Events -> Bindings \cup {NoBinding}] /\ preNMI \in BOOLEAN
      /\ pend \in [Threads -> MesgCalls \cup {NoCall, InBind}]
      /\ running \in Threads /\ running \in active /\ active \in SUBSET Threads
  BY InvFacts DEF Inv, DataTypes
<1>2. NoCall # InBind /\ \A c \in MesgCalls : c # InBind
  <2>1. NoCall.op # InBind.op
    BY DEF NoCall, InBind
  <2> QED  BY <2>1, MesgCallFacts
<1>3. ASSUME eventTab' = eventTab, preNMI' = preNMI, active \subseteq active',
             \A t \in Threads : pend[t] = InBind <=> pend'[t] = InBind,
             \A t \in Threads \ active' : pend'[t] = pend[t]
      PROVE  PreInv'
  BY <1>3 DEF PreInv, Registered
<1>4. ASSUME UNCHANGED <<pend, active, eventTab, preNMI>> PROVE PreInv'
  BY <1>3, <1>4
<1>5. ASSUME NEW c \in MesgCalls, DoCall(c), pend[running] \in {NoCall, c},
             UNCHANGED <<active, eventTab, preNMI>>
      PROVE  PreInv'
  <2>1. pend' = [pend EXCEPT ![running] = c] \/ pend' = [pend EXCEPT ![running] = NoCall]
    BY <1>5 DEF DoCall, RecvMesg, SendMesg, JamMesg, BlockOn, Returned, MesgCalls
  <2>2. pend[running] # InBind
    BY <1>2, <1>5
  <2>3. \A t \in Threads : pend[t] = InBind <=> pend'[t] = InBind
    BY <1>1, <1>2, <2>1, <2>2
  <2>4. \A t \in Threads \ active' : pend'[t] = pend[t]
    BY <1>1, <1>5, <2>1
  <2> QED  BY <1>3, <1>5, <2>3, <2>4
<1>6. ASSUME NEW c \in MesgCalls, NEW block \in BOOLEAN, CallMesg(c, block) PROVE PreInv'
  <2>1. DoCall(c) /\ pend[running] = NoCall /\ UNCHANGED <<active, eventTab, preNMI>>
    BY <1>6 DEF CallMesg, InThread, eventVars
  <2> QED  BY <1>5, <2>1
<1>7. CASE ResumeMesg
  <2>1. /\ DoCall(pend[running]) /\ pend[running] \in MesgCalls
        /\ UNCHANGED <<active, eventTab, preNMI>>
    BY <1>7 DEF ResumeMesg, eventVars
  <2> QED  BY <1>5, <2>1
<1>8. ASSUME NEW t \in Threads, NEW p \in Priorities, OsCreateThread(t, p) PROVE PreInv'
  <2>1. /\ t \notin active /\ active' = active \cup {t} /\ pend' = [pend EXCEPT ![t] = NoCall]
        /\ UNCHANGED <<eventTab, preNMI>>
    BY <1>8 DEF OsCreateThread, eventVars
  <2>2. pend[t] # InBind
    BY <1>2, <2>1 DEF PreInv
  <2>3. \A u \in Threads : pend[u] = InBind <=> pend'[u] = InBind
    BY <1>1, <1>2, <2>1, <2>2
  <2> QED  BY <1>1, <1>3, <2>1, <2>3
<1>9. ASSUME NEW e \in Events, NEW b \in Bindings, OsSetEventMesg(e, b) PROVE PreInv'
  <2>1. /\ eventTab' = [eventTab EXCEPT ![e] = b] /\ active' = active
        /\ pend[running] = NoCall
    BY <1>9 DEF OsSetEventMesg, InThread
  <2>2. \/ pend' = pend /\ preNMI' = (preNMI \/ e = "prenmi")
        \/ pend' = [pend EXCEPT ![running] = InBind] /\ preNMI' = preNMI /\ e = "prenmi"
    BY <1>9 DEF OsSetEventMesg, threadVars
  <2>3. \A t \in Threads \ active' : pend'[t] = NoCall
    BY <1>1, <2>1, <2>2 DEF PreInv
  <2>5. CASE e = "prenmi"
    <3>1. Registered'
      BY <1>1, <2>1, <2>5, BindingIs DEF Registered
    <3>2. preNMI' \/ \E t \in Threads : pend'[t] = InBind
      BY <1>1, <2>2, <2>5
    <3> QED  BY <2>3, <3>1, <3>2 DEF PreInv
  <2>6. CASE e # "prenmi"
    <3>1. Registered' <=> Registered
      BY <1>1, <2>1, <2>6 DEF Registered
    <3>2. preNMI' = preNMI /\ pend' = pend
      BY <1>1, <2>2, <2>6
    <3> QED  BY <2>3, <3>1, <3>2 DEF PreInv
  <2> QED  BY <2>5, <2>6
<1>10. CASE FinishBind
  <2>1. /\ pend[running] = InBind /\ pend' = [pend EXCEPT ![running] = NoCall]
        /\ preNMI' = TRUE /\ UNCHANGED <<active, eventTab>>
    BY <1>10 DEF FinishBind, Returned
  <2>2. Registered /\ Registered'
    BY <1>1, <2>1 DEF PreInv, Registered
  <2>3. \A t \in Threads \ active' : pend'[t] = NoCall
    BY <1>1, <2>1 DEF PreInv
  <2> QED  BY <2>1, <2>2, <2>3 DEF PreInv
<1>11. \/ UNCHANGED <<pend, active, eventTab, preNMI>>
       \/ \E c \in MesgCalls, block \in BOOLEAN : CallMesg(c, block)
       \/ ResumeMesg
       \/ \E t \in Threads, p \in Priorities : OsCreateThread(t, p)
       \/ \E e \in Events, b \in Bindings : OsSetEventMesg(e, b)
       \/ FinishBind
  BY DEF Next, vars, eventVars, OsYieldThread, OsStartThread, OsStopThread, OsDestroyThread,
     OsSetThreadPri, ExceptionEntry, ServeCause, ServePreNmi, Redispatch, Panic
<1> QED  BY <1>4, <1>6, <1>7, <1>8, <1>9, <1>10, <1>11

(* Whichever comes first, the pre-NMI interrupt or the program's call to    *)
(* register for it, the notice is posted at the second; and again only by  *)
(* a registration made while another one is cut off between the notice it  *)
(* sent and the flag, in a program that destroys no thread.                *)
THEOREM KernelPreNmi ==
  ASSUME "prenmi" \in Events, {WAITING, "destroy"} \cap Calls = {}
  PROVE  Spec => PreNmiNotice
<1> DEFINE Notice ==
             ServePreNmi \/ (\E b \in Bindings : OsSetEventMesg("prenmi", b)) =>
               LET q     == eventTab'["prenmi"].q
                   bound == eventTab["prenmi"] # NoBinding
                   first == shutdown' /\ eventTab'["prenmi"] # NoBinding /\ ~(shutdown /\ bound)
                   cut   == \E t \in Threads : pend[t] = InBind
               IN  /\ first /\ Len(msgs[q]) < Capacity[q] => msgs' # msgs
                   /\ msgs' # msgs => first \/ (shutdown /\ cut)
<1>1. Init => PreInv
  <2>1. NoCall # InBind
    <3>1. NoCall.op # InBind.op
      BY DEF NoCall, InBind
    <3> QED  BY <3>1
  <2> QED  BY <2>1 DEF Init, PreInv, Registered
<1>2. ASSUME NEW q \in Queues, NEW m \in Messages, msgs \in Buffers,
             msgs' = [msgs EXCEPT ![q] = Append(@, m)]
      PROVE  msgs' # msgs
  <2>1. msgs[q] \in Seq(Messages) /\ msgs'[q] = Append(msgs[q], m)
    BY <1>2 DEF Buffers
  <2>2. Len(msgs'[q]) = Len(msgs[q]) + 1 /\ Len(msgs[q]) \in Nat
    BY <2>1, AppendProperties, LenProperties
  <2> QED  BY <2>2
<1>3. ASSUME Inv, PreInv PROVE Notice
  <2>1. /\ eventTab \in [Events -> Bindings \cup {NoBinding}] /\ msgs \in Buffers
        /\ preNMI \in BOOLEAN /\ shutdown \in BOOLEAN
    BY <1>3 DEF Inv, DataTypes
  <2> DEFINE q     == eventTab'["prenmi"].q
             bound == eventTab["prenmi"] # NoBinding
             first == shutdown' /\ eventTab'["prenmi"] # NoBinding /\ ~(shutdown /\ bound)
             cut   == \E t \in Threads : pend[t] = InBind
             Right == /\ first /\ Len(msgs[q]) < Capacity[q] => msgs' # msgs
                      /\ msgs' # msgs => first \/ (shutdown /\ cut)
  <2>2. ASSUME ServePreNmi PROVE Right
    <3>1. eventTab' = eventTab /\ shutdown' = TRUE /\ "prenmi" \in Events
      BY <1>3, <2>2 DEF ServePreNmi, IsNextCause, Inv, DataTypes
    <3>2. CASE shutdown
      BY <2>2, <3>1, <3>2 DEF ServePreNmi
    <3>3. CASE ~shutdown
      <4> DEFINE b == eventTab["prenmi"]
      <4>1. PostEvent("prenmi")
        BY <2>2, <3>3 DEF ServePreNmi
      <4>2. CASE b # NoBinding /\ Len(msgs[b.q]) < Capacity[b.q]
        <5>1. msgs' = [msgs EXCEPT ![b.q] = Append(@, b.m)]
          BY <4>1, <4>2 DEF PostEvent
        <5>2. b \in Bindings
          BY <2>1, <3>1, <4>2
        <5>3. msgs' # msgs
          BY <1>2, <2>1, <5>1, <5>2, BindingIs
        <5> QED  BY <3>1, <3>3, <4>2, <5>3
      <4>3. CASE ~(b # NoBinding /\ Len(msgs[b.q]) < Capacity[b.q])
        <5>1. msgs' = msgs
          BY <4>1, <4>3 DEF PostEvent
        <5> QED  BY <3>1, <4>3, <5>1
      <4> QED  BY <4>2, <4>3
    <3> QED  BY <3>2, <3>3
  <2>3. ASSUME NEW b \in Bindings, OsSetEventMesg("prenmi", b) PROVE Right
    <3>1. eventTab' = [eventTab EXCEPT !["prenmi"] = b] /\ shutdown' = shutdown
      BY <2>3 DEF OsSetEventMesg
    <3>3. q = b.q /\ eventTab'["prenmi"] # NoBinding
      BY <2>1, <3>1, BindingIs
    <3>4. b.q \in Queues /\ b.m \in Messages
      BY BindingIs
    <3>5. bound <=> preNMI \/ cut
      BY <1>3 DEF PreInv, Registered
    <3> HIDE DEF q, cut, bound
    <3>6. CASE shutdown /\ ~preNMI /\ Len(msgs[b.q]) < Capacity[b.q]
      <4>1. msgs' = [msgs EXCEPT ![b.q] = Append(@, b.m)]
        BY <2>3, <3>6 DEF OsSetEventMesg
      <4>2. msgs' # msgs
        BY <1>2, <2>1, <3>4, <4>1
      <4> QED  BY <3>1, <3>3, <3>5, <3>6, <4>2
    <3>7. CASE ~(shutdown /\ ~preNMI /\ Len(msgs[b.q]) < Capacity[b.q])
      <4>1. msgs' = msgs
        BY <2>3, <3>7 DEF OsSetEventMesg
      <4> QED  BY <3>1, <3>3, <3>5, <3>7, <4>1
    <3> QED  BY <3>6, <3>7
  <2> QED  BY <2>2, <2>3
<1>4. WAITING \notin Calls /\ "destroy" \notin Calls
  OBVIOUS
<1>5. Spec => []Inv
  BY <1>4, KernelInvariant
<1>6. Inv /\ PreInv /\ [Next]_vars => PreInv'
  BY <1>4, PreInvNext
<1>7. Spec => []PreInv
  BY <1>1, <1>5, <1>6, PTL DEF Spec
<1>8. Inv /\ PreInv /\ [Next]_vars => [Notice]_vars
  BY <1>3
<1> HIDE DEF Notice
<1>9. Spec => [][Notice]_vars
  BY <1>5, <1>7, <1>8, PTL DEF Spec
<1> QED  BY <1>9 DEF PreNmiNotice, Notice
===============================================================================
