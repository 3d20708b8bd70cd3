------------------------------ MODULE VoiceProofs ------------------------------
(***************************************************************************)
(* Theorems about the voices of libnaudio, for any number of voices and    *)
(* updates, any priorities, and any player, frames and ramps in blocks.    *)
(*                                                                         *)
(* The lists part the physical voices (ListsOk); an allocated one and its  *)
(* logical voice name each other unless an update that frees it waits,     *)
(* which is then the last of its list (LinkInv).  The updates of a voice   *)
(* are in the order of their times, from the place the pull has reached to *)
(* the present and the offset of a theft (TimesInv): this makes each span  *)
(* none or a block.  A voice that was given back ends with its stop before *)
(* the frame does (SpareInv).  A fade is followed by its stop 552 samples  *)
(* later, and while it lasts, where the ramp is and the time of that stop  *)
(* are at least 460 apart (FadeInv): two blocks, and half a block that     *)
(* rounding can take.                                                      *)
(***************************************************************************)
EXTENDS NVoices, Induction, SequenceTheorems

-----------------------------------------------------------------------------
(* The inductive invariant.                                                *)

UpdateTypes == {"start", "stop", "free", "pitch", "fxamt", "pan", "volume", "startalt"}
NvUpdate == [type : UpdateTypes, delta : Int, data : Int, ramp : Nat]
Mixer == [motion : {"stopped", "playing"}, first : BOOLEAN, cvol : Int, volume : Int, gain : Int, tgt : Int,
          rate : Int \X Int, delta : Nat, segEnd : Nat]
SynTypes == [phase : {"idle", "handler", "pull"}, left : Nat, cur : 0 .. 15, len : Nat, at : Phys,
             out : {0, SAMPLES}, clock : Int]

NvTypes ==
  /\ pLists \in [free : Seq(Phys), lame : Seq(Phys), alloc : Seq(Phys)]
  /\ pvoice \in [Logical -> {0} \cup Phys]
  /\ vvoice \in [Phys -> {0} \cup Logical]
  /\ pOffset \in [Phys -> {0, 552}]
  /\ ctrlList \in [Phys -> Seq(NvUpdate)]
  /\ paramList \in Nat
  /\ em \in [Phys -> Mixer]
  /\ syn \in SynTypes
  /\ nvClient \in NvPlayers

(* Where the frame is.                                                     *)
FrameInv ==
  /\ syn.len % SAMPLES = 0
  /\ syn.phase = "handler" => syn.left < syn.len
  /\ syn.phase = "pull" =>
       /\ syn.left >= syn.len /\ syn.len >= SAMPLES
       /\ IF syn.out = SAMPLES THEN syn.clock = 0 ELSE syn.clock \in 92 .. 275

Members(s) == {s[i] : i \in 1 .. Len(s)}
Distinct(s) == \A i, j \in 1 .. Len(s) : s[i] = s[j] => i = j
Parted(free, lame, alloc) ==
  /\ Distinct(free) /\ Distinct(lame) /\ Distinct(alloc)
  /\ Members(free) \cap Members(lame) = {} /\ Members(free) \cap Members(alloc) = {}
  /\ Members(lame) \cap Members(alloc) = {}
  /\ Members(free) \cup Members(lame) \cup Members(alloc) = Phys
ListsOk(L) == L \in [free : Seq(Phys), lame : Seq(Phys), alloc : Seq(Phys)] /\ Parted(L.free, L.lame, L.alloc)

Alloc == Members(pLists.alloc)
Owned(p) == \E l \in Logical : pvoice[l] = p
Freed(p) == \E i \in 1 .. Len(ctrlList[p]) : ctrlList[p][i].type = "free"

NamesAgree == \A l \in Logical : pvoice[l] # 0 => pvoice[l] \in Alloc /\ vvoice[pvoice[l]] = l
AllocNamed == \A p \in Alloc : vvoice[p] \in Logical /\ (pvoice[vvoice[p]] = p \/ Freed(p))
OffsetsAlloc == \A p \in Phys : pOffset[p] # 0 => p \in Alloc
FreesLast ==
  \A p \in Phys : \A i \in 1 .. Len(ctrlList[p]) : ctrlList[p][i].type = "free" =>
    i = Len(ctrlList[p]) /\ p \in Alloc /\ pOffset[p] # 0 /\ ~Owned(p)
LinkInv == NamesAgree /\ AllocNamed /\ OffsetsAlloc /\ FreesLast

(* The earliest time an update of p can have.                              *)
Earliest(p) ==
  IF syn.phase = "idle" THEN 0
  ELSE IF syn.phase = "handler" \/ p > syn.at THEN -15
  ELSE IF p < syn.at THEN SAMPLES
  ELSE IF syn.out = SAMPLES THEN -15 ELSE syn.clock
TimesInv ==
  \A p \in Phys :
    /\ \A i, j \in 1 .. Len(ctrlList[p]) : i <= j => ctrlList[p][i].delta <= ctrlList[p][j].delta
    /\ \A i \in 1 .. Len(ctrlList[p]) : ctrlList[p][i].delta \in Earliest(p) .. NvNow + pOffset[p]

Stopped(p) == em[p].motion = "stopped"
Quiet(p) == ctrlList[p] = <<>> /\ Stopped(p)
EndsStopped(p) == IF ctrlList[p] = <<>> THEN Stopped(p) ELSE ctrlList[p][Len(ctrlList[p])].type = "stop"
EndsBefore(p, n) == \A i \in 1 .. Len(ctrlList[p]) : ctrlList[p][i].delta < n
FreesStopped(p) ==
  \A i \in 1 .. Len(ctrlList[p]) : ctrlList[p][i].type = "free" =>
    IF i = 1 THEN Stopped(p) ELSE ctrlList[p][i - 1].type = "stop"
SpareInv ==
  /\ \A p \in Members(pLists.free) : Quiet(p)
  /\ \A p \in Members(pLists.lame) : EndsStopped(p) /\ EndsBefore(p, syn.len)
  /\ syn.phase = "idle" => pLists.lame = <<>>
  /\ \A p \in Phys : FreesStopped(p)

(* How much of the block the pull of p is through with.                    *)
Done(p) ==
  IF syn.phase # "pull" \/ p > syn.at THEN 0 ELSE IF p < syn.at THEN SAMPLES ELSE SAMPLES - syn.out
Fades(u) == u.type = "volume" /\ u.data = 0
FadesListed(c) ==
  \A i \in 1 .. Len(c) :
    /\ c[i].type \in {"volume", "startalt"} => c[i].data = 32767 \/ Fades(c[i])
    /\ Fades(c[i]) => c[i].ramp = 368 /\ i < Len(c) /\ c[i + 1].type = "stop" /\ c[i + 1].delta = c[i].delta + 552
FadesOn(m, c, done) ==
  m.volume = 0 =>
    /\ c # <<>> /\ c[1].type = "stop"
    /\ m.motion = "playing" =>
         /\ m.segEnd = 368 /\ m.delta % SAMPLES = 0
         /\ m.delta >= 368 \/ c[1].delta - done + m.delta >= 460
FadeInv == \A p \in Phys : FadesListed(ctrlList[p]) /\ FadesOn(em[p], ctrlList[p], Done(p))

VoiceInd == NvTypes /\ FrameInv /\ ListsOk(pLists) /\ LinkInv /\ TimesInv /\ SpareInv /\ UpdatesKept

-----------------------------------------------------------------------------
(* Lists: a voice added in front, taken off, and a list turned round.      *)

LEMMA Consed ==
  ASSUME NEW S, NEW s \in Seq(S), NEW p \in S
  PROVE  /\ <<p>> \o s \in Seq(S)
         /\ Members(<<p>> \o s) = {p} \cup Members(s)
         /\ Distinct(s) /\ p \notin Members(s) => Distinct(<<p>> \o s)
<1> DEFINE c == <<p>> \o s
<1>1. c \in Seq(S) /\ Len(c) = Len(s) + 1 /\ c[1] = p /\ \A i \in 1 .. Len(s) : c[i + 1] = s[i]
  OBVIOUS
<1>2. Len(s) \in Nat
  OBVIOUS
<1> HIDE DEF c
<1>3. \A i \in 1 .. Len(c) : i = 1 \/ (i - 1 \in 1 .. Len(s) /\ c[i] = s[i - 1])
  <2> SUFFICES ASSUME NEW i \in 1 .. Len(c), i # 1 PROVE i - 1 \in 1 .. Len(s) /\ c[i] = s[i - 1]
    OBVIOUS
  <2>1. i - 1 \in 1 .. Len(s) /\ (i - 1) + 1 = i
    BY <1>1, <1>2
  <2> QED BY <1>1, <2>1
<1>4. Members(c) = {p} \cup Members(s)
  <2>1. ASSUME NEW x \in Members(c) PROVE x \in {p} \cup Members(s)
    BY <1>1, <1>3, <2>1 DEF Members
  <2>2. p \in Members(c)
    <3>1. 1 \in 1 .. Len(c)
      BY <1>1, <1>2
    <3> QED BY <1>1, <3>1 DEF Members
  <2>3. ASSUME NEW x \in Members(s) PROVE x \in Members(c)
    <3>1. PICK i \in 1 .. Len(s) : s[i] = x
      BY <2>3 DEF Members
    <3>2. i + 1 \in 1 .. Len(c) /\ c[i + 1] = x
      BY <1>1, <1>2, <3>1
    <3> QED BY <3>2 DEF Members
  <2> QED BY <2>1, <2>2, <2>3
<1>5. ASSUME Distinct(s), p \notin Members(s) PROVE Distinct(c)
  <2> SUFFICES ASSUME NEW i \in 1 .. Len(c), NEW j \in 1 .. Len(c), c[i] = c[j] PROVE i = j
    BY DEF Distinct
  <2>1. \A k \in 1 .. Len(s) : s[k] # p
    BY <1>5 DEF Members
  <2>2. i \in Nat /\ j \in Nat
    OBVIOUS
  <2>3. CASE i # 1 /\ j # 1
    <3>1. i - 1 = j - 1
      BY <1>3, <1>5, <2>3 DEF Distinct
    <3> QED BY <2>2, <3>1
  <2> QED BY <1>1, <1>3, <2>1, <2>3
<1> QED BY <1>1, <1>4, <1>5 DEF c

LEMMA Tailed ==
  ASSUME NEW S, NEW s \in Seq(S), s # <<>>
  PROVE  /\ Tail(s) \in Seq(S) /\ s[1] \in S /\ s[1] \in Members(s)
         /\ Distinct(s) => Distinct(Tail(s)) /\ Members(Tail(s)) = Members(s) \ {s[1]}
<1> DEFINE c == Tail(s)
<1>1. c \in Seq(S) /\ Len(c) = Len(s) - 1 /\ \A i \in 1 .. Len(c) : c[i] = s[i + 1]
  OBVIOUS
<1>2. Len(s) \in Nat /\ Len(s) >= 1 /\ s[1] \in S
  OBVIOUS
<1>3. s[1] \in Members(s)
  BY <1>2 DEF Members
<1> HIDE DEF c
<1>4. ASSUME Distinct(s) PROVE Distinct(c) /\ Members(c) = Members(s) \ {s[1]}
  <2>0. \A i \in 1 .. Len(c) : i + 1 \in 1 .. Len(s) /\ i + 1 # 1 /\ i \in Nat
    BY <1>1, <1>2
  <2>1. ASSUME NEW i \in 1 .. Len(c), NEW j \in 1 .. Len(c), c[i] = c[j] PROVE i = j
    <3>1. i + 1 = j + 1
      BY <1>1, <1>4, <2>0, <2>1 DEF Distinct
    <3> QED BY <2>0, <3>1
  <2>2. ASSUME NEW x \in Members(c) PROVE x \in Members(s) \ {s[1]}
    <3>1. PICK i \in 1 .. Len(c) : c[i] = x
      BY <2>2 DEF Members
    <3>2. x = s[i + 1] /\ i + 1 \in 1 .. Len(s) /\ i + 1 # 1 /\ 1 \in 1 .. Len(s)
      BY <1>1, <1>2, <2>0, <3>1
    <3> QED BY <1>4, <3>2 DEF Distinct, Members
  <2>3. ASSUME NEW x \in Members(s) \ {s[1]} PROVE x \in Members(c)
    <3>1. PICK i \in 1 .. Len(s) : s[i] = x
      BY <2>3 DEF Members
    <3>2. i - 1 \in 1 .. Len(c) /\ (i - 1) + 1 = i
      BY <1>1, <1>2, <2>3, <3>1
    <3>3. c[i - 1] = x
      BY <1>1, <3>1, <3>2
    <3> QED BY <3>2, <3>3 DEF Members
  <2> QED BY <2>1, <2>2, <2>3 DEF Distinct
<1> QED BY <1>1, <1>2, <1>3, <1>4 DEF c

LEMMA Concatenated ==
  ASSUME NEW S, NEW s \in Seq(S), NEW t \in Seq(S)
  PROVE  /\ s \o t \in Seq(S) /\ Len(s \o t) = Len(s) + Len(t)
         /\ \A i \in 1 .. Len(s \o t) : (s \o t)[i] = IF i <= Len(s) THEN s[i] ELSE t[i - Len(s)]
OBVIOUS

LEMMA DelinkedSeq ==
  ASSUME NEW S, NEW s \in Seq(S), Distinct(s), NEW p \in Members(s)
  PROVE  Delinked(s, p) \in Seq(S) /\ Distinct(Delinked(s, p)) /\ Members(Delinked(s, p)) = Members(s) \ {p}
<1> DEFINE At(i) == i \in DOMAIN s /\ s[i] = p
           k == CHOOSE i \in DOMAIN s : s[i] = p
           c == SubSeq(s, 1, k - 1) \o SubSeq(s, k + 1, Len(s))
<1>1. k \in 1 .. Len(s) /\ s[k] = p
  <2>1. \E i \in DOMAIN s : s[i] = p
    BY DEF Members
  <2> QED BY <2>1
<1>2. Delinked(s, p) = c
  BY DEF Delinked
<1> HIDE DEF k
<1>3. Len(s) \in Nat /\ k \in Nat
  BY <1>1
<1> DEFINE a == SubSeq(s, 1, k - 1)
           b == SubSeq(s, k + 1, Len(s))
<1>4. /\ a \in Seq(S) /\ Len(a) = k - 1 /\ \A i \in 1 .. k - 1 : a[i] = s[i]
      /\ b \in Seq(S) /\ Len(b) = Len(s) - k /\ \A i \in 1 .. Len(s) - k : b[i] = s[k + i]
  BY <1>1, <1>3
<1>c. c = a \o b
  OBVIOUS
<1> HIDE DEF a, b, c
<1>5. c \in Seq(S) /\ Len(c) = Len(s) - 1 /\ \A i \in 1 .. Len(c) : c[i] = IF i <= Len(a) THEN a[i] ELSE b[i - Len(a)]
  <2>1. /\ c \in Seq(S) /\ Len(c) = Len(a) + Len(b)
        /\ \A i \in 1 .. Len(c) : c[i] = IF i <= Len(a) THEN a[i] ELSE b[i - Len(a)]
    <3>1. a \in Seq(S) /\ b \in Seq(S)
      BY <1>4
    <3> QED BY <1>c, <3>1, Concatenated
  <2>2. Len(a) + Len(b) = Len(s) - 1
    BY ONLY <1>1, <1>3, <1>4
  <2> QED BY ONLY <2>1, <2>2
<1>6. \A i \in 1 .. Len(c) : c[i] = s[IF i < k THEN i ELSE i + 1]
  <2> SUFFICES ASSUME NEW i \in 1 .. Len(c) PROVE c[i] = s[IF i < k THEN i ELSE i + 1]
    OBVIOUS
  <2>0. i \in 1 .. Len(s) - 1
    BY <1>5
  <2>3. CASE i < k
    BY <1>3, <1>4, <1>5, <2>0, <2>3
  <2>4. CASE ~(i < k)
    <3>1. i - (k - 1) \in 1 .. Len(s) - k /\ k + (i - (k - 1)) = i + 1 /\ ~(i <= k - 1)
      BY <1>1, <1>3, <2>0, <2>4
    <3> QED BY <1>4, <1>5, <2>4, <3>1
  <2> QED BY <2>3, <2>4
<1> DEFINE From(i) == IF i < k THEN i ELSE i + 1
<1>7. \A i \in 1 .. Len(c) : From(i) \in 1 .. Len(s) /\ From(i) # k
  BY <1>1, <1>3, <1>5
<1>8. \A i, j \in 1 .. Len(c) : From(i) = From(j) => i = j
  BY <1>1, <1>3, <1>5
<1>9. \A i \in 1 .. Len(s) : i # k => \E j \in 1 .. Len(c) : From(j) = i
  <2> SUFFICES ASSUME NEW i \in 1 .. Len(s), i # k PROVE \E j \in 1 .. Len(c) : From(j) = i
    OBVIOUS
  <2>1. CASE i < k
    BY <1>1, <1>3, <1>5, <2>1
  <2>2. CASE i > k
    <3>1. i - 1 \in 1 .. Len(c) /\ From(i - 1) = i
      BY <1>1, <1>3, <1>5, <2>2
    <3> QED BY <3>1
  <2> QED BY <1>3, <2>1, <2>2
<1>10. \A i \in 1 .. Len(c) : c[i] = s[From(i)]
  BY <1>6
<1> HIDE DEF From
<1>11. Distinct(c)
  BY <1>7, <1>8, <1>10 DEF Distinct
<1>12. Members(c) = Members(s) \ {p}
  <2>1. ASSUME NEW x \in Members(c) PROVE x \in Members(s) /\ x # p
    BY <1>1, <1>7, <1>10, <2>1 DEF Distinct, Members
  <2>2. ASSUME NEW x \in Members(s), x # p PROVE x \in Members(c)
    <3>1. PICK i \in 1 .. Len(s) : s[i] = x
      BY <2>2 DEF Members
    <3>2. PICK j \in 1 .. Len(c) : From(j) = i
      BY <1>1, <1>9, <2>2, <3>1
    <3> QED BY <1>10, <3>1, <3>2 DEF Members
  <2> QED BY <2>1, <2>2
<1> QED BY <1>2, <1>5, <1>11, <1>12

LEMMA ReversedSeq ==
  ASSUME NEW S, NEW s \in Seq(S)
  PROVE  Reversed(s) \in Seq(S) /\ Members(Reversed(s)) = Members(s) /\ (Distinct(s) => Distinct(Reversed(s)))
<1> DEFINE c == Reversed(s)
<1>1. Len(s) \in Nat
  OBVIOUS
<1>2. \A i \in 1 .. Len(s) : Len(s) + 1 - i \in 1 .. Len(s)
  BY <1>1
<1>3. c = [i \in 1 .. Len(s) |-> s[Len(s) + 1 - i]]
  BY DEF Reversed
<1>4. c \in Seq(S) /\ Len(c) = Len(s)
  BY <1>1, <1>2, <1>3
<1>5. \A i \in 1 .. Len(s) : c[i] = s[Len(s) + 1 - i]
  BY <1>3
<1> HIDE DEF c
<1>6. Members(c) = Members(s)
  <2>1. ASSUME NEW x \in Members(c) PROVE x \in Members(s)
    BY <1>2, <1>4, <1>5, <2>1 DEF Members
  <2>2. ASSUME NEW x \in Members(s) PROVE x \in Members(c)
    <3>1. PICK i \in 1 .. Len(s) : s[i] = x
      BY <2>2 DEF Members
    <3>2. Len(s) + 1 - i \in 1 .. Len(s) /\ Len(s) + 1 - (Len(s) + 1 - i) = i
      BY <1>1, <1>2
    <3>3. c[Len(s) + 1 - i] = x
      BY <1>5, <3>1, <3>2
    <3> QED BY <1>4, <3>2, <3>3 DEF Members
  <2> QED BY <2>1, <2>2
<1>7. ASSUME Distinct(s) PROVE Distinct(c)
  <2> SUFFICES ASSUME NEW i \in 1 .. Len(c), NEW j \in 1 .. Len(c), c[i] = c[j] PROVE i = j
    BY DEF Distinct
  <2>1. Len(s) + 1 - i = Len(s) + 1 - j
    BY <1>2, <1>4, <1>5, <1>7 DEF Distinct
  <2>2. i \in Int /\ j \in Int
    OBVIOUS
  <2> QED BY <1>1, <2>1, <2>2
<1> QED BY <1>4, <1>6, <1>7 DEF c

LEMMA Joined ==
  ASSUME NEW S, NEW s \in Seq(S), NEW t \in Seq(S)
  PROVE  /\ s \o t \in Seq(S) /\ Members(s \o t) = Members(s) \cup Members(t)
         /\ Distinct(s) /\ Distinct(t) /\ Members(s) \cap Members(t) = {} => Distinct(s \o t)
<1> DEFINE c == s \o t
<1>1. /\ c \in Seq(S) /\ Len(c) = Len(s) + Len(t)
      /\ \A i \in 1 .. Len(c) : c[i] = IF i <= Len(s) THEN s[i] ELSE t[i - Len(s)]
  OBVIOUS
<1>2. Len(s) \in Nat /\ Len(t) \in Nat
  OBVIOUS
<1> HIDE DEF c
<1>3. \A i \in 1 .. Len(c) : \/ i \in 1 .. Len(s) /\ c[i] = s[i]
                             \/ i - Len(s) \in 1 .. Len(t) /\ c[i] = t[i - Len(s)]
  <2> SUFFICES ASSUME NEW i \in 1 .. Len(c)
               PROVE \/ i \in 1 .. Len(s) /\ c[i] = s[i]
                     \/ i - Len(s) \in 1 .. Len(t) /\ c[i] = t[i - Len(s)]
    OBVIOUS
  <2>1. CASE i <= Len(s)
    BY <1>1, <1>2, <2>1
  <2>2. CASE ~(i <= Len(s))
    <3>1. i - Len(s) \in 1 .. Len(t)
      BY <1>1, <1>2, <2>2
    <3> QED BY <1>1, <2>2, <3>1
  <2> QED BY <2>1, <2>2
<1>4. Members(c) = Members(s) \cup Members(t)
  <2>1. ASSUME NEW x \in Members(c) PROVE x \in Members(s) \cup Members(t)
    BY <1>3, <2>1 DEF Members
  <2>2. ASSUME NEW x \in Members(s) PROVE x \in Members(c)
    <3>1. PICK i \in 1 .. Len(s) : s[i] = x
      BY <2>2 DEF Members
    <3>2. i \in 1 .. Len(c) /\ i <= Len(s)
      BY <1>1, <1>2
    <3>3. c[i] = x
      BY <1>1, <3>1, <3>2
    <3> QED BY <3>2, <3>3 DEF Members
  <2>3. ASSUME NEW x \in Members(t) PROVE x \in Members(c)
    <3>1. PICK i \in 1 .. Len(t) : t[i] = x
      BY <2>3 DEF Members
    <3>2. i + Len(s) \in 1 .. Len(c) /\ ~(i + Len(s) <= Len(s)) /\ (i + Len(s)) - Len(s) = i
      BY <1>1, <1>2
    <3>3. c[i + Len(s)] = x
      BY <1>1, <3>1, <3>2
    <3> QED BY <3>2, <3>3 DEF Members
  <2> QED BY <2>1, <2>2, <2>3
<1>5. ASSUME Distinct(s), Distinct(t), Members(s) \cap Members(t) = {} PROVE Distinct(c)
  <2> SUFFICES ASSUME NEW i \in 1 .. Len(c), NEW j \in 1 .. Len(c), c[i] = c[j] PROVE i = j
    BY DEF Distinct
  <2>1. \A a \in 1 .. Len(s), b \in 1 .. Len(t) : s[a] # t[b]
    BY <1>5 DEF Members
  <2>2. i \in Int /\ j \in Int
    OBVIOUS
  <2>3. CASE i \in 1 .. Len(s) /\ c[i] = s[i] /\ j \in 1 .. Len(s) /\ c[j] = s[j]
    BY <1>5, <2>3 DEF Distinct
  <2>4. CASE i - Len(s) \in 1 .. Len(t) /\ c[i] = t[i - Len(s)] /\ j - Len(s) \in 1 .. Len(t) /\ c[j] = t[j - Len(s)]
    <3>1. i - Len(s) = j - Len(s)
      BY <1>5, <2>4 DEF Distinct
    <3> QED BY <1>2, <2>2, <3>1
  <2> QED BY <1>3, <2>1, <2>3, <2>4
<1> QED BY <1>1, <1>4, <1>5 DEF c

-----------------------------------------------------------------------------
(* Types.                                                                  *)

LEMMA SnapIs ==
  ASSUME NEW n \in Int
  PROVE  /\ Snap(n) \in Int /\ (n >= 0 => Snap(n) >= 0)
         /\ n >= -15 /\ n < 92 => Snap(n) = 0
         /\ n >= 92 /\ n < 276 => Snap(n) = SAMPLES
         /\ n >= 276 => Snap(n) > SAMPLES
BY DEF Snap, SAMPLES

LEMMA Quotient ==
  ASSUME NEW a \in Int, NEW c \in Nat \ {0}
  PROVE  a \div c \in Int /\ a % c \in Int
OBVIOUS

LEMMA RateType ==
  ASSUME NEW v \in Int, NEW t \in Int, NEW c \in Nat
  PROVE  GetRate(v, t, c) \in Int \X Int
<1>1. CASE c = 0
  BY <1>1 DEF GetRate
<1>2. CASE c # 0
  <2>1. PICK a \in Int : a = (AtLeast1(t) - AtLeast1(v)) * 8
    BY DEF AtLeast1
  <2>2. a \div c \in Int /\ a % c \in Int
    BY <1>2, Quotient
  <2>3. PICK b \in Int : b = a % c
    BY <2>2
  <2>4. 65535 * b \in Int
    OBVIOUS
  <2>5. (65535 * b) \div c \in Int
    BY <1>2, <2>4, Quotient
  <2>6. GetRate(v, t, c) = <<a \div c, (65535 * b) \div c>>
    BY <1>2, <2>1, <2>3 DEF GetRate
  <2> QED BY <2>2, <2>5, <2>6
<1> QED BY <1>1, <1>2

LEMMA VolType ==
  ASSUME NEW v \in Int, NEW n \in Int, NEW r \in Int \X Int
  PROVE  GetVol(v, n, r) \in Int
<1>1. PICK k \in Int : k = n \div 8
  OBVIOUS
<1>2. r[1] \in Int /\ r[2] \in Int
  OBVIOUS
<1>3. PICK a \in Int : a = r[1] * k
  BY <1>2
<1>4. PICK b \in Int : b = r[2] * k
  BY <1>2
<1>5. GetVol(v, n, r) = IF k = 0 THEN v ELSE Short(v + b \div 65536 + a)
  BY <1>1, <1>3, <1>4 DEF GetVol
<1>6. Short(v + b \div 65536 + a) \in Int
  BY DEF Short
<1> QED BY <1>5, <1>6

LEMMA ScaledType ==
  ASSUME NEW m \in Mixer
  PROVE  Scaled(m) \in Int
<1>1. m.volume \in Int /\ m.gain \in Int
  BY DEF Mixer
<1>2. PICK k \in Int : k = m.volume * m.gain
  BY <1>1
<1> QED BY <1>2 DEF Scaled

LEMMA PulledType ==
  ASSUME NEW m \in Mixer, NEW n \in Int
  PROVE  Solved(m) \in Mixer /\ PullSubFrame(m, n) \in Mixer
<1>1. Scaled(m) \in Int
  BY ScaledType
<1>2. GetRate(m.cvol, Scaled(m), m.segEnd) \in Int \X Int
  <2>1. m.cvol \in Int /\ m.segEnd \in Nat
    BY DEF Mixer
  <2> QED BY <1>1, <2>1, RateType
<1>3. Solved(m) \in Mixer
  BY <1>1, <1>2 DEF Solved, Mixer
<1>4. \A k \in Mixer : [k EXCEPT !.delta = @ + SAMPLES] \in Mixer
  BY DEF Mixer, SAMPLES
<1> QED BY <1>3, <1>4 DEF PullSubFrame

LEMMA FlagTypes ==
  ASSUME NEW m \in Mixer
  PROVE  /\ [m EXCEPT !.motion = "playing"] \in Mixer /\ [m EXCEPT !.motion = "stopped"] \in Mixer
         /\ [m EXCEPT !.first = TRUE] \in Mixer
BY DEF Mixer

LEMMA IntTypes ==
  ASSUME NEW m \in Mixer, NEW i \in Int
  PROVE  /\ [m EXCEPT !.cvol = i] \in Mixer /\ [m EXCEPT !.volume = i] \in Mixer /\ [m EXCEPT !.gain = i] \in Mixer
BY DEF Mixer

LEMMA NatTypes ==
  ASSUME NEW m \in Mixer, NEW n \in Nat
  PROVE  [m EXCEPT !.delta = n] \in Mixer /\ [m EXCEPT !.segEnd = n] \in Mixer
BY DEF Mixer

LEMMA SettledType ==
  ASSUME NEW m \in Mixer
  PROVE  Clamped(Settled(m)) \in Mixer
<1>1. Scaled(m) \in Int
  BY ScaledType
<1>2. GetVol(m.cvol, m.delta, m.rate) \in Int
  <2>1. m.cvol \in Int /\ m.delta \in Int /\ m.rate \in Int \X Int
    BY DEF Mixer
  <2> QED BY <2>1, VolType
<1>3. Settled(m) \in Mixer
  BY <1>1, <1>2 DEF Settled, Mixer
<1>4. ASSUME NEW k \in Mixer PROVE Clamped(k) \in Mixer
  <2>1. PICK c \in Int : c = IF k.cvol = 0 THEN 1 ELSE k.cvol
    BY DEF Mixer
  <2>2. PICK a \in Mixer : a = [k EXCEPT !.cvol = c]
    BY FlagTypes, IntTypes, NatTypes
  <2>3. Clamped(k) = [a EXCEPT !.first = TRUE]
    BY ONLY <2>1, <2>2 DEF Clamped
  <2> QED BY <2>3, FlagTypes, IntTypes, NatTypes
<1> QED BY <1>3, <1>4

LEMMA Square ==
  ASSUME NEW d \in Int
  PROVE  (d * d) \div 32768 \in Int
<1>1. PICK k \in Int : k = d * d
  OBVIOUS
<1> QED BY <1>1

LEMMA ChangedType ==
  ASSUME NEW m \in Mixer, NEW u \in NvUpdate
  PROVE  Changed(m, u) \in Mixer
<1>1. u.data \in Int /\ u.ramp \in Nat
  BY DEF NvUpdate
<1>2. PICK v \in Int : v = (u.data * u.data) \div 32768
  BY <1>1, Square
<1>3. Snap(u.ramp) \in Nat
  BY <1>1, SnapIs
<1>4. [m EXCEPT !.gain = u.data] \in Mixer
  BY <1>1 DEF Mixer
<1>5. [m EXCEPT !.delta = 0, !.volume = v, !.segEnd = Snap(u.ramp)] \in Mixer
  BY <1>3 DEF Mixer
<1> QED BY <1>2, <1>4, <1>5 DEF Changed

LEMMA StartedAltType ==
  ASSUME NEW m \in Mixer, NEW u \in NvUpdate
  PROVE  StartedAlt(m, u) \in Mixer
<1>1. u.data \in Int /\ u.ramp \in Nat
  BY DEF NvUpdate
<1>2. PICK w \in Int : w = (u.data * u.data) \div 32768
  BY <1>1, Square
<1>3. Snap(u.ramp) \in Nat
  BY <1>1, SnapIs
<1> DEFINE v == [m EXCEPT !.motion = "playing", !.first = TRUE, !.delta = 0, !.segEnd = Snap(u.ramp), !.gain = 32767,
                          !.volume = w]
<1>4. v \in Mixer
  <2>1. PICK a \in Mixer : a = [m EXCEPT !.motion = "playing"]
    BY FlagTypes, IntTypes, NatTypes
  <2>2. PICK b \in Mixer : b = [a EXCEPT !.first = TRUE]
    BY FlagTypes, IntTypes, NatTypes
  <2>3. PICK c \in Mixer : c = [b EXCEPT !.delta = 0]
    BY FlagTypes, IntTypes, NatTypes
  <2>4. PICK d \in Mixer : d = [c EXCEPT !.segEnd = Snap(u.ramp)]
    BY <1>3, FlagTypes, IntTypes, NatTypes
  <2>5. PICK e \in Mixer : e = [d EXCEPT !.gain = 32767]
    <3>1. [d EXCEPT !.gain = 32767] \in Mixer
      BY DEF Mixer
    <3> QED BY ONLY <3>1
  <2>6. v = [e EXCEPT !.volume = w]
    BY ONLY <2>1, <2>2, <2>3, <2>4, <2>5
  <2>7. [e EXCEPT !.volume = w] \in Mixer
    BY FlagTypes, IntTypes, NatTypes
  <2> QED BY ONLY <2>6, <2>7
<1>5. StartedAlt(m, u) = [v EXCEPT !.cvol = IF u.ramp # 0 THEN 1 ELSE Scaled(v)]
  BY <1>2 DEF StartedAlt
<1> HIDE DEF v
<1>6. (IF u.ramp # 0 THEN 1 ELSE Scaled(v)) \in Int
  BY <1>4, ScaledType
<1> QED BY <1>4, <1>5, <1>6 DEF Mixer

LEMMA AppliedType ==
  ASSUME NEW m \in Mixer, NEW u \in NvUpdate, NEW n \in Int
  PROVE  Applied(m, u, n) \in Mixer
<1>1. PullSubFrame(m, n) \in Mixer
  BY PulledType
<1>2. Clamped(Settled(PullSubFrame(m, n))) \in Mixer
  BY <1>1, SettledType
<1>3. Changed(Clamped(Settled(PullSubFrame(m, n))), u) \in Mixer
  BY <1>2, ChangedType
<1>4. StartedAlt(m, u) \in Mixer
  BY StartedAltType
<1>5. ASSUME NEW k \in Mixer PROVE Reset(k) \in Mixer /\ [k EXCEPT !.motion = "playing"] \in Mixer
  <2>1. PICK a \in Mixer : a = [k EXCEPT !.first = TRUE]
    BY FlagTypes, IntTypes, NatTypes
  <2>2. PICK b \in Mixer : b = [a EXCEPT !.motion = "stopped"]
    BY FlagTypes, IntTypes, NatTypes
  <2>3. PICK c \in Mixer : c = [b EXCEPT !.volume = 1]
    <3>1. [b EXCEPT !.volume = 1] \in Mixer
      BY DEF Mixer
    <3> QED BY ONLY <3>1
  <2>4. Reset(k) = [c EXCEPT !.segEnd = 0]
    BY ONLY <2>1, <2>2, <2>3 DEF Reset
  <2>5. [c EXCEPT !.segEnd = 0] \in Mixer
    BY FlagTypes, IntTypes, NatTypes
  <2>6. [k EXCEPT !.motion = "playing"] \in Mixer
    BY FlagTypes, IntTypes, NatTypes
  <2> QED BY ONLY <2>4, <2>5, <2>6
<1> QED BY <1>1, <1>3, <1>4, <1>5 DEF Applied

LEMMA RestType ==
  ASSUME NEW m \in Mixer, syn.out \in Int
  PROVE  NvRest(m) \in Mixer
<1>1. PullSubFrame(m, syn.out) \in Mixer
  BY PulledType
<1>2. \A k \in Mixer : EndSegment(k) \in Mixer
  BY DEF EndSegment, Mixer
<1> QED BY <1>1, <1>2 DEF NvRest

-----------------------------------------------------------------------------
(* The calls of the handler, by what they do.                              *)

(* The updates s are queued for p.                                         *)
Adds(p, s) ==
  /\ p \in Phys /\ s \in Seq(NvUpdate) /\ Len(s) \in 1 .. 2 /\ Len(s) <= paramList /\ paramList' = paramList - Len(s)
  /\ ctrlList' = [ctrlList EXCEPT ![p] = @ \o s]

Stays == UNCHANGED <<voiceVars, ctrlList, paramList>>
Queues(p, u) ==
  /\ Owned(p) /\ u.type # "free" /\ u.delta = NvNow + pOffset[p]
  /\ u.type \in {"volume", "startalt"} => u.data = 32767
  /\ Adds(p, <<u>>) /\ UNCHANGED voiceVars
Takes(l) == pvoice[l] = 0 /\ TakeSpare(l)
Steals(l, p, s) ==
  /\ Steal(l) /\ pvoice[l] = 0 /\ p \in Alloc /\ pOffset[p] = 0
  /\ \/ s = <<Update("volume", NvNow, 0, 368), Update("stop", NvNow + 552, 0, 0)>>
     \/ s = <<Update("volume", NvNow, 0, 368)>> /\ paramList <= 1
  /\ Adds(p, s)
  /\ pOffset' = [pOffset EXCEPT ![p] = 552]
  /\ pvoice' = [pvoice EXCEPT ![vvoice[p]] = 0, ![l] = p]
  /\ vvoice' = [vvoice EXCEPT ![p] = l]
  /\ UNCHANGED pLists
Retires(l, p) ==
  /\ pvoice[l] = p /\ pOffset[p] = 0 /\ Adds(p, <<Update("stop", NvNow, 0, 0)>>)
  /\ pLists' = NvRetired(pLists, p) /\ pvoice' = [pvoice EXCEPT ![l] = 0] /\ UNCHANGED <<vvoice, pOffset>>
FreesLater(l, p) ==
  /\ pvoice[l] = p /\ pOffset[p] # 0
  /\ Adds(p, <<Update("stop", NvNow + pOffset[p], 0, 0), Update("free", NvNow + pOffset[p], 0, 0)>>)
  /\ pvoice' = [pvoice EXCEPT ![l] = 0] /\ UNCHANGED <<pLists, vvoice, pOffset>>

Call ==
  /\ syn.phase = "handler" /\ UNCHANGED <<em, syn>> /\ nvClient' \in NvPlayers
  /\ \/ Stays
     \/ \E p \in Phys, u \in NvUpdate : Queues(p, u)
     \/ \E l \in Logical : Takes(l)
     \/ \E l \in Logical, p \in Phys, s \in Seq(NvUpdate) : Steals(l, p, s)
     \/ \E l \in Logical, p \in Phys : Retires(l, p) \/ FreesLater(l, p)

LEMMA CallType ==
  ASSUME NvTypes, NEW k, NEW l, Called(k, l)
  PROVE  syn.phase = "handler" /\ nvClient' \in NvPlayers
<1>1. nvClient \in NvPlayers /\ nvClient.calls # <<>>
  BY DEF NvTypes, Called, InHandler
<1>2. Tail(nvClient.calls) \in Seq(SUBSET (STRING \X Logical))
  <2>1. nvClient.calls \in Seq(SUBSET (STRING \X Logical))
    BY <1>1 DEF NvPlayers
  <2> QED BY <1>1, <2>1
<1>3. nvClient' = [nvClient EXCEPT !.calls = Tail(nvClient.calls)]
  BY DEF Called
<1>4. nvClient' \in NvPlayers
  BY <1>1, <1>2, <1>3 DEF NvPlayers
<1> QED BY <1>4 DEF Called, InHandler

LEMMA NowType ==
  ASSUME NvTypes
  PROVE  NvNow \in Int /\ NvNow <= syn.left /\ NvNow >= -15 /\ syn.left \in Nat
<1>1. syn.left \in Nat /\ syn.cur \in 0 .. 15
  BY DEF NvTypes, SynTypes
<1>2. PICK k \in Int : k = (syn.left + syn.cur) \div 16
  BY <1>1
<1>3. k * 16 <= syn.left + syn.cur /\ syn.left + syn.cur <= k * 16 + 15
  BY <1>1, <1>2
<1>4. NvNow = k * 16 - syn.cur /\ k >= 0
  BY <1>1, <1>2 DEF NvNow
<1> QED BY <1>1, <1>3, <1>4

LEMMA UpdateType ==
  ASSUME NEW t \in UpdateTypes, NEW d \in Int, NEW x \in Int, NEW r \in Nat
  PROVE  Update(t, d, x, r) \in NvUpdate
BY DEF Update, NvUpdate

LEMMA QueuedIs ==
  ASSUME NvTypes, NEW l \in Logical, NEW t \in UpdateTypes, t # "free", NEW x \in Int, NEW r \in Nat,
         t \in {"volume", "startalt"} => x = 32767, Queued(l, t, x, r)
  PROVE  UNCHANGED <<em, syn>> /\ (Stays \/ \E p \in Phys, u \in NvUpdate : Queues(p, u))
<1>0. UNCHANGED <<em, syn>> /\ UNCHANGED voiceVars
  BY DEF Queued
<1>1. CASE pvoice[l] = 0 \/ paramList = 0
  <2>1. UNCHANGED <<ctrlList, paramList>>
    BY <1>1 DEF Queued
  <2> QED BY <1>0, <2>1 DEF Stays
<1>2. CASE ~(pvoice[l] = 0 \/ paramList = 0)
  <2> DEFINE p == pvoice[l]
  <2>1. p \in Phys /\ pOffset[p] \in {0, 552} /\ paramList \in Nat /\ ctrlList[p] \in Seq(NvUpdate)
    BY <1>2 DEF NvTypes
  <2>2. PICK u \in NvUpdate : u = Update(t, NvNow + pOffset[p], x, r)
    <3>1. NvNow + pOffset[p] \in Int
      BY <2>1, NowType
    <3> QED BY <3>1, UpdateType
  <2>3. u.type = t /\ u.delta = NvNow + pOffset[p] /\ u.data = x
    BY <2>2 DEF Update
  <2>4. ctrlList' = [ctrlList EXCEPT ![p] = Append(ctrlList[p], u)] /\ paramList' = paramList - 1
    BY <1>2, <2>2 DEF Queued
  <2>5. Append(ctrlList[p], u) = ctrlList[p] \o <<u>>
    BY <2>1
  <2>6. <<u>> \in Seq(NvUpdate) /\ Len(<<u>>) = 1
    OBVIOUS
  <2>7. Adds(p, <<u>>)
    <3>1. 1 <= paramList /\ 1 \in 1 .. 2
      BY <1>2, <2>1
    <3> QED BY <2>1, <2>4, <2>5, <2>6, <3>1 DEF Adds
  <2>8. Owned(p)
    BY DEF Owned
  <2>9. Queues(p, u)
    BY <1>0, <2>3, <2>7, <2>8 DEF Queues
  <2> QED BY <1>0, <2>1, <2>9
<1> QED BY <1>1, <1>2

(* Of a set of places one has the lowest priority and is the last of these.*)
LEMMA BestPlace ==
  ASSUME NEW N \in Nat, NEW S \in SUBSET (1 .. N), S # {}, NEW w \in [S -> Int]
  PROVE  \E i \in S : \A j \in S : w[i] < w[j] \/ (w[i] = w[j] /\ j <= i)
<1> DEFINE Part(n) == S \cap 1 .. n
           Best(i, n) == i \in Part(n) /\ \A j \in Part(n) : w[i] < w[j] \/ (w[i] = w[j] /\ j <= i)
           T == {n \in Nat : Part(n) # {} => \E i \in S : Best(i, n)}
<1>1. 0 \in T
  OBVIOUS
<1>2. ASSUME NEW n \in Nat, n \in T PROVE n + 1 \in T
  <2> SUFFICES ASSUME Part(n + 1) # {} PROVE \E i \in S : Best(i, n + 1)
    OBVIOUS
  <2>0. Part(n + 1) = IF n + 1 \in S THEN Part(n) \cup {n + 1} ELSE Part(n)
    OBVIOUS
  <2>1. CASE n + 1 \notin S
    BY <1>2, <2>0, <2>1
  <2>2. CASE n + 1 \in S /\ Part(n) = {}
    <3>1. Best(n + 1, n + 1)
      BY <2>0, <2>2
    <3> QED BY <2>2, <3>1
  <2>3. CASE n + 1 \in S /\ Part(n) # {}
    <3>1. PICK i \in S : Best(i, n)
      BY <1>2, <2>3
    <3>2. w[i] \in Int /\ w[n + 1] \in Int /\ i \in 1 .. n /\ \A j \in Part(n) : w[j] \in Int /\ j \in 1 .. n
      BY <2>3, <3>1
    <3>3. CASE w[n + 1] <= w[i]
      <4>1. \A j \in Part(n) : w[n + 1] < w[j] \/ (w[n + 1] = w[j] /\ j <= n + 1)
        BY <3>1, <3>2, <3>3
      <4>2. Best(n + 1, n + 1)
        BY <2>0, <2>3, <4>1
      <4> QED BY <2>3, <4>2
    <3>4. CASE ~(w[n + 1] <= w[i])
      <4>1. Best(i, n + 1)
        BY <2>0, <2>3, <3>1, <3>2, <3>4
      <4> QED BY <4>1
    <3> QED BY <3>3, <3>4
  <2> QED BY <2>1, <2>2, <2>3
<1>3. N \in T
  <2> HIDE DEF T
  <2> QED BY <1>1, <1>2, NatSetInduction
<1>4. Part(N) = S
  OBVIOUS
<1> QED BY <1>3, <1>4

LEMMA StolenIs ==
  ASSUME NvTypes, LinkInv, NEW l \in Logical, Stealable(l) # {}
  PROVE  Stolen(l) \in Alloc /\ pOffset[Stolen(l)] = 0
<1> DEFINE a == pLists.alloc
           S == Stealable(l)
           w == [i \in S |-> PriorityAt(i)]
<1>1. a \in Seq(Phys) /\ Len(a) \in Nat /\ S \subseteq 1 .. Len(a)
  BY DEF NvTypes, Stealable
<1>2. \A i \in 1 .. Len(a) : a[i] \in Alloc
  BY DEF Alloc, Members
<1>3. \A i \in S : PriorityAt(i) \in Int
  <2>1. \A i \in S : vvoice[a[i]] \in Logical
    BY <1>1, <1>2 DEF LinkInv, AllocNamed
  <2>2. \A k \in Logical : NvPriority[k] \in Int
    <3>1. NvPriority \in Seq(Int)
      BY NvAssumption DEF NvAssumption
    <3> QED BY ONLY <3>1 DEF Logical
  <2> QED BY <2>1, <2>2 DEF PriorityAt
<1>4. w \in [S -> Int] /\ \A i \in S : w[i] = PriorityAt(i)
  BY <1>3
<1> DEFINE Best(i) == i \in S /\ \A j \in S : PriorityAt(i) < PriorityAt(j) \/ (PriorityAt(i) = PriorityAt(j) /\ j <= i)
           h == CHOOSE i \in S : \A j \in S : PriorityAt(i) < PriorityAt(j) \/ (PriorityAt(i) = PriorityAt(j) /\ j <= i)
<1>5. \E i \in S : \A j \in S : w[i] < w[j] \/ (w[i] = w[j] /\ j <= i)
  <2>1. PICK N \in Nat : N = Len(a)
    BY <1>1
  <2> HIDE DEF S, w, a
  <2>2. S \in SUBSET (1 .. N) /\ S # {} /\ w \in [S -> Int]
    BY <1>1, <1>4, <2>1 DEF S
  <2> QED BY ONLY <2>2, BestPlace
<1>6. h \in S
  <2> HIDE DEF S, w
  <2>1. \E i \in S : \A j \in S : PriorityAt(i) < PriorityAt(j) \/ (PriorityAt(i) = PriorityAt(j) /\ j <= i)
    BY <1>4, <1>5
  <2> QED BY <2>1
<1>7. Stolen(l) = a[h]
  BY DEF Stolen
<1> HIDE DEF h
<1>8. pOffset[a[h]] = 0
  BY <1>6 DEF Stealable
<1> QED BY <1>1, <1>2, <1>6, <1>7, <1>8

LEMMA StealIs ==
  ASSUME NvTypes, LinkInv, NEW l \in Logical, pvoice[l] = 0, Steal(l)
  PROVE  \E p \in Phys, s \in Seq(NvUpdate) : Steals(l, p, s)
<1>1. Stealable(l) # {} /\ paramList > 0 /\ UNCHANGED pLists
  BY DEF Steal
<1>2. PICK p : p = Stolen(l)
  OBVIOUS
<1>3. p \in Alloc /\ pOffset[p] = 0
  BY <1>1, <1>2, StolenIs
<1>4. p \in Phys /\ paramList \in Nat /\ ctrlList[p] \in Seq(NvUpdate)
  <2>1. p \in Phys
    BY <1>3 DEF Alloc, Members, NvTypes
  <2> QED BY <2>1 DEF NvTypes
<1>5. PICK fade \in NvUpdate : fade = Update("volume", NvNow, 0, 368)
  BY NowType, UpdateType DEF UpdateTypes
<1>6. PICK stop \in NvUpdate : stop = Update("stop", NvNow + 552, 0, 0)
  <2>1. NvNow + 552 \in Int
    BY NowType
  <2> QED BY <2>1, UpdateType DEF UpdateTypes
<1>7. PICK s : s = IF paramList > 1 THEN <<fade, stop>> ELSE <<fade>>
  OBVIOUS
<1>8. s \in Seq(NvUpdate) /\ Len(s) = (IF paramList > 1 THEN 2 ELSE 1)
  BY <1>7
<1>9. /\ ctrlList' = [ctrlList EXCEPT ![p] = ctrlList[p] \o s]
      /\ paramList' = IF paramList > 1 THEN paramList - 2 ELSE 0
      /\ pOffset' = [pOffset EXCEPT ![p] = 552]
      /\ pvoice' = [pvoice EXCEPT ![vvoice[p]] = 0, ![l] = p]
      /\ vvoice' = [vvoice EXCEPT ![p] = l]
  BY <1>2, <1>5, <1>6, <1>7 DEF Steal
<1>10. Adds(p, s)
  <2>1. Len(s) \in 1 .. 2 /\ Len(s) <= paramList /\ paramList' = paramList - Len(s)
    BY <1>1, <1>4, <1>8, <1>9
  <2> QED BY <1>4, <1>8, <1>9, <2>1 DEF Adds
<1>11. Steals(l, p, s)
  <2>1. paramList > 1 \/ paramList <= 1
    BY <1>4
  <2> QED BY <1>1, <1>3, <1>5, <1>6, <1>7, <1>9, <1>10, <2>1 DEF Steals
<1> QED BY <1>4, <1>8, <1>11

LEMMA NoneAdded ==
  ASSUME NEW S, NEW s \in Seq(S)
  PROVE  s \o <<>> = s /\ Len(<<>>) = 0
BY ConcatEmptySeq

LEMMA TwoAdded ==
  ASSUME NEW S, NEW s \in Seq(S), NEW x \in S, NEW y \in S
  PROVE  (s \o <<x>>) \o <<y>> = s \o <<x, y>>
<1> DEFINE a == <<x>>
           b == <<y>>
           c == <<x, y>>
<1>1. /\ a \in Seq(S) /\ Len(a) = 1 /\ a[1] = x /\ b \in Seq(S) /\ Len(b) = 1 /\ b[1] = y
      /\ c \in Seq(S) /\ Len(c) = 2 /\ c[1] = x /\ c[2] = y
  OBVIOUS
<1> HIDE DEF a, b, c
<1>2. /\ a \o b \in Seq(S) /\ Len(a \o b) = Len(a) + Len(b)
      /\ \A i \in 1 .. Len(a \o b) : (a \o b)[i] = IF i <= Len(a) THEN a[i] ELSE b[i - Len(a)]
  BY <1>1, Concatenated
<1>3. Len(a \o b) = Len(c) /\ \A i \in 1 .. Len(a \o b) : (a \o b)[i] = c[i]
  <2>1. Len(a \o b) = 2 /\ \A i \in 1 .. 2 : (a \o b)[i] = IF i <= 1 THEN a[i] ELSE b[i - 1]
    BY ONLY <1>1, <1>2
  <2>2. (a \o b)[1] = c[1] /\ (a \o b)[2] = c[2]
    BY ONLY <1>1, <2>1
  <2>3. \A i \in 1 .. 2 : i = 1 \/ i = 2
    OBVIOUS
  <2> QED BY ONLY <1>1, <2>1, <2>2, <2>3
<1>4. a \o b = c
  BY ONLY <1>1, <1>2, <1>3, SeqEqual
<1>5. (s \o a) \o b = s \o (a \o b)
  BY <1>1, ConcatAssociative
<1> QED BY <1>4, <1>5 DEF a, b, c

LEMMA GainTypes == \A g \in NvGains : g \in Int
<1>1. NvGains \subseteq Nat
  BY NvAssumption DEF NvAssumption
<1> QED BY <1>1

LEMMA ReleaseIs ==
  ASSUME NvTypes, NEW l \in Logical, ReleaseVoice(l)
  PROVE  \E p \in Phys : Retires(l, p) \/ FreesLater(l, p)
<1> DEFINE p == pvoice[l]
           at == NvNow + pOffset[p]
           stop == Update("stop", at, 0, 0)
           freed == Update("free", at, 0, 0)
           free == IF pOffset[p] = 0 THEN <<>> ELSE <<freed>>
<1>1. p \in Phys /\ paramList > 1 /\ paramList \in Nat /\ ctrlList[p] \in Seq(NvUpdate) /\ pOffset[p] \in {0, 552}
  BY DEF ReleaseVoice, NvTypes
<1>2. /\ ctrlList' = [ctrlList EXCEPT ![p] = ctrlList[p] \o <<stop>> \o free]
      /\ paramList' = paramList - 1 - Len(free)
      /\ pLists' = IF free = <<>> THEN NvRetired(pLists, p) ELSE pLists
      /\ pvoice' = [pvoice EXCEPT ![l] = 0] /\ UNCHANGED <<vvoice, pOffset>>
  BY DEF ReleaseVoice
<1>3. stop \in NvUpdate /\ freed \in NvUpdate
  <2>1. at \in Int
    BY <1>1, NowType
  <2> QED BY <2>1, UpdateType DEF UpdateTypes
<1> HIDE DEF stop, freed
<1>4. CASE pOffset[p] = 0
  <2>1. ctrlList' = [ctrlList EXCEPT ![p] = ctrlList[p] \o <<stop>>] /\ paramList' = paramList - 1
    <3>1. free = <<>> /\ ctrlList[p] \o <<stop>> \in Seq(NvUpdate)
      BY <1>1, <1>3, <1>4
    <3> HIDE DEF free, p
    <3>2. (ctrlList[p] \o <<stop>>) \o <<>> = ctrlList[p] \o <<stop>> /\ Len(<<>>) = 0
      BY <3>1, NoneAdded
    <3>3. Len(free) = 0 /\ (ctrlList[p] \o <<stop>>) \o free = ctrlList[p] \o <<stop>>
      BY <3>1, <3>2
    <3> QED BY ONLY <1>1, <1>2, <3>3
  <2>2. <<stop>> \in Seq(NvUpdate) /\ Len(<<stop>>) = 1
    BY <1>3
  <2>3. Adds(p, <<stop>>)
    <3>1. 1 \in 1 .. 2 /\ 1 <= paramList
      BY <1>1
    <3> QED BY <1>1, <2>1, <2>2, <3>1 DEF Adds
  <2>4. at = NvNow
    BY <1>4, NowType
  <2>5. Retires(l, p)
    BY <1>2, <1>4, <2>3, <2>4 DEF Retires, stop
  <2> QED BY <1>1, <2>5
<1>5. CASE pOffset[p] # 0
  <2>1. ctrlList' = [ctrlList EXCEPT ![p] = ctrlList[p] \o <<stop, freed>>] /\ paramList' = paramList - 2
    <3>1. free = <<freed>>
      BY <1>5
    <3>2. (ctrlList[p] \o <<stop>>) \o <<freed>> = ctrlList[p] \o <<stop, freed>>
      <4>1. ctrlList[p] \in Seq(NvUpdate) /\ stop \in NvUpdate /\ freed \in NvUpdate
        BY <1>1, <1>3
      <4> HIDE DEF p
      <4> QED BY ONLY <4>1, TwoAdded
    <3> HIDE DEF free, p
    <3>3. Len(free) = 1
      BY <3>1
    <3>4. (ctrlList[p] \o <<stop>>) \o free = ctrlList[p] \o <<stop, freed>>
      BY ONLY <3>1, <3>2
    <3>5. ctrlList' = [ctrlList EXCEPT ![p] = (ctrlList[p] \o <<stop>>) \o free]
      BY ONLY <1>2
    <3>6. ctrlList' = [ctrlList EXCEPT ![p] = ctrlList[p] \o <<stop, freed>>]
      BY ONLY <3>4, <3>5
    <3>7. paramList' = paramList - 1 - Len(free) /\ paramList \in Nat
      BY ONLY <1>1, <1>2
    <3>8. paramList' = paramList - 2
      BY ONLY <3>3, <3>7
    <3> QED BY ONLY <3>6, <3>8
  <2>2. <<stop, freed>> \in Seq(NvUpdate) /\ Len(<<stop, freed>>) = 2
    BY <1>3
  <2>3. Adds(p, <<stop, freed>>)
    <3>1. 2 \in 1 .. 2 /\ 2 <= paramList
      BY <1>1
    <3> QED BY <1>1, <2>1, <2>2, <3>1 DEF Adds
  <2>4. FreesLater(l, p)
    BY <1>2, <1>5, <2>3 DEF FreesLater, stop, freed
  <2> QED BY <1>1, <2>4
<1> QED BY <1>4, <1>5

LEMMA NextIs ==
  ASSUME NvTypes, LinkInv, NvNext
  PROVE  AudioFrame \/ HandlerReturns \/ ApplyUpdate \/ NextVoice \/ EndBlock \/ Call
<1> SUFFICES ASSUME NEW l \in Logical,
                    \/ AllocVoice(l) \/ StartVoice(l) \/ StopVoice(l) \/ SetPitch(l) \/ SetFXMix(l) \/ ReleaseVoice(l)
                    \/ \E g \in NvGains : SetPan(l, g)
                    \/ \E t \in NvRamps : SetVol(l, t) \/ StartVoiceAlt(l, t)
             PROVE  Call
  BY DEF NvNext
<1> DEFINE Requested == UNCHANGED <<em, syn>> /\ (Stays \/ \E p \in Phys, u \in NvUpdate : Queues(p, u))
<1>1. ASSUME NEW k, Called(k, l), Requested PROVE Call
  BY <1>1, CallType DEF Call
<1>2. 0 \in Int /\ 0 \in Nat /\ 32767 \in Int
  OBVIOUS
<1>3. CASE StartVoice(l)
  <2>1. Called("start", l) /\ Queued(l, "start", 0, 0)
    BY <1>3 DEF StartVoice
  <2>2. Requested
    BY <1>2, <2>1, QueuedIs DEF UpdateTypes
  <2> QED BY <1>1, <2>1, <2>2
<1>4. CASE StopVoice(l)
  <2>1. Called("stop", l) /\ Queued(l, "stop", 0, 0)
    BY <1>4 DEF StopVoice
  <2>2. Requested
    BY <1>2, <2>1, QueuedIs DEF UpdateTypes
  <2> QED BY <1>1, <2>1, <2>2
<1>5. CASE SetPitch(l)
  <2>1. Called("pitch", l) /\ Queued(l, "pitch", 0, 0)
    BY <1>5 DEF SetPitch
  <2>2. Requested
    BY <1>2, <2>1, QueuedIs DEF UpdateTypes
  <2> QED BY <1>1, <2>1, <2>2
<1>6. CASE SetFXMix(l)
  <2>1. Called("fxmix", l) /\ Queued(l, "fxamt", 0, 0)
    BY <1>6 DEF SetFXMix
  <2>2. Requested
    BY <1>2, <2>1, QueuedIs DEF UpdateTypes
  <2> QED BY <1>1, <2>1, <2>2
<1>7. ASSUME NEW g \in NvGains, SetPan(l, g) PROVE Call
  <2>1. Called("pan", l) /\ Queued(l, "pan", g, 0)
    BY <1>7 DEF SetPan
  <2>2. g \in Int
    BY GainTypes
  <2>3. Requested
    BY <1>2, <2>1, <2>2, QueuedIs DEF UpdateTypes
  <2> QED BY <1>1, <2>1, <2>3
<1>8. ASSUME NEW t \in NvRamps, SetVol(l, t) \/ StartVoiceAlt(l, t) PROVE Call
  <2>1. t \in Nat
    <3>1. NvRamps \subseteq Nat
      BY NvAssumption DEF NvAssumption
    <3> QED BY <3>1
  <2>2. CASE SetVol(l, t)
    <3>1. Called("vol", l) /\ Queued(l, "volume", 32767, t)
      BY <2>2 DEF SetVol
    <3>2. Requested
      BY <1>2, <2>1, <3>1, QueuedIs DEF UpdateTypes
    <3> QED BY <1>1, <3>1, <3>2
  <2>3. CASE StartVoiceAlt(l, t)
    <3>1. Called("startalt", l) /\ Queued(l, "startalt", 32767, t)
      BY <2>3 DEF StartVoiceAlt
    <3>2. Requested
      BY <1>2, <2>1, <3>1, QueuedIs DEF UpdateTypes
    <3> QED BY <1>1, <3>1, <3>2
  <2> QED BY <1>8, <2>2, <2>3
<1>9. CASE AllocVoice(l)
  <2>1. /\ syn.phase = "handler" /\ nvClient' \in NvPlayers /\ UNCHANGED <<em, syn>>
        /\ pvoice[l] = 0 /\ (TakeSpare(l) \/ Steal(l) \/ FindNone(l))
    BY <1>9, CallType DEF AllocVoice
  <2>2. CASE TakeSpare(l)
    BY <2>1, <2>2 DEF Call, Takes
  <2>3. CASE Steal(l)
    <3>1. \E p \in Phys, s \in Seq(NvUpdate) : Steals(l, p, s)
      BY <2>1, <2>3, StealIs
    <3> QED BY <2>1, <3>1 DEF Call
  <2>4. CASE FindNone(l)
    BY <2>1, <2>4 DEF Call, FindNone, Stays
  <2> QED BY <2>1, <2>2, <2>3, <2>4
<1>10. CASE ReleaseVoice(l)
  <2>1. syn.phase = "handler" /\ nvClient' \in NvPlayers /\ UNCHANGED <<em, syn>>
    BY <1>10, CallType DEF ReleaseVoice
  <2>2. \E p \in Phys : Retires(l, p) \/ FreesLater(l, p)
    BY <1>10, ReleaseIs
  <2> QED BY <2>1, <2>2 DEF Call
<1> HIDE DEF Requested
<1> QED BY <1>3, <1>4, <1>5, <1>6, <1>7, <1>8, <1>9, <1>10

-----------------------------------------------------------------------------
(* What each operation makes of the three lists.                           *)

RetiredTo(L, M, p) ==
  /\ ListsOk(M) /\ M.free = L.free
  /\ Members(M.lame) = Members(L.lame) \cup {p} /\ Members(M.alloc) = Members(L.alloc) \ {p}

LEMMA RetiredIs ==
  ASSUME NEW L, ListsOk(L), NEW p \in Members(L.alloc)
  PROVE  RetiredTo(L, NvRetired(L, p), p)
<1>1. /\ L.free \in Seq(Phys) /\ L.lame \in Seq(Phys) /\ L.alloc \in Seq(Phys)
      /\ L = [free |-> L.free, lame |-> L.lame, alloc |-> L.alloc] /\ Parted(L.free, L.lame, L.alloc)
  BY DEF ListsOk
<1>2. p \in Phys /\ p \notin Members(L.lame) /\ p \notin Members(L.free) /\ Distinct(L.alloc) /\ Distinct(L.lame)
  <2>1. p \in Phys
    BY <1>1 DEF Members
  <2> QED BY <1>1, <2>1 DEF Parted
<1> DEFINE a == Delinked(L.alloc, p)
           m == <<p>> \o L.lame
<1>3. a \in Seq(Phys) /\ Distinct(a) /\ Members(a) = Members(L.alloc) \ {p}
  BY <1>1, <1>2, DelinkedSeq
<1>4. m \in Seq(Phys) /\ Distinct(m) /\ Members(m) = Members(L.lame) \cup {p}
  BY <1>1, <1>2, Consed
<1>5. NvRetired(L, p) = [L EXCEPT !.alloc = a, !.lame = m]
  BY DEF NvRetired
<1> HIDE DEF a, m
<1>6. NvRetired(L, p) = [free |-> L.free, lame |-> m, alloc |-> a]
  BY <1>1, <1>5
<1>7. Parted(L.free, m, a)
  <2> HIDE DEF a, m
  <2> QED BY <1>1, <1>2, <1>3, <1>4 DEF Parted
<1> QED BY <1>1, <1>3, <1>4, <1>6, <1>7 DEF RetiredTo, ListsOk

(* p goes from a spare list, the lame one if it can, to the allocated one. *)
TakenTo(L, M, p) ==
  /\ ListsOk(M) /\ p \in Phys /\ p \notin Members(L.alloc)
  /\ Members(M.free) \subseteq Members(L.free) /\ Members(M.lame) \subseteq Members(L.lame)
  /\ p \notin Members(M.free) /\ p \notin Members(M.lame)
  /\ Members(M.alloc) = Members(L.alloc) \cup {p}

LEMMA TakenIs ==
  ASSUME NEW L, ListsOk(L), NEW k \in {"free", "lame"}, L[k] # <<>>
  PROVE  TakenTo(L, [L EXCEPT ![k] = Tail(@), !.alloc = <<L[k][1]>> \o @], L[k][1])
<1>1. /\ L.free \in Seq(Phys) /\ L.lame \in Seq(Phys) /\ L.alloc \in Seq(Phys)
      /\ L = [free |-> L.free, lame |-> L.lame, alloc |-> L.alloc] /\ Parted(L.free, L.lame, L.alloc)
  BY DEF ListsOk
<1> DEFINE p == L[k][1]
           M == [L EXCEPT ![k] = Tail(@), !.alloc = <<L[k][1]>> \o @]
           c == Tail(L[k])
           a == <<p>> \o L.alloc
<1>2. c \in Seq(Phys) /\ p \in Phys /\ p \in Members(L[k]) /\ Distinct(c) /\ Members(c) = Members(L[k]) \ {p}
  <2>1. L[k] \in Seq(Phys) /\ Distinct(L[k])
    BY <1>1 DEF Parted
  <2> QED BY <2>1, Tailed
<1>3. p \notin Members(L.alloc) /\ (k = "free" => p \notin Members(L.lame)) /\ (k = "lame" => p \notin Members(L.free))
  BY <1>1, <1>2 DEF Parted
<1>4. a \in Seq(Phys) /\ Distinct(a) /\ Members(a) = Members(L.alloc) \cup {p}
  <2>1. Distinct(L.alloc)
    BY <1>1 DEF Parted
  <2> QED BY <1>1, <1>2, <1>3, <2>1, Consed
<1> HIDE DEF c, a
<1>5. CASE k = "free"
  <2>0. M = [L EXCEPT !.free = c, !.alloc = a]
    BY <1>5 DEF c, a
  <2>1. M = [free |-> c, lame |-> L.lame, alloc |-> a]
    <3> HIDE DEF M
    <3> QED BY <1>1, <2>0
  <2>2. Parted(c, L.lame, a)
    BY <1>1, <1>2, <1>3, <1>4, <1>5 DEF Parted
  <2> HIDE DEF p, M
  <2> QED BY <1>1, <1>2, <1>3, <1>4, <1>5, <2>1, <2>2 DEF TakenTo, ListsOk, p, M
<1>6. CASE k = "lame"
  <2>0. M = [L EXCEPT !.lame = c, !.alloc = a]
    BY <1>6 DEF c, a
  <2>1. M = [free |-> L.free, lame |-> c, alloc |-> a]
    <3> HIDE DEF M
    <3> QED BY <1>1, <2>0
  <2>2. Parted(L.free, c, a)
    BY <1>1, <1>2, <1>3, <1>4, <1>6 DEF Parted
  <2> QED BY <1>1, <1>2, <1>3, <1>4, <1>6, <2>1, <2>2 DEF TakenTo, ListsOk
<1> QED BY <1>5, <1>6

CollectedTo(L, M) ==
  /\ ListsOk(M) /\ M.lame = <<>> /\ M.alloc = L.alloc
  /\ Members(M.free) = Members(L.free) \cup Members(L.lame)

LEMMA CollectedIs ==
  ASSUME NEW L, ListsOk(L)
  PROVE  CollectedTo(L, Collected(L))
<1>1. /\ L.free \in Seq(Phys) /\ L.lame \in Seq(Phys) /\ L.alloc \in Seq(Phys)
      /\ L = [free |-> L.free, lame |-> L.lame, alloc |-> L.alloc] /\ Parted(L.free, L.lame, L.alloc)
  BY DEF ListsOk
<1> DEFINE r == Reversed(L.lame)
           f == r \o L.free
<1>2. r \in Seq(Phys) /\ Distinct(r) /\ Members(r) = Members(L.lame)
  BY <1>1, ReversedSeq DEF Parted
<1> HIDE DEF r
<1>3. f \in Seq(Phys) /\ Members(f) = Members(L.lame) \cup Members(L.free) /\ Distinct(f)
  <2>1. Distinct(L.free) /\ Members(r) \cap Members(L.free) = {}
    BY <1>1, <1>2 DEF Parted
  <2> QED BY <1>1, <1>2, <2>1, Joined
<1>c. Collected(L) = [L EXCEPT !.lame = <<>>, !.free = f]
  BY DEF Collected, r
<1> HIDE DEF f
<1>4. Collected(L) = [free |-> f, lame |-> <<>>, alloc |-> L.alloc]
  BY <1>1, <1>c
<1> HIDE DEF f
<1>5. <<>> \in Seq(Phys) /\ Members(<<>>) = {} /\ Distinct(<<>>)
  BY DEF Members, Distinct
<1>6. Parted(f, <<>>, L.alloc)
  BY <1>1, <1>3, <1>5 DEF Parted
<1> QED BY <1>1, <1>3, <1>4, <1>5, <1>6 DEF CollectedTo, ListsOk

LEMMA FirstOfTwo ==
  ASSUME NEW S, NEW s \in Seq(S), NEW t \in Seq(S), s # <<>>
  PROVE  (s \o t)[1] = s[1]
OBVIOUS

LEMMA SpareTaken ==
  ASSUME NEW l, ListsOk(pLists), TakeSpare(l)
  PROVE  \E p \in Phys : /\ TakenTo(pLists, pLists', p)
                         /\ pOffset' = [pOffset EXCEPT ![p] = 0] /\ vvoice' = [vvoice EXCEPT ![p] = l]
                         /\ pvoice' = [pvoice EXCEPT ![l] = p] /\ UNCHANGED <<ctrlList, paramList>>
<1>1. pLists.free \in Seq(Phys) /\ pLists.lame \in Seq(Phys)
  BY DEF ListsOk
<1> DEFINE k == IF pLists.lame # <<>> THEN "lame" ELSE "free"
           p == pLists[k][1]
<1>2. Spare # <<>> /\ Spare = pLists.lame \o pLists.free
  BY DEF TakeSpare, Spare
<1>3. pLists[k] # <<>> /\ Spare[1] = p
  <2>1. CASE pLists.lame # <<>>
    <3>1. (pLists.lame \o pLists.free)[1] = pLists.lame[1]
      BY <1>1, <2>1, FirstOfTwo
    <3> QED BY <1>2, <2>1, <3>1
  <2>2. CASE pLists.lame = <<>>
    <3>1. Spare = pLists.free
      BY <1>1, <1>2, <2>2, ConcatEmptySeq
    <3> QED BY <1>2, <2>2, <3>1
  <2> QED BY <2>1, <2>2
<1>4. pLists' = [pLists EXCEPT ![k] = Tail(@), !.alloc = <<p>> \o @]
  <2>1. CASE pLists.lame # <<>>
    BY <1>3, <2>1 DEF TakeSpare
  <2>2. CASE pLists.lame = <<>>
    BY <1>3, <2>2 DEF TakeSpare
  <2> QED BY <2>1, <2>2
<1>5. k \in {"free", "lame"}
  OBVIOUS
<1>6. TakenTo(pLists, pLists', p)
  <2> HIDE DEF k
  <2> QED BY <1>3, <1>4, <1>5, TakenIs
<1>7. p \in Phys
  BY <1>6 DEF TakenTo
<1> HIDE DEF p, k
<1> QED BY <1>3, <1>6, <1>7 DEF TakeSpare

-----------------------------------------------------------------------------
(* What each operation makes of the queued updates.                        *)

ListTypes(c) == c \in [Phys -> Seq(NvUpdate)]

Extends(p, s) ==
  /\ p \in Phys /\ s \in Seq(NvUpdate) /\ Len(s) \in 1 .. 2 /\ paramList' \in Nat /\ paramList' = paramList - Len(s)
  /\ ListTypes(ctrlList') /\ \A q \in Phys : q # p => ctrlList'[q] = ctrlList[q]
  /\ Len(ctrlList'[p]) = Len(ctrlList[p]) + Len(s)
  /\ \A i \in 1 .. Len(ctrlList'[p]) :
       ctrlList'[p][i] = IF i <= Len(ctrlList[p]) THEN ctrlList[p][i] ELSE s[i - Len(ctrlList[p])]

LEMMA AddsIs ==
  ASSUME NvTypes, NEW p, NEW s, Adds(p, s)
  PROVE  Extends(p, s)
<1>1. /\ p \in Phys /\ s \in Seq(NvUpdate) /\ Len(s) \in 1 .. 2 /\ Len(s) <= paramList /\ paramList' = paramList - Len(s)
      /\ ctrlList' = [ctrlList EXCEPT ![p] = ctrlList[p] \o s]
  BY DEF Adds
<1>2. ListTypes(ctrlList) /\ paramList \in Nat
  BY DEF NvTypes, ListTypes
<1> DEFINE c == ctrlList[p] \o s
<1>3. /\ c \in Seq(NvUpdate) /\ Len(c) = Len(ctrlList[p]) + Len(s)
      /\ \A i \in 1 .. Len(c) : c[i] = IF i <= Len(ctrlList[p]) THEN ctrlList[p][i] ELSE s[i - Len(ctrlList[p])]
  <2>1. ctrlList[p] \in Seq(NvUpdate)
    BY <1>1, <1>2 DEF ListTypes
  <2> QED BY <1>1, <2>1, Concatenated
<1> HIDE DEF c
<1>4. ListTypes(ctrlList') /\ ctrlList'[p] = c /\ \A q \in Phys : q # p => ctrlList'[q] = ctrlList[q]
  <2>1. ctrlList' = [ctrlList EXCEPT ![p] = c]
    BY <1>1 DEF c
  <2> QED BY <1>1, <1>2, <1>3, <2>1 DEF ListTypes
<1>5. paramList' \in Nat
  BY <1>1, <1>2
<1> QED BY <1>1, <1>3, <1>4, <1>5 DEF Extends

Shortens(p) ==
  /\ p \in Phys /\ ctrlList[p] # <<>> /\ ctrlList[p][1] \in NvUpdate
  /\ ListTypes(ctrlList') /\ \A q \in Phys : q # p => ctrlList'[q] = ctrlList[q]
  /\ Len(ctrlList'[p]) = Len(ctrlList[p]) - 1
  /\ \A i \in 1 .. Len(ctrlList'[p]) : ctrlList'[p][i] = ctrlList[p][i + 1]

LEMMA ApplyIs ==
  ASSUME NvTypes, ApplyUpdate
  PROVE  Shortens(syn.at) /\ Update1 = ctrlList[syn.at][1] /\ Due
<1> DEFINE p == syn.at
           c == Tail(ctrlList[p])
<1>1. p \in Phys /\ ListTypes(ctrlList) /\ ctrlList[p] # <<>> /\ Due /\ ctrlList' = [ctrlList EXCEPT ![p] = c]
  BY DEF NvTypes, SynTypes, ApplyUpdate, Due, ListTypes
<1>2. ctrlList[p] \in Seq(NvUpdate)
  BY <1>1 DEF ListTypes
<1>3. /\ c \in Seq(NvUpdate) /\ Len(c) = Len(ctrlList[p]) - 1 /\ ctrlList[p][1] \in NvUpdate
      /\ \A i \in 1 .. Len(c) : c[i] = ctrlList[p][i + 1]
  <2> HIDE DEF p
  <2> QED BY <1>1, <1>2
<1> HIDE DEF c, p
<1>4. ListTypes(ctrlList') /\ ctrlList'[p] = c /\ \A q \in Phys : q # p => ctrlList'[q] = ctrlList[q]
  BY <1>1, <1>3 DEF ListTypes
<1>5. Shortens(p)
  BY <1>1, <1>3, <1>4 DEF Shortens
<1> QED BY <1>1, <1>5 DEF Update1, p

Shifts ==
  /\ ListTypes(ctrlList')
  /\ \A p \in Phys :
       /\ Len(ctrlList'[p]) = Len(ctrlList[p])
       /\ \A i \in 1 .. Len(ctrlList[p]) :
            /\ ctrlList'[p][i].type = ctrlList[p][i].type /\ ctrlList'[p][i].delta = ctrlList[p][i].delta - SAMPLES
            /\ ctrlList'[p][i].data = ctrlList[p][i].data /\ ctrlList'[p][i].ramp = ctrlList[p][i].ramp

LEMMA BlockIs ==
  ASSUME NvTypes, EndBlock
  PROVE  Shifts
<1>1. ListTypes(ctrlList)
  BY DEF NvTypes, ListTypes
<1> DEFINE Shifted(s) == [i \in DOMAIN s |-> [s[i] EXCEPT !.delta = @ - SAMPLES]]
<1>2. ctrlList' = [p \in Phys |-> Shifted(ctrlList[p])]
  BY DEF EndBlock
<1>3. ASSUME NEW s \in Seq(NvUpdate)
      PROVE /\ Shifted(s) \in Seq(NvUpdate) /\ Len(Shifted(s)) = Len(s)
            /\ \A i \in 1 .. Len(s) :
                 /\ Shifted(s)[i].type = s[i].type /\ Shifted(s)[i].delta = s[i].delta - SAMPLES
                 /\ Shifted(s)[i].data = s[i].data /\ Shifted(s)[i].ramp = s[i].ramp
  <2>1. DOMAIN s = 1 .. Len(s) /\ Len(s) \in Nat
    OBVIOUS
  <2>2. ASSUME NEW u \in NvUpdate
        PROVE /\ [u EXCEPT !.delta = @ - SAMPLES] \in NvUpdate
              /\ [u EXCEPT !.delta = @ - SAMPLES].type = u.type
              /\ [u EXCEPT !.delta = @ - SAMPLES].delta = u.delta - SAMPLES
              /\ [u EXCEPT !.delta = @ - SAMPLES].data = u.data
              /\ [u EXCEPT !.delta = @ - SAMPLES].ramp = u.ramp
    <3>1. u.delta - SAMPLES \in Int
      BY DEF NvUpdate, SAMPLES
    <3>2. [u EXCEPT !.delta = @ - SAMPLES] \in NvUpdate
      BY <3>1 DEF NvUpdate
    <3>3. /\ [u EXCEPT !.delta = @ - SAMPLES].type = u.type
          /\ [u EXCEPT !.delta = @ - SAMPLES].delta = u.delta - SAMPLES
          /\ [u EXCEPT !.delta = @ - SAMPLES].data = u.data
          /\ [u EXCEPT !.delta = @ - SAMPLES].ramp = u.ramp
      BY DEF NvUpdate
    <3> QED BY <3>2, <3>3
  <2>3. \A i \in 1 .. Len(s) : s[i] \in NvUpdate /\ Shifted(s)[i] = [s[i] EXCEPT !.delta = @ - SAMPLES]
    BY <2>1
  <2>4. Shifted(s) \in Seq(NvUpdate) /\ Len(Shifted(s)) = Len(s)
    <3>1. \A i \in 1 .. Len(s) : [s[i] EXCEPT !.delta = @ - SAMPLES] \in NvUpdate
      BY <2>2, <2>3
    <3>2. Shifted(s) = [i \in 1 .. Len(s) |-> [s[i] EXCEPT !.delta = @ - SAMPLES]]
      BY <2>1
    <3> QED BY <2>1, <3>1, <3>2
  <2> HIDE DEF Shifted
  <2> QED BY <2>2, <2>3, <2>4
<1> HIDE DEF Shifted
<1>4. \A p \in Phys : ctrlList[p] \in Seq(NvUpdate) /\ ctrlList'[p] = Shifted(ctrlList[p])
  BY <1>1, <1>2 DEF ListTypes
<1>5. ListTypes(ctrlList')
  BY <1>2, <1>3, <1>4 DEF ListTypes
<1> QED BY <1>3, <1>4, <1>5 DEF Shifts

-----------------------------------------------------------------------------
(* What each operation makes of the frame.                                 *)

SameFrame(s, t) == t.left = s.left /\ t.cur = s.cur /\ t.len = s.len

OpenedTo(s, t) ==
  /\ SameFrame(s, t) /\ t \in SynTypes
  /\ IF s.left < s.len THEN t.phase = "handler"
     ELSE t.phase = "pull" /\ t.at = 1 /\ t.out = SAMPLES /\ t.clock = 0

LEMMA OpenedIs ==
  ASSUME NEW s \in SynTypes
  PROVE  OpenedTo(s, Opened(s))
<1>1. s.left \in Nat /\ s.len \in Nat
  BY DEF SynTypes
<1>2. 1 \in Phys
  <2>1. NvPVoices \in Nat \ {0}
    BY NvAssumption DEF NvAssumption
  <2> QED BY <2>1 DEF Phys
<1>3. CASE s.left < s.len
  BY <1>3 DEF Opened, OpenedTo, SynTypes, SameFrame
<1>4. CASE ~(s.left < s.len)
  <2> DEFINE t == [s EXCEPT !.phase = "pull", !.at = 1, !.out = SAMPLES, !.clock = 0]
  <2>0. t = [phase |-> "pull", left |-> s.left, cur |-> s.cur, len |-> s.len, at |-> 1, out |-> SAMPLES, clock |-> 0]
    <3>1. s = [phase |-> s.phase, left |-> s.left, cur |-> s.cur, len |-> s.len, at |-> s.at, out |-> s.out,
               clock |-> s.clock]
      BY DEF SynTypes
    <3>2. t = [s EXCEPT !.phase = "pull", !.at = 1, !.out = SAMPLES, !.clock = 0]
      OBVIOUS
    <3> HIDE DEF t
    <3> QED BY ONLY <3>1, <3>2
  <2>1. t \in SynTypes
    <3>1. s.left \in Nat /\ s.cur \in 0 .. 15 /\ s.len \in Nat
      BY DEF SynTypes
    <3> HIDE DEF t
    <3> QED BY ONLY <1>2, <2>0, <3>1 DEF SynTypes, SAMPLES
  <2>2. /\ t.left = s.left /\ t.cur = s.cur /\ t.len = s.len
        /\ t.phase = "pull" /\ t.at = 1 /\ t.out = SAMPLES /\ t.clock = 0
    BY DEF SynTypes
  <2>3. Opened(s) = t
    BY <1>4 DEF Opened
  <2> HIDE DEF t
  <2> QED BY <1>4, <2>1, <2>2, <2>3 DEF OpenedTo, SameFrame
<1> QED BY <1>3, <1>4

(* Where the span of an update ends.                                       *)
SpanInv ==
  LET d == Update1.delta IN
  /\ Span \in {0, SAMPLES} /\ syn.out \in {0, SAMPLES} /\ d \in Int
  /\ \/ syn.out = SAMPLES /\ syn.clock = 0 /\ Span = 0 /\ d \in -15 .. 91
     \/ syn.out = SAMPLES /\ syn.clock = 0 /\ Span = SAMPLES /\ d \in 92 .. 275
     \/ syn.out = 0 /\ syn.clock \in 92 .. 275 /\ Span = 0 /\ d \in syn.clock .. syn.clock + 91

LEMMA AtTypes ==
  ASSUME NvTypes
  PROVE  /\ syn.at \in Phys /\ syn.at \in Nat /\ syn.out \in {0, SAMPLES} /\ syn.clock \in Int
         /\ ctrlList[syn.at] \in Seq(NvUpdate)
         /\ \A i \in 1 .. Len(ctrlList[syn.at]) : ctrlList[syn.at][i].delta \in Int
<1>1. syn.at \in Phys /\ syn.out \in {0, SAMPLES} /\ syn.clock \in Int
  BY DEF NvTypes, SynTypes
<1>2. ctrlList[syn.at] \in Seq(NvUpdate)
  BY <1>1 DEF NvTypes
<1>3. \A i \in 1 .. Len(ctrlList[syn.at]) : ctrlList[syn.at][i].delta \in Int
  <2>1. \A u \in NvUpdate : u.delta \in Int
    BY DEF NvUpdate
  <2>2. \A i \in 1 .. Len(ctrlList[syn.at]) : ctrlList[syn.at][i] \in NvUpdate
    BY <1>2
  <2> QED BY <2>1, <2>2
<1> QED BY <1>1, <1>2, <1>3 DEF Phys

LEMMA SpanIs ==
  ASSUME NvTypes, FrameInv, TimesInv, Due
  PROVE  SpanInv
<1> DEFINE p == syn.at
           d == Update1.delta
<1>1. /\ p \in Phys /\ p \in Nat /\ syn.out \in {0, SAMPLES} /\ syn.clock \in Int /\ d \in Int
      /\ ctrlList[p] # <<>> /\ 1 \in 1 .. Len(ctrlList[p])
  <2>1. ctrlList[p] \in Seq(NvUpdate) /\ ctrlList[p] # <<>>
    BY AtTypes DEF Due
  <2>2. 1 \in 1 .. Len(ctrlList[p])
    BY <2>1
  <2> QED BY <2>1, <2>2, AtTypes DEF Update1
<1>2. syn.phase = "pull" /\ Span <= syn.out
  BY DEF Due
<1>3. d >= Earliest(p)
  <2>1. ctrlList[p][1].delta \in Earliest(p) .. NvNow + pOffset[p]
    BY <1>1 DEF TimesInv
  <2> QED BY <1>1, <2>1 DEF Update1
<1>4. IF syn.out = SAMPLES THEN syn.clock = 0 ELSE syn.clock \in 92 .. 275
  BY <1>2 DEF FrameInv
<1>5. Earliest(p) = IF syn.out = SAMPLES THEN -15 ELSE syn.clock
  BY <1>1, <1>2 DEF Earliest
<1>6. PICK n \in Int : n = d - syn.clock
  BY <1>1
<1>7. Span = Snap(n)
  BY <1>6 DEF Span
<1> HIDE DEF p, d
<1>8. CASE syn.out = SAMPLES
  <2>1. syn.clock = 0 /\ n = d /\ d >= -15
    BY <1>1, <1>3, <1>4, <1>5, <1>6, <1>8
  <2>2. n < 276
    BY <1>2, <1>7, <1>8, <2>1, SnapIs DEF SAMPLES
  <2>3. \/ n < 92 /\ Span = 0
        \/ n >= 92 /\ Span = SAMPLES
    BY <1>7, <2>1, <2>2, SnapIs
  <2>4. (d \in -15 .. 91 /\ Span = 0) \/ (d \in 92 .. 275 /\ Span = SAMPLES)
    BY <1>1, <2>1, <2>2, <2>3
  <2> QED BY <1>1, <1>8, <2>1, <2>4 DEF SpanInv, d
<1>9. CASE syn.out = 0
  <2>1. syn.clock \in 92 .. 275 /\ n >= 0
    BY <1>1, <1>3, <1>4, <1>5, <1>6, <1>9 DEF SAMPLES
  <2>2. n < 92
    BY <1>2, <1>7, <1>9, <2>1, SnapIs DEF SAMPLES
  <2>3. Span = 0
    BY <1>7, <2>1, <2>2, SnapIs
  <2>4. d \in syn.clock .. syn.clock + 91
    BY <1>1, <1>6, <2>1, <2>2
  <2> QED BY <1>1, <1>9, <2>1, <2>3, <2>4 DEF SpanInv, d
<1> QED BY <1>1, <1>8, <1>9

LEMMA NotDueIs ==
  ASSUME NvTypes, FrameInv, TimesInv, syn.phase = "pull", ~Due, ctrlList[syn.at] # <<>>
  PROVE  ctrlList[syn.at][1].delta >= SAMPLES
<1> DEFINE p == syn.at
           d == Update1.delta
<1>1. p \in Phys /\ p \in Nat /\ syn.out \in {0, SAMPLES} /\ syn.clock \in Int /\ d \in Int /\ d = ctrlList[p][1].delta
  <2>1. ctrlList[p] \in Seq(NvUpdate)
    BY AtTypes
  <2>2. 1 \in 1 .. Len(ctrlList[p])
    BY <2>1
  <2> QED BY <2>1, <2>2, AtTypes DEF Update1
<1>2. ~(Span <= syn.out)
  BY DEF Due
<1>4. IF syn.out = SAMPLES THEN syn.clock = 0 ELSE syn.clock \in 92 .. 275
  BY DEF FrameInv
<1>5. d >= IF syn.out = SAMPLES THEN -15 ELSE syn.clock
  <2>1. 1 \in 1 .. Len(ctrlList[p])
    BY AtTypes
  <2>2. ctrlList[p][1].delta \in Earliest(p) .. NvNow + pOffset[p]
    BY <1>1, <2>1 DEF TimesInv
  <2>3. Earliest(p) = IF syn.out = SAMPLES THEN -15 ELSE syn.clock
    BY <1>1 DEF Earliest
  <2> QED BY <1>1, <2>2, <2>3
<1>6. PICK n \in Int : n = d - syn.clock
  BY <1>1
<1>7. Span = Snap(n)
  BY <1>6 DEF Span
<1> HIDE DEF p, d
<1>8. CASE syn.out = SAMPLES
  <2>1. syn.clock = 0 /\ n = d /\ d >= -15
    BY <1>1, <1>4, <1>5, <1>6, <1>8
  <2>2. ~(n < 276)
    BY <1>2, <1>7, <1>8, <2>1, SnapIs DEF SAMPLES
  <2> QED BY <1>1, <2>1, <2>2 DEF SAMPLES, p
<1>9. CASE syn.out = 0
  <2>1. syn.clock \in 92 .. 275 /\ n >= 0
    BY <1>1, <1>4, <1>5, <1>6, <1>9 DEF SAMPLES
  <2>2. ~(n < 92)
    BY <1>2, <1>7, <1>9, <2>1, SnapIs DEF SAMPLES
  <2>3. d >= SAMPLES
    BY ONLY <1>1, <1>6, <2>1, <2>2 DEF SAMPLES
  <2> QED BY <1>1, <2>3 DEF p
<1>10. syn.out = 0 \/ syn.out = SAMPLES
  BY <1>1
<1> QED BY ONLY <1>8, <1>9, <1>10

(* The pull of p after an update that is due: the same voice, less span.   *)
AdvancedTo(s, t, d) ==
  /\ SameFrame(s, t) /\ t \in SynTypes /\ t.phase = "pull" /\ t.at = s.at
  /\ IF t.out = SAMPLES THEN t.clock = 0 /\ s.out = SAMPLES /\ d \in -15 .. 91
     ELSE t.clock \in 92 .. 275 /\ d >= t.clock /\ IF s.out = 0 THEN t.clock = s.clock ELSE t.clock = d

LEMMA AdvanceIs ==
  ASSUME NvTypes, SpanInv, Due
  PROVE  AdvancedTo(syn, Advanced(syn), Update1.delta)
<1>1. syn \in SynTypes /\ syn.phase = "pull"
  BY DEF NvTypes, Due
<1>2. PICK d \in Int : d = Update1.delta
  BY DEF SpanInv
<1>3. PICK k \in {0, SAMPLES} : k = Span
  BY DEF SpanInv
<1>4. Advanced(syn) = [syn EXCEPT !.out = @ - k, !.clock = IF k = 0 THEN @ ELSE d]
  BY <1>2, <1>3 DEF Advanced
<1>5. \/ syn.out = SAMPLES /\ syn.clock = 0 /\ k = 0 /\ d \in -15 .. 91
      \/ syn.out = SAMPLES /\ syn.clock = 0 /\ k = SAMPLES /\ d \in 92 .. 275
      \/ syn.out = 0 /\ syn.clock \in 92 .. 275 /\ k = 0 /\ d \in syn.clock .. syn.clock + 91
  BY <1>2, <1>3 DEF SpanInv
<1> DEFINE t == Advanced(syn)
<1>6. /\ t.phase = syn.phase /\ t.left = syn.left /\ t.cur = syn.cur /\ t.len = syn.len /\ t.at = syn.at
      /\ t.out = syn.out - k /\ t.clock = (IF k = 0 THEN syn.clock ELSE d)
      /\ (t.out \in {0, SAMPLES} /\ t.clock \in Int => t \in SynTypes)
  BY <1>1, <1>4 DEF SynTypes
<1> HIDE DEF t
<1>7. t \in SynTypes
  BY <1>1, <1>2, <1>5, <1>6 DEF SAMPLES
<1>8. IF t.out = SAMPLES THEN t.clock = 0 /\ syn.out = SAMPLES /\ d \in -15 .. 91
      ELSE t.clock \in 92 .. 275 /\ d >= t.clock /\ IF syn.out = 0 THEN t.clock = syn.clock ELSE t.clock = d
  BY <1>2, <1>5, <1>6 DEF SAMPLES
<1> QED BY <1>1, <1>2, <1>6, <1>7, <1>8 DEF AdvancedTo, SameFrame, t

(* The frame is opened with so many samples left, for so many.             *)
Opens(left, len) ==
  /\ syn' \in SynTypes /\ syn'.left = left /\ syn'.cur = syn.cur /\ syn'.len = len
  /\ left \in Nat /\ left >= syn.left /\ len % SAMPLES = 0 /\ len >= SAMPLES
  /\ IF left < len THEN syn'.phase = "handler"
     ELSE syn'.phase = "pull" /\ syn'.at = 1 /\ syn'.out = SAMPLES /\ syn'.clock = 0

LEMMA FrameLengths ==
  ASSUME NEW n \in NvFrames
  PROVE  n \in Nat \ {0} /\ n % SAMPLES = 0
<1>1. n \in Nat \ {0}
  <2>1. NvFrames \subseteq Nat \ {0}
    BY NvAssumption DEF NvAssumption
  <2> QED BY <2>1
<1>2. n % SAMPLES = 0
  BY NvAssumption DEF NvAssumption
<1> QED BY <1>1, <1>2

LEMMA FrameOpens ==
  ASSUME NvTypes, AudioFrame
  PROVE  \E n \in Nat : Opens(syn.left, n)
<1>1. PICK n \in NvFrames : syn' = Opened([syn EXCEPT !.len = n])
  BY DEF AudioFrame
<1>2. n \in Nat \ {0} /\ n % SAMPLES = 0
  BY FrameLengths
<1> DEFINE s == [syn EXCEPT !.len = n]
<1>3. syn \in SynTypes
  BY DEF NvTypes
<1>4. s \in SynTypes /\ s.left = syn.left /\ s.cur = syn.cur /\ s.len = n /\ syn.left \in Nat
  BY <1>2, <1>3 DEF SynTypes
<1> HIDE DEF s
<1>5. OpenedTo(s, syn')
  BY <1>1, <1>4, OpenedIs DEF s
<1>6. n >= SAMPLES
  BY <1>2 DEF SAMPLES
<1> QED BY <1>2, <1>4, <1>5, <1>6 DEF OpenedTo, SameFrame, Opens

LEMMA HandlerOpens ==
  ASSUME NvTypes, FrameInv, HandlerReturns
  PROVE  \E n \in Nat : Opens(n, syn.len)
<1>1. syn.phase = "handler" /\ syn' = Opened([syn EXCEPT !.left = @ + nvClient.period])
  BY DEF HandlerReturns
<1>2. syn \in SynTypes /\ nvClient.period \in Nat
  BY DEF NvTypes, NvPlayers
<1> DEFINE n == syn.left + nvClient.period
           s == [syn EXCEPT !.left = n]
<1>3. n \in Nat /\ n >= syn.left /\ syn.len \in Nat /\ syn.left \in Nat
  BY <1>2 DEF SynTypes
<1>4. s \in SynTypes /\ s.left = n /\ s.cur = syn.cur /\ s.len = syn.len
  BY <1>2, <1>3 DEF SynTypes
<1>5. syn' = Opened(s)
  BY <1>1
<1> HIDE DEF s, n
<1>6. OpenedTo(s, syn')
  BY <1>4, <1>5, OpenedIs
<1>7. syn.len % SAMPLES = 0 /\ syn.len >= SAMPLES
  <2>1. syn.len % SAMPLES = 0 /\ syn.left < syn.len
    BY <1>1 DEF FrameInv
  <2> QED BY <1>3, <2>1 DEF SAMPLES
<1> QED BY <1>3, <1>4, <1>6, <1>7 DEF OpenedTo, SameFrame, Opens

MovesOn ==
  /\ syn' \in SynTypes /\ SameFrame(syn, syn') /\ syn'.phase = "pull" /\ syn'.at = syn.at + 1
  /\ syn'.out = SAMPLES /\ syn'.clock = 0

LEMMA NextMoves ==
  ASSUME NvTypes, NextVoice
  PROVE  MovesOn
<1>1. syn \in SynTypes /\ syn.phase = "pull" /\ syn.at < NvPVoices
  BY DEF NvTypes, NextVoice
<1>2. syn.at + 1 \in Phys
  <2>1. NvPVoices \in Nat \ {0} /\ syn.at \in 1 .. NvPVoices
    BY <1>1, NvAssumption DEF NvAssumption, SynTypes, Phys
  <2> QED BY <1>1, <2>1 DEF Phys
<1>3. syn' = [syn EXCEPT !.at = syn.at + 1, !.out = SAMPLES, !.clock = 0]
  BY DEF NextVoice
<1>4. syn = [phase |-> syn.phase, left |-> syn.left, cur |-> syn.cur, len |-> syn.len, at |-> syn.at, out |-> syn.out,
             clock |-> syn.clock]
  BY <1>1 DEF SynTypes
<1>5. syn' = [phase |-> "pull", left |-> syn.left, cur |-> syn.cur, len |-> syn.len, at |-> syn.at + 1, out |-> SAMPLES,
              clock |-> 0]
  BY ONLY <1>1, <1>3, <1>4
<1>6. syn.left \in Nat /\ syn.cur \in 0 .. 15 /\ syn.len \in Nat
  BY <1>1 DEF SynTypes
<1>7. syn' \in SynTypes
  BY ONLY <1>2, <1>5, <1>6 DEF SynTypes, SAMPLES
<1> QED BY <1>5, <1>7 DEF MovesOn, SameFrame

Ends ==
  /\ syn' \in SynTypes /\ syn.left \in Nat /\ syn.len \in Nat /\ syn.left >= syn.len /\ syn.len >= SAMPLES
  /\ syn'.left = syn.left - SAMPLES /\ syn'.len = syn.len - SAMPLES /\ syn'.cur = (syn.cur + SAMPLES) % 16
  /\ syn'.at = 1 /\ syn'.out = SAMPLES /\ syn'.clock = 0
  /\ syn'.phase = IF syn.len = SAMPLES THEN "idle" ELSE "pull"
  /\ syn.len % SAMPLES = 0

LEMMA BlockEnds ==
  ASSUME NvTypes, FrameInv, EndBlock
  PROVE  Ends
<1>1. syn \in SynTypes /\ syn.phase = "pull" /\ syn.left >= syn.len /\ syn.len >= SAMPLES /\ syn.len % SAMPLES = 0
  BY DEF NvTypes, EndBlock, FrameInv
<1>2. 1 \in Phys
  <2>1. NvPVoices \in Nat \ {0}
    BY NvAssumption DEF NvAssumption
  <2> QED BY <2>1 DEF Phys
<1>3. syn' = [syn EXCEPT !.left = syn.left - SAMPLES, !.cur = (syn.cur + SAMPLES) % 16, !.len = syn.len - SAMPLES,
                         !.at = 1, !.out = SAMPLES, !.clock = 0,
                         !.phase = IF syn.len = SAMPLES THEN "idle" ELSE "pull"]
  BY DEF EndBlock, Later
<1>4. syn = [phase |-> syn.phase, left |-> syn.left, cur |-> syn.cur, len |-> syn.len, at |-> syn.at, out |-> syn.out,
             clock |-> syn.clock]
  BY <1>1 DEF SynTypes
<1>5. syn' = [phase |-> IF syn.len = SAMPLES THEN "idle" ELSE "pull", left |-> syn.left - SAMPLES,
              cur |-> (syn.cur + SAMPLES) % 16, len |-> syn.len - SAMPLES, at |-> 1, out |-> SAMPLES, clock |-> 0]
  BY ONLY <1>3, <1>4
<1>6. syn.left \in Nat /\ syn.cur \in 0 .. 15 /\ syn.len \in Nat
  BY <1>1 DEF SynTypes
<1>7. syn.left - SAMPLES \in Nat /\ syn.len - SAMPLES \in Nat /\ (syn.cur + SAMPLES) % 16 \in 0 .. 15
  <2>1. syn.left - 184 \in Nat /\ syn.len - 184 \in Nat
    BY ONLY <1>1, <1>6 DEF SAMPLES
  <2>2. (syn.cur + 184) % 16 \in 0 .. 15
    BY ONLY <1>6
  <2> QED BY ONLY <2>1, <2>2 DEF SAMPLES
<1>8. syn' \in SynTypes
  BY ONLY <1>2, <1>5, <1>7 DEF SynTypes, SAMPLES
<1> QED BY <1>1, <1>5, <1>6, <1>8 DEF Ends

LEMMA FrameStep ==
  ASSUME NvTypes, FrameInv, TimesInv,
         AudioFrame \/ HandlerReturns \/ ApplyUpdate \/ NextVoice \/ EndBlock \/ Call
  PROVE  FrameInv' /\ syn' \in SynTypes
<1>1. CASE AudioFrame \/ HandlerReturns
  <2>1. PICK m \in Nat, n \in Nat : Opens(m, n)
    <3>1. syn.left \in Nat /\ syn.len \in Nat
      BY DEF NvTypes, SynTypes
    <3> QED BY <1>1, <3>1, FrameOpens, HandlerOpens
  <2> QED BY <2>1 DEF Opens, FrameInv, SAMPLES
<1>2. CASE ApplyUpdate
  <2>1. Due /\ syn' = Advanced(syn)
    BY <1>2 DEF ApplyUpdate
  <2>2. AdvancedTo(syn, syn', Update1.delta)
    BY <2>1, SpanIs, AdvanceIs
  <2>3. syn.phase = "pull"
    BY <2>1 DEF Due
  <2> QED BY <2>2, <2>3 DEF AdvancedTo, FrameInv, SameFrame
<1>3. CASE NextVoice
  <2>1. MovesOn /\ syn.phase = "pull"
    BY <1>3, NextMoves DEF NextVoice
  <2> QED BY <2>1 DEF MovesOn, FrameInv, SameFrame
<1>4. CASE EndBlock
  <2>1. Ends
    BY <1>4, BlockEnds
  <2>2. (syn.len - SAMPLES) % SAMPLES = 0 /\ (syn.len # SAMPLES => syn.len - SAMPLES >= SAMPLES)
    BY <2>1 DEF Ends, SAMPLES
  <2>3. syn.left - SAMPLES >= syn.len - SAMPLES
    BY <2>1 DEF Ends, SAMPLES
  <2> QED BY <2>1, <2>2, <2>3 DEF Ends, FrameInv
<1>5. CASE Call
  <2>1. syn' = syn
    BY <1>5 DEF Call
  <2> QED BY <2>1 DEF FrameInv, NvTypes
<1> QED BY <1>1, <1>2, <1>3, <1>4, <1>5

(* The time of the player: it stays, goes on, or counts from the next block.*)
LEMMA NowSame ==
  ASSUME NvTypes, SameFrame(syn, syn')
  PROVE  NvNow' = NvNow
BY DEF SameFrame, NvNow

LEMMA NowOpens ==
  ASSUME NvTypes, NEW m \in Nat, NEW n \in Nat, Opens(m, n)
  PROVE  NvNow' >= NvNow /\ NvNow' \in Int
<1>1. syn.left \in Nat /\ syn.cur \in 0 .. 15
  BY DEF NvTypes, SynTypes
<1>2. m >= syn.left /\ NvNow' = ((m + syn.cur) \div 16) * 16 - syn.cur
  BY DEF Opens, NvNow
<1>3. PICK a \in Int : a = (syn.left + syn.cur) \div 16
  BY <1>1
<1>4. PICK b \in Int : b = (m + syn.cur) \div 16
  BY <1>1
<1>5. b >= a
  BY <1>1, <1>2, <1>3, <1>4
<1>6. NvNow = a * 16 - syn.cur /\ NvNow' = b * 16 - syn.cur
  BY <1>2, <1>3, <1>4 DEF NvNow
<1> QED BY <1>1, <1>5, <1>6

LEMMA NowEnds ==
  ASSUME NvTypes, Ends
  PROVE  NvNow' = NvNow - SAMPLES
<1>1. syn.left \in Nat /\ syn.cur \in 0 .. 15
  BY DEF NvTypes, SynTypes
<1>2. PICK c \in 0 .. 15 : c = (syn.cur + 184) % 16
  BY <1>1
<1>3. PICK k \in Int : k = (syn.cur + 184) \div 16
  BY <1>1
<1>4. syn.cur + 184 = 16 * k + c
  BY <1>1, <1>2, <1>3
<1>5. PICK a \in Int : a = (syn.left + syn.cur) \div 16
  BY <1>1
<1>6. PICK b \in Int : b = (syn.left - 184 + c) \div 16
  BY <1>1
<1>7. syn.left - 184 + c = syn.left + syn.cur - 16 * k
  BY <1>1, <1>2, <1>4
<1>8. b = a - k
  BY <1>1, <1>3, <1>5, <1>6, <1>7
<1>9. NvNow' = b * 16 - c
  BY <1>2, <1>6 DEF Ends, NvNow, SAMPLES
<1>10. NvNow = a * 16 - syn.cur
  BY <1>5 DEF NvNow
<1> QED BY <1>1, <1>2, <1>3, <1>4, <1>5, <1>8, <1>9, <1>10 DEF SAMPLES

-----------------------------------------------------------------------------
(* Links.                                                                  *)

LEMMA AllocIn ==
  ASSUME NvTypes
  PROVE  \A p \in Alloc : p \in Phys
BY DEF NvTypes, Alloc, Members

(* The updates that are added to a voice that waits for no freeing.        *)
LEMMA ExtendFree ==
  ASSUME NvTypes, NEW p, NEW s, Extends(p, s), ~Freed(p)
  PROVE  /\ \A q \in Phys : q # p => Len(ctrlList'[q]) = Len(ctrlList[q]) /\ Freed(q)' = Freed(q)
         /\ \A i \in 1 .. Len(ctrlList'[p]) : ctrlList'[p][i].type = "free" =>
              i - Len(ctrlList[p]) \in 1 .. Len(s) /\ s[i - Len(ctrlList[p])].type = "free"
<1>1. \A q \in Phys : q # p => Len(ctrlList'[q]) = Len(ctrlList[q]) /\ Freed(q)' = Freed(q)
  BY DEF Extends, Freed
<1>2. ASSUME NEW i \in 1 .. Len(ctrlList'[p]), ctrlList'[p][i].type = "free"
      PROVE i - Len(ctrlList[p]) \in 1 .. Len(s) /\ s[i - Len(ctrlList[p])].type = "free"
  <2>1. /\ Len(ctrlList'[p]) = Len(ctrlList[p]) + Len(s) /\ Len(ctrlList[p]) \in Nat /\ Len(s) \in Nat
        /\ ctrlList'[p][i] = IF i <= Len(ctrlList[p]) THEN ctrlList[p][i] ELSE s[i - Len(ctrlList[p])]
    <3>1. ctrlList[p] \in Seq(NvUpdate)
      BY DEF Extends, NvTypes
    <3> QED BY <3>1 DEF Extends
  <2>2. ~(i <= Len(ctrlList[p]))
    BY <1>2, <2>1 DEF Freed
  <2> QED BY <1>2, <2>1, <2>2
<1> QED BY <1>1, <1>2

(* A voice whose updates go on, without one that frees it.                 *)
LEMMA ExtendLast ==
  ASSUME NvTypes, FreesLast, NEW p, NEW s, Extends(p, s), ~Freed(p),
         \A i \in 1 .. Len(s) : s[i].type # "free",
         \A q \in Phys : q # p /\ Freed(q) => (q \in Alloc') /\ pOffset'[q] # 0 /\ ~(Owned(q)')
  PROVE  FreesLast' /\ \A q \in Phys : Freed(q) => Freed(q)'
<1>1. /\ \A q \in Phys : q # p => Len(ctrlList'[q]) = Len(ctrlList[q]) /\ Freed(q)' = Freed(q)
      /\ \A i \in 1 .. Len(ctrlList'[p]) : ctrlList'[p][i].type # "free"
  BY ExtendFree
<1>2. \A q \in Phys : q # p => ctrlList'[q] = ctrlList[q]
  BY DEF Extends
<1>3. ASSUME NEW q \in Phys, NEW i \in 1 .. Len(ctrlList'[q]), ctrlList'[q][i].type = "free"
      PROVE i = Len(ctrlList'[q]) /\ (q \in Alloc') /\ pOffset'[q] # 0 /\ ~(Owned(q)')
  <2>1. q # p
    BY <1>1, <1>3
  <2>2. Freed(q) /\ i = Len(ctrlList[q])
    BY <1>2, <1>3, <2>1 DEF Freed, FreesLast
  <2> QED BY <1>2, <2>1, <2>2
<1>4. FreesLast'
  BY <1>3 DEF FreesLast
<1> QED BY <1>1, <1>4

LEMMA LinkStays ==
  ASSUME NvTypes, LinkInv, UNCHANGED <<voiceVars, ctrlList>>
  PROVE  LinkInv'
BY DEF LinkInv, NamesAgree, AllocNamed, OffsetsAlloc, FreesLast, Alloc, Owned, Freed, voiceVars

LEMMA OwnedNotFreed ==
  ASSUME FreesLast, NEW p \in Phys, Owned(p) \/ pOffset[p] = 0
  PROVE  ~Freed(p)
BY DEF FreesLast, Freed

LEMMA LinkQueues ==
  ASSUME NvTypes, LinkInv, NEW p \in Phys, NEW u \in NvUpdate, Queues(p, u)
  PROVE  LinkInv'
<1>1. Extends(p, <<u>>) /\ ~Freed(p) /\ u.type # "free" /\ UNCHANGED voiceVars
  BY AddsIs, OwnedNotFreed DEF Queues, LinkInv
<1>2. \A i \in 1 .. Len(<<u>>) : <<u>>[i].type # "free"
  BY <1>1
<1>3. \A q \in Phys : q # p /\ Freed(q) => (q \in Alloc') /\ pOffset'[q] # 0 /\ ~(Owned(q)')
  BY <1>1 DEF LinkInv, FreesLast, Freed, Alloc, Owned, voiceVars
<1>4. FreesLast' /\ \A q \in Phys : Freed(q) => Freed(q)'
  <2> HIDE DEF FreesLast
  <2> QED BY <1>1, <1>2, <1>3, ExtendLast DEF LinkInv
<1>5. NamesAgree' /\ OffsetsAlloc'
  BY <1>1 DEF LinkInv, NamesAgree, OffsetsAlloc, Alloc, voiceVars
<1>6. AllocNamed'
  <2>1. (Alloc' = Alloc) /\ vvoice' = vvoice /\ pvoice' = pvoice
    BY <1>1 DEF Alloc, voiceVars
  <2> QED BY <1>4, <2>1, AllocIn DEF LinkInv, AllocNamed
<1> QED BY <1>4, <1>5, <1>6 DEF LinkInv

LEMMA LinkTakes ==
  ASSUME NvTypes, ListsOk(pLists), LinkInv, NEW l \in Logical, Takes(l)
  PROVE  LinkInv' /\ ListsOk(pLists')
<1>1. PICK p \in Phys : /\ TakenTo(pLists, pLists', p)
                        /\ pOffset' = [pOffset EXCEPT ![p] = 0] /\ vvoice' = [vvoice EXCEPT ![p] = l]
                        /\ pvoice' = [pvoice EXCEPT ![l] = p] /\ UNCHANGED <<ctrlList, paramList>>
  BY SpareTaken DEF Takes
<1>2. pvoice[l] = 0 /\ p \notin Alloc /\ (Alloc' = Alloc \cup {p}) /\ ListsOk(pLists')
  BY <1>1 DEF Takes, TakenTo, Alloc
<1>3. pvoice \in [Logical -> {0} \cup Phys] /\ vvoice \in [Phys -> {0} \cup Logical] /\ pOffset \in [Phys -> {0, 552}]
  BY DEF NvTypes
<1>4. /\ \A k \in Logical : pvoice'[k] = IF k = l THEN p ELSE pvoice[k]
      /\ \A q \in Phys : vvoice'[q] = (IF q = p THEN l ELSE vvoice[q]) /\ pOffset'[q] = (IF q = p THEN 0 ELSE pOffset[q])
  BY <1>1, <1>3
<1>5. \A k \in Logical : pvoice[k] # p
  BY <1>2, <1>1 DEF LinkInv, NamesAgree, Phys
<1>6. NamesAgree'
  <2>1. \A k \in Logical : pvoice[k] # 0 => pvoice[k] \in Alloc /\ vvoice[pvoice[k]] = k /\ pvoice[k] \in Phys /\ pvoice[k] # p
    BY <1>2, AllocIn DEF LinkInv, NamesAgree
  <2>2. \A k \in Logical : pvoice'[k] # 0 => (pvoice'[k] \in Alloc') /\ vvoice'[pvoice'[k]] = k
    BY <1>2, <1>4, <2>1
  <2> QED BY <2>2 DEF NamesAgree
<1>7. AllocNamed'
  <2>1. \A q \in Phys : Freed(q)' = Freed(q)
    BY <1>1 DEF Freed
  <2>2. \A q \in Alloc : q # p /\ q \in Phys /\ vvoice[q] \in Logical /\ (pvoice[vvoice[q]] = q \/ Freed(q))
    BY <1>2, AllocIn DEF LinkInv, AllocNamed
  <2>3. \A q \in Alloc : pvoice[vvoice[q]] = q => vvoice[q] # l
    BY <1>2, <2>2 DEF Phys
  <2>4. \A q \in Alloc' : vvoice'[q] \in Logical /\ (pvoice'[vvoice'[q]] = q \/ Freed(q)')
    BY <1>2, <1>4, <2>1, <2>2, <2>3
  <2> QED BY <2>4 DEF AllocNamed
<1>8. OffsetsAlloc'
  BY <1>2, <1>4 DEF LinkInv, OffsetsAlloc
<1>9. FreesLast'
  <2>1. ASSUME NEW q \in Phys, NEW i \in 1 .. Len(ctrlList[q]), ctrlList[q][i].type = "free"
        PROVE i = Len(ctrlList[q]) /\ (q \in Alloc') /\ pOffset'[q] # 0 /\ ~(Owned(q)')
    <3>1. i = Len(ctrlList[q]) /\ q \in Alloc /\ pOffset[q] # 0 /\ ~Owned(q)
      BY <2>1 DEF LinkInv, FreesLast
    <3>2. q # p
      BY <1>2, <3>1
    <3>3. ~(Owned(q)')
      BY <1>4, <3>1, <3>2 DEF Owned
    <3> QED BY <1>2, <1>4, <3>1, <3>2, <3>3
  <2> QED BY <1>1, <2>1 DEF FreesLast
<1> QED BY <1>2, <1>6, <1>7, <1>8, <1>9 DEF LinkInv

LEMMA LinkSteals ==
  ASSUME NvTypes, LinkInv, NEW l \in Logical, NEW p \in Phys, NEW s \in Seq(NvUpdate), Steals(l, p, s)
  PROVE  LinkInv'
<1>1. /\ pvoice[l] = 0 /\ p \in Alloc /\ pOffset[p] = 0 /\ pOffset' = [pOffset EXCEPT ![p] = 552]
      /\ pvoice' = [pvoice EXCEPT ![vvoice[p]] = 0, ![l] = p] /\ vvoice' = [vvoice EXCEPT ![p] = l] /\ pLists' = pLists
  BY DEF Steals
<1>2. PICK o : o = vvoice[p]
  OBVIOUS
<1>3. Extends(p, s) /\ ~Freed(p) /\ \A i \in 1 .. Len(s) : s[i].type # "free"
  <2>1. ~Freed(p)
    BY <1>1, OwnedNotFreed DEF LinkInv
  <2>2. \A i \in 1 .. Len(s) : s[i].type # "free"
    BY DEF Steals, Update
  <2> QED BY <2>1, <2>2, AddsIs DEF Steals
<1>4. o \in Logical /\ pvoice[o] = p /\ o # l
  BY <1>1, <1>2, <1>3 DEF LinkInv, AllocNamed, Phys
<1>5. pvoice \in [Logical -> {0} \cup Phys] /\ vvoice \in [Phys -> {0} \cup Logical] /\ pOffset \in [Phys -> {0, 552}]
  BY DEF NvTypes
<1>6. /\ \A k \in Logical : pvoice'[k] = IF k = l THEN p ELSE IF k = o THEN 0 ELSE pvoice[k]
      /\ \A q \in Phys : vvoice'[q] = (IF q = p THEN l ELSE vvoice[q]) /\ pOffset'[q] = (IF q = p THEN 552 ELSE pOffset[q])
  BY <1>1, <1>2, <1>4, <1>5
<1>7. \A k \in Logical : k # o => pvoice[k] # p
  BY <1>2 DEF LinkInv, NamesAgree, Phys
<1>8. (Alloc' = Alloc) /\ \A q \in Alloc : q \in Phys
  BY <1>1, AllocIn DEF Alloc
<1>9. NamesAgree'
  <2>1. \A k \in Logical : pvoice[k] # 0 => pvoice[k] \in Alloc /\ vvoice[pvoice[k]] = k /\ pvoice[k] \in Phys
    BY <1>8 DEF LinkInv, NamesAgree
  <2>2. ASSUME NEW k \in Logical, pvoice'[k] # 0 PROVE (pvoice'[k] \in Alloc') /\ vvoice'[pvoice'[k]] = k
    <3>1. CASE k = l
      <4>1. pvoice'[k] = p /\ vvoice'[p] = l
        BY <1>6, <3>1
      <4> QED BY <1>1, <1>8, <3>1, <4>1
    <3>2. CASE k # l
      <4>1. k # o
        BY <1>6, <2>2, <3>2
      <4>2. pvoice'[k] = pvoice[k] /\ pvoice[k] # p /\ pvoice[k] # 0
        BY <1>6, <1>7, <2>2, <3>2, <4>1
      <4>3. vvoice'[pvoice[k]] = vvoice[pvoice[k]]
        BY <1>6, <2>1, <4>2
      <4> QED BY <1>8, <2>1, <4>2, <4>3
    <3> QED BY <3>1, <3>2
  <2> QED BY <2>2 DEF NamesAgree
<1>10. FreesLast' /\ \A q \in Phys : Freed(q) => Freed(q)'
  <2>1. ASSUME NEW q \in Phys, q # p, Freed(q) PROVE (q \in Alloc') /\ pOffset'[q] # 0 /\ ~(Owned(q)')
    <3>1. q \in Alloc /\ pOffset[q] # 0 /\ ~Owned(q)
      BY <2>1 DEF LinkInv, FreesLast, Freed
    <3>2. ~(Owned(q)')
      BY <1>6, <2>1, <3>1 DEF Owned, Phys
    <3> QED BY <1>6, <1>8, <2>1, <3>1, <3>2
  <2> QED BY <1>3, <2>1, ExtendLast DEF LinkInv
<1>11. AllocNamed'
  <2>1. \A q \in Alloc : q \in Phys /\ vvoice[q] \in Logical /\ (pvoice[vvoice[q]] = q \/ Freed(q))
    BY <1>8 DEF LinkInv, AllocNamed
  <2>2. \A q \in Alloc : q # p /\ pvoice[vvoice[q]] = q => vvoice[q] # l /\ vvoice[q] # o
    BY <1>1, <1>4, <2>1 DEF Phys
  <2>3. \A q \in Alloc' : vvoice'[q] \in Logical /\ (pvoice'[vvoice'[q]] = q \/ Freed(q)')
    BY <1>6, <1>8, <1>10, <2>1, <2>2
  <2> QED BY <2>3 DEF AllocNamed
<1>12. OffsetsAlloc'
  BY <1>1, <1>6, <1>8 DEF LinkInv, OffsetsAlloc
<1> QED BY <1>9, <1>10, <1>11, <1>12 DEF LinkInv

LEMMA LinkRetires ==
  ASSUME NvTypes, ListsOk(pLists), LinkInv, NEW l \in Logical, NEW p \in Phys, Retires(l, p)
  PROVE  LinkInv' /\ RetiredTo(pLists, pLists', p)
<1>1. /\ pvoice[l] = p /\ pOffset[p] = 0 /\ pvoice' = [pvoice EXCEPT ![l] = 0] /\ vvoice' = vvoice /\ pOffset' = pOffset
      /\ pLists' = NvRetired(pLists, p)
  BY DEF Retires
<1>2. PICK u : u = Update("stop", NvNow, 0, 0)
  OBVIOUS
<1>3. Extends(p, <<u>>) /\ ~Freed(p) /\ \A i \in 1 .. Len(<<u>>) : <<u>>[i].type # "free"
  <2>1. u.type # "free"
    BY <1>2 DEF Update
  <2>2. \A i \in 1 .. Len(<<u>>) : <<u>>[i].type # "free"
    BY <2>1
  <2> QED BY <1>1, <1>2, <2>2, AddsIs, OwnedNotFreed DEF Retires, LinkInv
<1>4. p \in Alloc /\ vvoice[p] = l
  BY <1>1 DEF LinkInv, NamesAgree, Phys
<1>5. RetiredTo(pLists, pLists', p)
  BY <1>1, <1>4, RetiredIs DEF Alloc
<1>6. (Alloc' = Alloc \ {p}) /\ \A q \in Alloc : q \in Phys
  BY <1>5, AllocIn DEF RetiredTo, Alloc
<1>7. \A k \in Logical : pvoice'[k] = IF k = l THEN 0 ELSE pvoice[k]
  BY <1>1 DEF NvTypes
<1>8. \A k \in Logical : k # l => pvoice[k] # p
  BY <1>4 DEF LinkInv, NamesAgree, Phys
<1>9. NamesAgree'
  <2>1. \A k \in Logical : pvoice'[k] # 0 => (pvoice'[k] \in Alloc') /\ vvoice'[pvoice'[k]] = k
    BY <1>1, <1>6, <1>7, <1>8 DEF LinkInv, NamesAgree
  <2> QED BY <2>1 DEF NamesAgree
<1>10. FreesLast' /\ \A q \in Phys : Freed(q) => Freed(q)'
  <2>1. ASSUME NEW q \in Phys, q # p, Freed(q) PROVE (q \in Alloc') /\ pOffset'[q] # 0 /\ ~(Owned(q)')
    <3>1. q \in Alloc /\ pOffset[q] # 0 /\ ~Owned(q)
      BY <2>1 DEF LinkInv, FreesLast, Freed
    <3>2. ~(Owned(q)')
      BY <1>7, <3>1 DEF Owned, Phys
    <3> QED BY <1>1, <1>6, <2>1, <3>1, <3>2
  <2> QED BY <1>3, <2>1, ExtendLast DEF LinkInv
<1>11. AllocNamed'
  <2>1. \A q \in Alloc : q \in Phys /\ vvoice[q] \in Logical /\ (pvoice[vvoice[q]] = q \/ Freed(q))
    BY <1>6 DEF LinkInv, AllocNamed
  <2>2. \A q \in Alloc : q # p /\ pvoice[vvoice[q]] = q => vvoice[q] # l
    BY <1>1
  <2>3. \A q \in Alloc' : vvoice'[q] \in Logical /\ (pvoice'[vvoice'[q]] = q \/ Freed(q)')
    BY <1>1, <1>6, <1>7, <1>10, <2>1, <2>2
  <2> QED BY <2>3 DEF AllocNamed
<1>12. OffsetsAlloc'
  BY <1>1, <1>6 DEF LinkInv, OffsetsAlloc
<1> QED BY <1>5, <1>9, <1>10, <1>11, <1>12 DEF LinkInv

LEMMA LinkFreesLater ==
  ASSUME NvTypes, LinkInv, NEW l \in Logical, NEW p \in Phys, FreesLater(l, p)
  PROVE  LinkInv'
<1>1. /\ pvoice[l] = p /\ pOffset[p] # 0 /\ pvoice' = [pvoice EXCEPT ![l] = 0] /\ vvoice' = vvoice /\ pOffset' = pOffset
      /\ pLists' = pLists
  BY DEF FreesLater
<1>2. PICK u : u = Update("stop", NvNow + pOffset[p], 0, 0)
  OBVIOUS
<1>3. PICK v : v = Update("free", NvNow + pOffset[p], 0, 0)
  OBVIOUS
<1>4. Extends(p, <<u, v>>) /\ ~Freed(p) /\ u.type = "stop" /\ v.type = "free"
  <2>1. ~Freed(p)
    BY <1>1, OwnedNotFreed DEF LinkInv, Owned
  <2>2. u.type = "stop" /\ v.type = "free"
    BY <1>2, <1>3 DEF Update
  <2> QED BY <1>2, <1>3, <2>1, <2>2, AddsIs DEF FreesLater
<1>5. p \in Alloc /\ vvoice[p] = l /\ (Alloc' = Alloc) /\ \A q \in Alloc : q \in Phys
  BY <1>1, AllocIn DEF LinkInv, NamesAgree, Phys, Alloc
<1>6. \A k \in Logical : pvoice'[k] = IF k = l THEN 0 ELSE pvoice[k]
  BY <1>1 DEF NvTypes
<1>7. \A k \in Logical : k # l => pvoice[k] # p
  BY <1>5 DEF LinkInv, NamesAgree, Phys
<1>8. NamesAgree'
  <2>1. \A k \in Logical : pvoice'[k] # 0 => (pvoice'[k] \in Alloc') /\ vvoice'[pvoice'[k]] = k
    BY <1>1, <1>5, <1>6 DEF LinkInv, NamesAgree
  <2> QED BY <2>1 DEF NamesAgree
<1>9. /\ \A q \in Phys : q # p => Len(ctrlList'[q]) = Len(ctrlList[q]) /\ Freed(q)' = Freed(q)
      /\ \A i \in 1 .. Len(ctrlList'[p]) : ctrlList'[p][i].type = "free" =>
           i - Len(ctrlList[p]) \in 1 .. Len(<<u, v>>) /\ <<u, v>>[i - Len(ctrlList[p])].type = "free"
  BY <1>4, ExtendFree
<1>10. Len(ctrlList[p]) \in Nat /\ Len(ctrlList'[p]) = Len(ctrlList[p]) + 2 /\ Len(<<u, v>>) = 2
  <2>1. ctrlList[p] \in Seq(NvUpdate)
    BY DEF NvTypes
  <2> QED BY <1>4, <2>1 DEF Extends
<1>11. ASSUME NEW i \in 1 .. Len(ctrlList'[p]), ctrlList'[p][i].type = "free" PROVE i = Len(ctrlList'[p])
  <2>1. PICK j \in 1 .. 2 : j = i - Len(ctrlList[p]) /\ <<u, v>>[j].type = "free"
    BY <1>9, <1>10, <1>11
  <2>2. j # 1
    BY <1>4, <2>1
  <2> QED BY <1>10, <2>1, <2>2
<1>12. Freed(p)'
  <2> DEFINE n == Len(ctrlList[p]) + 2
  <2>1. n \in 1 .. Len(ctrlList'[p]) /\ ~(n <= Len(ctrlList[p])) /\ n - Len(ctrlList[p]) = 2
    BY <1>10
  <2>2. ctrlList'[p][n] = <<u, v>>[2]
    BY <1>4, <2>1 DEF Extends
  <2>3. ctrlList'[p][n].type = "free"
    BY <1>4, <2>2
  <2> HIDE DEF n
  <2> QED BY <2>1, <2>3 DEF Freed
<1>13. FreesLast'
  <2>1. ASSUME NEW q \in Phys, NEW i \in 1 .. Len(ctrlList'[q]), ctrlList'[q][i].type = "free"
        PROVE i = Len(ctrlList'[q]) /\ (q \in Alloc') /\ pOffset'[q] # 0 /\ ~(Owned(q)')
    <3>1. CASE q = p
      <4>1. ~(Owned(p)')
        BY <1>6, <1>7 DEF Owned, Phys
      <4> QED BY <1>1, <1>5, <1>11, <2>1, <3>1, <4>1
    <3>2. CASE q # p
      <4>1. ctrlList'[q] = ctrlList[q]
        BY <1>4, <3>2 DEF Extends
      <4>2. i = Len(ctrlList[q]) /\ q \in Alloc /\ pOffset[q] # 0 /\ ~Owned(q)
        BY <2>1, <4>1 DEF LinkInv, FreesLast
      <4>3. ~(Owned(q)')
        BY <1>6, <4>2 DEF Owned, Phys
      <4> QED BY <1>1, <1>5, <4>1, <4>2, <4>3
    <3> QED BY <3>1, <3>2
  <2> QED BY <2>1 DEF FreesLast
<1>14. AllocNamed'
  <2>1. \A q \in Alloc : q \in Phys /\ vvoice[q] \in Logical /\ (pvoice[vvoice[q]] = q \/ Freed(q))
    BY <1>5 DEF LinkInv, AllocNamed
  <2>2. \A q \in Alloc : q # p /\ pvoice[vvoice[q]] = q => vvoice[q] # l
    BY <1>1
  <2>3. \A q \in Alloc' : vvoice'[q] \in Logical /\ (pvoice'[vvoice'[q]] = q \/ Freed(q)')
    BY <1>1, <1>5, <1>6, <1>9, <1>12, <2>1, <2>2
  <2> QED BY <2>3 DEF AllocNamed
<1>15. OffsetsAlloc'
  BY <1>1, <1>5 DEF LinkInv, OffsetsAlloc
<1> QED BY <1>8, <1>13, <1>14, <1>15 DEF LinkInv

LEMMA LinkApplies ==
  ASSUME NvTypes, ListsOk(pLists), LinkInv, ApplyUpdate
  PROVE  /\ LinkInv'
         /\ \/ Update1.type # "free" /\ UNCHANGED voiceVars
            \/ /\ Update1.type = "free" /\ RetiredTo(pLists, pLists', syn.at) /\ ctrlList'[syn.at] = <<>>
               /\ pOffset' = [pOffset EXCEPT ![syn.at] = 0] /\ UNCHANGED <<pvoice, vvoice>>
<1>1. PICK p \in Phys : p = syn.at
  BY ApplyIs DEF Shortens
<1>2. Shortens(p) /\ Update1 = ctrlList[p][1]
  BY <1>1, ApplyIs
<1>3. Len(ctrlList[p]) \in Nat /\ 1 \in 1 .. Len(ctrlList[p]) /\ Len(ctrlList'[p]) = Len(ctrlList[p]) - 1
  <2>1. ctrlList[p] \in Seq(NvUpdate)
    BY DEF NvTypes
  <2> QED BY <1>2, <2>1 DEF Shortens
<1>4. \A q \in Phys : q # p => ctrlList'[q] = ctrlList[q]
  BY <1>2 DEF Shortens
<1>5. \A i \in 1 .. Len(ctrlList'[p]) : i + 1 \in 1 .. Len(ctrlList[p]) /\ ctrlList'[p][i] = ctrlList[p][i + 1] /\ i \in Nat
  BY <1>2, <1>3 DEF Shortens
<1>6. \A q \in Alloc : q \in Phys
  BY AllocIn
<1>7. CASE Update1.type # "free"
  <2>1. UNCHANGED voiceVars
    BY <1>7 DEF ApplyUpdate, voiceVars
  <2>2. (Alloc' = Alloc) /\ vvoice' = vvoice /\ pvoice' = pvoice /\ pOffset' = pOffset /\ \A q \in Phys : Owned(q)' = Owned(q)
    BY <2>1 DEF voiceVars, Alloc, Owned
  <2>3. NamesAgree' /\ OffsetsAlloc'
    BY <2>2 DEF LinkInv, NamesAgree, OffsetsAlloc
  <2>4. ASSUME NEW q \in Phys, Freed(q) PROVE Freed(q)'
    <3>1. CASE q = p
      <4>1. PICK i \in 1 .. Len(ctrlList[p]) : ctrlList[p][i].type = "free"
        BY <2>4, <3>1 DEF Freed
      <4>2. i - 1 \in 1 .. Len(ctrlList'[p]) /\ (i - 1) + 1 = i
        BY <1>2, <1>3, <1>7, <4>1
      <4>3. ctrlList'[p][i - 1].type = "free"
        BY <1>5, <4>1, <4>2
      <4> QED BY <3>1, <4>2, <4>3 DEF Freed
    <3>2. CASE q # p
      BY <1>4, <2>4, <3>2 DEF Freed
    <3> QED BY <3>1, <3>2
  <2>5. AllocNamed'
    BY <1>6, <2>2, <2>4 DEF LinkInv, AllocNamed
  <2>6. ASSUME NEW q \in Phys, NEW i \in 1 .. Len(ctrlList'[q]), ctrlList'[q][i].type = "free"
        PROVE i = Len(ctrlList'[q]) /\ (q \in Alloc') /\ pOffset'[q] # 0 /\ ~(Owned(q)')
    <3>1. CASE q = p
      <4>1. i + 1 = Len(ctrlList[p]) /\ p \in Alloc /\ pOffset[p] # 0 /\ ~Owned(p)
        BY <1>5, <2>6, <3>1 DEF LinkInv, FreesLast
      <4>2. i = Len(ctrlList'[p])
        BY <1>3, <1>5, <2>6, <3>1, <4>1
      <4> QED BY <2>2, <3>1, <4>1, <4>2
    <3>2. CASE q # p
      <4>1. i = Len(ctrlList[q]) /\ q \in Alloc /\ pOffset[q] # 0 /\ ~Owned(q)
        BY <1>4, <2>6, <3>2 DEF LinkInv, FreesLast
      <4> QED BY <1>4, <2>2, <3>2, <4>1
    <3> QED BY <3>1, <3>2
  <2>7. FreesLast'
    BY <2>6 DEF FreesLast
  <2> QED BY <1>7, <2>1, <2>3, <2>5, <2>7 DEF LinkInv
<1>8. CASE Update1.type = "free"
  <2>1. Len(ctrlList[p]) = 1 /\ p \in Alloc /\ pOffset[p] # 0 /\ ~Owned(p)
    BY <1>2, <1>3, <1>8 DEF LinkInv, FreesLast
  <2>2. pOffset' = [pOffset EXCEPT ![p] = 0] /\ pLists' = NvRetired(pLists, p) /\ UNCHANGED <<pvoice, vvoice>>
    BY <1>1, <1>8 DEF ApplyUpdate
  <2>3. RetiredTo(pLists, pLists', p)
    BY <2>1, <2>2, RetiredIs DEF Alloc
  <2>4. ctrlList'[p] = <<>>
    <3>1. ctrlList'[p] \in Seq(NvUpdate) /\ Len(ctrlList'[p]) = 0
      BY <1>2, <1>3, <2>1 DEF Shortens, ListTypes
    <3> QED BY <3>1
  <2>5. Alloc' = Alloc \ {p}
    BY <2>3 DEF RetiredTo, Alloc
  <2>6. \A q \in Phys : pOffset'[q] = IF q = p THEN 0 ELSE pOffset[q]
    BY <2>2 DEF NvTypes
  <2>7. \A k \in Logical : pvoice[k] # p
    BY <2>1 DEF Owned
  <2>8. NamesAgree'
    BY <2>2, <2>5, <2>7 DEF LinkInv, NamesAgree
  <2>9. \A q \in Phys : q # p => Freed(q)' = Freed(q)
    BY <1>4 DEF Freed
  <2>10. AllocNamed'
    BY <1>6, <2>2, <2>5, <2>9 DEF LinkInv, AllocNamed
  <2>11. OffsetsAlloc'
    BY <2>5, <2>6 DEF LinkInv, OffsetsAlloc
  <2>12. ASSUME NEW q \in Phys, NEW i \in 1 .. Len(ctrlList'[q]), ctrlList'[q][i].type = "free"
         PROVE i = Len(ctrlList'[q]) /\ (q \in Alloc') /\ pOffset'[q] # 0 /\ ~(Owned(q)')
    <3>1. q # p
      BY <2>4, <2>12
    <3>2. i = Len(ctrlList[q]) /\ q \in Alloc /\ pOffset[q] # 0 /\ ~Owned(q) /\ ctrlList'[q] = ctrlList[q]
      BY <1>4, <2>12, <3>1 DEF LinkInv, FreesLast
    <3> QED BY <2>2, <2>5, <2>6, <3>1, <3>2 DEF Owned
  <2>13. FreesLast'
    BY <2>12 DEF FreesLast
  <2> QED BY <1>1, <1>8, <2>2, <2>3, <2>4, <2>8, <2>10, <2>11, <2>13 DEF LinkInv
<1> QED BY <1>7, <1>8

LEMMA LinkBlock ==
  ASSUME NvTypes, ListsOk(pLists), LinkInv, EndBlock
  PROVE  LinkInv' /\ ListsOk(pLists') /\ (pLists' = pLists \/ CollectedTo(pLists, pLists'))
<1>1. Shifts /\ UNCHANGED <<pvoice, vvoice, pOffset>>
  BY BlockIs DEF EndBlock
<1>2. pLists' = pLists \/ CollectedTo(pLists, pLists')
  BY CollectedIs DEF EndBlock
<1>3. ListsOk(pLists') /\ pLists'.alloc = pLists.alloc
  BY <1>2 DEF CollectedTo
<1>4. (Alloc' = Alloc) /\ \A q \in Phys : Owned(q)' = Owned(q)
  BY <1>1, <1>3 DEF Alloc, Owned
<1>5. \A q \in Phys : Freed(q)' = Freed(q)
  BY <1>1 DEF Shifts, Freed
<1>6. NamesAgree' /\ OffsetsAlloc'
  BY <1>1, <1>4 DEF LinkInv, NamesAgree, OffsetsAlloc
<1>7. AllocNamed'
  BY <1>1, <1>4, <1>5, AllocIn DEF LinkInv, AllocNamed
<1>8. FreesLast'
  BY <1>1, <1>4 DEF LinkInv, FreesLast, Shifts
<1> QED BY <1>2, <1>3, <1>6, <1>7, <1>8 DEF LinkInv

-----------------------------------------------------------------------------
(* Types.                                                                  *)

LEMMA ExtendTypes ==
  ASSUME NEW p, NEW s, Extends(p, s)
  PROVE  ListTypes(ctrlList') /\ paramList' \in Nat
BY DEF Extends

LEMMA CallTypes ==
  ASSUME NvTypes, ListsOk(pLists), LinkInv, Call
  PROVE  NvTypes' /\ ListsOk(pLists') /\ LinkInv'
<1>1. em' = em /\ syn' = syn /\ nvClient' \in NvPlayers
  BY DEF Call
<1>2. SUFFICES /\ ListsOk(pLists') /\ LinkInv' /\ ListTypes(ctrlList') /\ paramList' \in Nat
               /\ pvoice' \in [Logical -> {0} \cup Phys] /\ vvoice' \in [Phys -> {0} \cup Logical]
               /\ pOffset' \in [Phys -> {0, 552}]
  BY <1>1, <1>2 DEF NvTypes, ListsOk, ListTypes
<1>3. /\ pvoice \in [Logical -> {0} \cup Phys] /\ vvoice \in [Phys -> {0} \cup Logical] /\ pOffset \in [Phys -> {0, 552}]
      /\ ListTypes(ctrlList) /\ paramList \in Nat
  BY DEF NvTypes, ListTypes
<1>4. CASE Stays
  <2>1. UNCHANGED <<voiceVars, ctrlList, paramList>>
    BY <1>4 DEF Stays
  <2> QED BY <1>3, <2>1, LinkStays DEF voiceVars
<1>5. CASE \E p \in Phys, u \in NvUpdate : Queues(p, u)
  <2>1. PICK p \in Phys, u \in NvUpdate : Queues(p, u)
    BY <1>5
  <2>2. UNCHANGED voiceVars /\ Extends(p, <<u>>)
    BY <2>1, AddsIs DEF Queues
  <2> QED BY <1>3, <2>1, <2>2, LinkQueues, ExtendTypes DEF voiceVars
<1>6. CASE \E l \in Logical : Takes(l)
  <2>1. PICK l \in Logical : Takes(l)
    BY <1>6
  <2>2. PICK p \in Phys : /\ pOffset' = [pOffset EXCEPT ![p] = 0] /\ vvoice' = [vvoice EXCEPT ![p] = l]
                          /\ pvoice' = [pvoice EXCEPT ![l] = p] /\ UNCHANGED <<ctrlList, paramList>>
    BY <2>1, SpareTaken DEF Takes
  <2>3. /\ pvoice' \in [Logical -> {0} \cup Phys] /\ vvoice' \in [Phys -> {0} \cup Logical]
        /\ pOffset' \in [Phys -> {0, 552}]
    BY <1>3, <2>2
  <2> QED BY <1>3, <2>1, <2>2, <2>3, LinkTakes
<1>7. CASE \E l \in Logical, p \in Phys, s \in Seq(NvUpdate) : Steals(l, p, s)
  <2>1. PICK l \in Logical, p \in Phys, s \in Seq(NvUpdate) : Steals(l, p, s)
    BY <1>7
  <2>2. /\ pOffset' = [pOffset EXCEPT ![p] = 552] /\ vvoice' = [vvoice EXCEPT ![p] = l] /\ pLists' = pLists
        /\ pvoice' = [pvoice EXCEPT ![vvoice[p]] = 0, ![l] = p] /\ Extends(p, s)
    BY <2>1, AddsIs DEF Steals
  <2>3. /\ pvoice' \in [Logical -> {0} \cup Phys] /\ vvoice' \in [Phys -> {0} \cup Logical]
        /\ pOffset' \in [Phys -> {0, 552}]
    BY <1>3, <2>2
  <2> QED BY <1>3, <2>1, <2>2, <2>3, LinkSteals, ExtendTypes
<1>8. CASE \E l \in Logical, p \in Phys : Retires(l, p) \/ FreesLater(l, p)
  <2>1. PICK l \in Logical, p \in Phys : Retires(l, p) \/ FreesLater(l, p)
    BY <1>8
  <2>2. pvoice' = [pvoice EXCEPT ![l] = 0] /\ UNCHANGED <<vvoice, pOffset>> /\ \E s : Extends(p, s)
    BY <2>1, AddsIs DEF Retires, FreesLater
  <2>3. pvoice' \in [Logical -> {0} \cup Phys]
    BY <1>3, <2>2
  <2>4. LinkInv' /\ ListsOk(pLists')
    <3>1. CASE Retires(l, p)
      BY <3>1, LinkRetires DEF RetiredTo
    <3>2. CASE FreesLater(l, p)
      BY <3>2, LinkFreesLater DEF FreesLater
    <3> QED BY <2>1, <3>1, <3>2
  <2> QED BY <1>3, <2>2, <2>3, <2>4, ExtendTypes
<1> QED BY <1>4, <1>5, <1>6, <1>7, <1>8 DEF Call

LEMMA TypesStep ==
  ASSUME NvTypes, FrameInv, TimesInv, ListsOk(pLists), LinkInv,
         AudioFrame \/ HandlerReturns \/ ApplyUpdate \/ NextVoice \/ EndBlock \/ Call
  PROVE  NvTypes' /\ FrameInv' /\ ListsOk(pLists') /\ LinkInv'
<1>1. FrameInv' /\ syn' \in SynTypes
  BY FrameStep
<1>2. /\ pvoice \in [Logical -> {0} \cup Phys] /\ vvoice \in [Phys -> {0} \cup Logical] /\ pOffset \in [Phys -> {0, 552}]
      /\ ListTypes(ctrlList) /\ paramList \in Nat /\ em \in [Phys -> Mixer] /\ nvClient \in NvPlayers
      /\ syn.at \in Phys /\ syn.out \in Int
  BY DEF NvTypes, ListTypes, SynTypes, SAMPLES
<1>3. ASSUME ListsOk(pLists'), ListTypes(ctrlList'), paramList' \in Nat, pvoice' \in [Logical -> {0} \cup Phys],
             vvoice' \in [Phys -> {0} \cup Logical], pOffset' \in [Phys -> {0, 552}], em' \in [Phys -> Mixer],
             nvClient' \in NvPlayers
      PROVE  NvTypes'
  BY <1>1, <1>3 DEF NvTypes, ListsOk, ListTypes
<1>4. CASE AudioFrame \/ HandlerReturns
  <2>1. UNCHANGED <<voiceVars, ctrlList, paramList, em, nvClient>>
    BY <1>4 DEF AudioFrame, HandlerReturns
  <2>2. UNCHANGED <<voiceVars, ctrlList>> /\ UNCHANGED <<pLists, pvoice, vvoice, pOffset>>
    BY <2>1 DEF voiceVars
  <2>3. LinkInv'
    BY <2>2, LinkStays
  <2> QED BY <1>1, <1>2, <1>3, <2>1, <2>2, <2>3
<1>5. ASSUME NextVoice \/ EndBlock PROVE em' \in [Phys -> Mixer]
  <2>1. NvRest(em[syn.at]) \in Mixer
    BY <1>2, RestType
  <2>2. em' = [em EXCEPT ![syn.at] = NvRest(em[syn.at])]
    BY <1>5 DEF NextVoice, EndBlock
  <2> QED BY <1>2, <2>1, <2>2
<1>6. CASE NextVoice
  <2>1. UNCHANGED <<voiceVars, ctrlList, paramList, nvClient>>
    BY <1>6 DEF NextVoice
  <2>2. UNCHANGED <<voiceVars, ctrlList>> /\ UNCHANGED <<pLists, pvoice, vvoice, pOffset>>
    BY <2>1 DEF voiceVars
  <2>3. LinkInv'
    BY <2>2, LinkStays
  <2> QED BY <1>1, <1>2, <1>3, <1>5, <1>6, <2>1, <2>2, <2>3
<1>7. CASE ApplyUpdate
  <2>1. Shortens(syn.at) /\ Update1 = ctrlList[syn.at][1] /\ Due
    BY <1>7, ApplyIs
  <2>2. SpanInv
    BY <2>1, SpanIs
  <2>3. Span \in Int /\ Update1 \in NvUpdate /\ ListTypes(ctrlList')
    <3>1. Span \in Int
      BY <2>2 DEF SpanInv, SAMPLES
    <3> QED BY <2>1, <3>1 DEF Shortens
  <2>4. em' = [em EXCEPT ![syn.at] = Applied(em[syn.at], Update1, Span)] /\ paramList' = paramList + 1 /\ nvClient' = nvClient
    BY <1>7 DEF ApplyUpdate
  <2>5. Applied(em[syn.at], Update1, Span) \in Mixer
    BY <1>2, <2>3, AppliedType
  <2>6. LinkInv' /\ \/ UNCHANGED voiceVars
                    \/ RetiredTo(pLists, pLists', syn.at) /\ pOffset' = [pOffset EXCEPT ![syn.at] = 0] /\ UNCHANGED <<pvoice, vvoice>>
    BY <1>7, LinkApplies
  <2>7. /\ ListsOk(pLists') /\ pvoice' \in [Logical -> {0} \cup Phys] /\ vvoice' \in [Phys -> {0} \cup Logical]
        /\ pOffset' \in [Phys -> {0, 552}]
    <3>1. CASE UNCHANGED voiceVars
      BY <1>2, <3>1 DEF voiceVars
    <3>2. CASE RetiredTo(pLists, pLists', syn.at) /\ pOffset' = [pOffset EXCEPT ![syn.at] = 0] /\ UNCHANGED <<pvoice, vvoice>>
      BY <1>2, <3>2 DEF RetiredTo
    <3> QED BY <2>6, <3>1, <3>2
  <2>8. em' \in [Phys -> Mixer] /\ paramList' \in Nat
    BY <1>2, <2>4, <2>5
  <2> QED BY <1>1, <1>2, <1>3, <2>3, <2>4, <2>6, <2>7, <2>8
<1>8. CASE EndBlock
  <2>1. LinkInv' /\ ListsOk(pLists')
    BY <1>8, LinkBlock
  <2>2. UNCHANGED <<pvoice, vvoice, pOffset, paramList, nvClient>>
    BY <1>8 DEF EndBlock
  <2>3. ListTypes(ctrlList')
    BY <1>8, BlockIs DEF Shifts
  <2> QED BY <1>1, <1>2, <1>3, <1>5, <1>8, <2>1, <2>2, <2>3
<1>9. CASE Call
  BY <1>1, <1>9, CallTypes
<1> QED BY <1>4, <1>6, <1>7, <1>8, <1>9

-----------------------------------------------------------------------------
(* Times.                                                                  *)

(* What the times of one voice are, as far as the frame has come.          *)
Timed(c, from, to) ==
  /\ \A i, j \in 1 .. Len(c) : i <= j => c[i].delta <= c[j].delta
  /\ \A i \in 1 .. Len(c) : c[i].delta \in from .. to

LEMMA TimedIs == TimesInv <=> \A p \in Phys : Timed(ctrlList[p], Earliest(p), NvNow + pOffset[p])
BY DEF TimesInv, Timed

LEMMA VoiceTypes ==
  ASSUME NvTypes, NEW p \in Phys
  PROVE  /\ p \in Nat /\ ctrlList[p] \in Seq(NvUpdate) /\ pOffset[p] \in {0, 552} /\ Earliest(p) \in Int /\ NvNow \in Int
         /\ NvNow + pOffset[p] \in Int /\ NvNow >= -15 /\ Len(ctrlList[p]) \in Nat
         /\ \A i \in 1 .. Len(ctrlList[p]) : ctrlList[p][i] \in NvUpdate /\ ctrlList[p][i].delta \in Int
<1>1. p \in Nat /\ ctrlList[p] \in Seq(NvUpdate) /\ pOffset[p] \in {0, 552} /\ syn.clock \in Int
  BY DEF NvTypes, SynTypes, Phys
<1>2. NvNow \in Int /\ NvNow >= -15
  BY NowType
<1>3. \A u \in NvUpdate : u.delta \in Int
  BY DEF NvUpdate
<1>4. Earliest(p) \in Int
  BY <1>1 DEF Earliest, SAMPLES
<1>5. Len(ctrlList[p]) \in Nat /\ \A i \in 1 .. Len(ctrlList[p]) : ctrlList[p][i] \in NvUpdate
  BY <1>1
<1> QED BY <1>1, <1>2, <1>3, <1>4, <1>5

LEMMA TimedWidens ==
  ASSUME NEW c \in Seq(NvUpdate), NEW a \in Int, NEW b \in Int, NEW x \in Int, NEW y \in Int, Timed(c, a, b), x <= a, b <= y
  PROVE  Timed(c, x, y)
<1>1. \A i \in 1 .. Len(c) : c[i].delta \in a .. b
  BY DEF Timed
<1>2. \A i \in 1 .. Len(c) : c[i].delta \in x .. y
  BY <1>1
<1> QED BY <1>2 DEF Timed

(* What is added begins where the list ends.                               *)
LEMMA TimedExtends ==
  ASSUME NvTypes, NEW p, NEW s, Extends(p, s), NEW a \in Int, NEW b \in Int, NEW y \in Int,
         Timed(ctrlList[p], a, b), Timed(s, b, y), a <= b, b <= y
  PROVE  Timed(ctrlList'[p], a, y)
<1> DEFINE c == ctrlList[p]
           d == ctrlList'[p]
<1>1. /\ p \in Phys /\ Len(d) = Len(c) + Len(s) /\ Len(s) \in Nat
      /\ \A i \in 1 .. Len(d) : d[i] = IF i <= Len(c) THEN c[i] ELSE s[i - Len(c)]
  BY DEF Extends
<1>2. Len(c) \in Nat
  BY <1>1, VoiceTypes
<1>3. \A i \in 1 .. Len(c) : c[i].delta \in a .. b
  BY DEF Timed
<1>4. \A i \in 1 .. Len(s) : s[i].delta \in b .. y
  BY DEF Timed
<1>5. \A i, j \in 1 .. Len(c) : i <= j => c[i].delta <= c[j].delta
  BY DEF Timed
<1>6. \A i, j \in 1 .. Len(s) : i <= j => s[i].delta <= s[j].delta
  BY DEF Timed
<1> HIDE DEF c, d
<1>7. ASSUME NEW i \in 1 .. Len(d) PROVE \/ i \in 1 .. Len(c) /\ d[i] = c[i]
                                         \/ i - Len(c) \in 1 .. Len(s) /\ i > Len(c) /\ d[i] = s[i - Len(c)]
  BY <1>1, <1>2
<1>8. \A i \in 1 .. Len(d) : d[i].delta \in a .. y
  BY <1>3, <1>4, <1>7
<1>9. ASSUME NEW i \in 1 .. Len(d), NEW j \in 1 .. Len(d), i <= j PROVE d[i].delta <= d[j].delta
  <2>1. CASE i \in 1 .. Len(c) /\ d[i] = c[i] /\ j \in 1 .. Len(c) /\ d[j] = c[j]
    BY <1>5, <1>9, <2>1
  <2>2. CASE i \in 1 .. Len(c) /\ d[i] = c[i] /\ j - Len(c) \in 1 .. Len(s) /\ d[j] = s[j - Len(c)]
    BY <1>3, <1>4, <2>2
  <2>3. CASE i > Len(c) /\ i - Len(c) \in 1 .. Len(s) /\ d[i] = s[i - Len(c)] /\ j - Len(c) \in 1 .. Len(s) /\ d[j] = s[j - Len(c)]
    <3>1. i - Len(c) <= j - Len(c)
      BY <1>2, <1>9
    <3> QED BY <1>6, <2>3, <3>1
  <2>4. CASE i > Len(c) /\ j \in 1 .. Len(c)
    BY <1>2, <1>9, <2>4
  <2> QED BY <1>7, <2>1, <2>2, <2>3, <2>4
<1> QED BY <1>8, <1>9 DEF Timed, d

LEMMA TimesExtend ==
  ASSUME NvTypes, TimesInv, syn' = syn, syn.phase = "handler", NEW p, NEW s, Extends(p, s),
         NEW y \in {0, 552}, pOffset'[p] = y, pOffset[p] <= y, Timed(s, NvNow + pOffset[p], NvNow + y),
         \A q \in Phys : q # p => pOffset'[q] = pOffset[q]
  PROVE  TimesInv'
<1>1. NvNow' = NvNow /\ \A q \in Phys : Earliest(q)' = Earliest(q) /\ Earliest(q) = -15
  BY DEF NvNow, Earliest
<1>2. p \in Phys /\ \A q \in Phys : q # p => ctrlList'[q] = ctrlList[q]
  BY DEF Extends
<1>3. ASSUME NEW q \in Phys PROVE Timed(ctrlList'[q], Earliest(q)', NvNow' + pOffset'[q])
  <2>1. Timed(ctrlList[q], Earliest(q), NvNow + pOffset[q])
    BY TimedIs
  <2>2. CASE q # p
    BY <1>1, <1>2, <2>1, <2>2
  <2>3. CASE q = p
    <3>1. /\ Earliest(p) \in Int /\ NvNow + pOffset[p] \in Int /\ NvNow + y \in Int /\ Earliest(p) <= NvNow + pOffset[p]
          /\ NvNow + pOffset[p] <= NvNow + y
      BY <1>1, <1>2, VoiceTypes
    <3>2. Timed(ctrlList'[p], Earliest(p), NvNow + y)
      <4>1. PICK b : b = NvNow + pOffset[p]
        OBVIOUS
      <4>2. PICK z : z = NvNow + y
        OBVIOUS
      <4>3. PICK a : a = Earliest(p)
        OBVIOUS
      <4>4. Timed(ctrlList[p], a, b) /\ Timed(s, b, z) /\ a \in Int /\ b \in Int /\ z \in Int /\ a <= b /\ b <= z
        BY <2>1, <2>3, <3>1, <4>1, <4>2, <4>3
      <4>5. Timed(ctrlList'[p], a, z)
        BY <4>4, TimedExtends
      <4> QED BY <4>2, <4>3, <4>5
    <3> QED BY <1>1, <2>3, <3>2
  <2> QED BY <2>2, <2>3
<1>4. \A q \in Phys : Timed(ctrlList'[q], Earliest(q)', NvNow' + pOffset'[q])
  BY <1>3
<1> QED BY <1>4 DEF TimesInv, Timed

LEMMA OneTimed ==
  ASSUME NEW u, u.delta \in Int
  PROVE  Timed(<<u>>, u.delta, u.delta)
<1>1. Len(<<u>>) = 1 /\ \A i \in 1 .. Len(<<u>>) : i = 1
  OBVIOUS
<1>2. <<u>>[1] = u
  OBVIOUS
<1> QED BY <1>1, <1>2 DEF Timed

LEMMA TwoTimed ==
  ASSUME NEW u, NEW v, u.delta \in Int, v.delta \in Int, u.delta <= v.delta
  PROVE  Timed(<<u, v>>, u.delta, v.delta)
<1> DEFINE s == <<u, v>>
<1>1. Len(s) = 2 /\ s[1] = u /\ s[2] = v
  OBVIOUS
<1> HIDE DEF s
<1>2. \A i \in 1 .. Len(s) : i = 1 \/ i = 2
  BY <1>1
<1> QED BY <1>1, <1>2 DEF Timed, s

LEMMA TimesCall ==
  ASSUME NvTypes, ListsOk(pLists), LinkInv, TimesInv, Call
  PROVE  TimesInv'
<1>1. syn' = syn /\ syn.phase = "handler"
  BY DEF Call
<1>2. NvNow \in Int /\ pOffset \in [Phys -> {0, 552}]
  BY NowType DEF NvTypes
<1>3. ASSUME UNCHANGED <<pOffset, ctrlList>> PROVE TimesInv'
  BY <1>1, <1>3 DEF TimesInv, Earliest, NvNow
<1>4. CASE Stays
  BY <1>3, <1>4 DEF Stays, voiceVars
<1>5. CASE \E p \in Phys, u \in NvUpdate : Queues(p, u)
  <2>1. PICK p \in Phys, u \in NvUpdate : Queues(p, u)
    BY <1>5
  <2>2. Extends(p, <<u>>) /\ pOffset' = pOffset /\ u.delta = NvNow + pOffset[p]
    BY <2>1, AddsIs DEF Queues, voiceVars
  <2>3. Timed(<<u>>, NvNow + pOffset[p], NvNow + pOffset[p])
    <3>1. u.delta \in Int
      BY DEF NvUpdate
    <3> QED BY <2>2, <3>1, OneTimed
  <2>4. PICK y \in {0, 552} : y = pOffset[p]
    BY <1>2
  <2> QED BY <1>1, <2>2, <2>3, <2>4, TimesExtend
<1>6. CASE \E l \in Logical : Takes(l)
  <2>1. PICK l \in Logical : Takes(l)
    BY <1>6
  <2>2. PICK p \in Phys : TakenTo(pLists, pLists', p) /\ pOffset' = [pOffset EXCEPT ![p] = 0] /\ UNCHANGED ctrlList
    BY <2>1, SpareTaken DEF Takes
  <2>3. pOffset[p] = 0
    BY <2>2 DEF TakenTo, LinkInv, OffsetsAlloc, Alloc
  <2>4. pOffset' = pOffset
    BY <1>2, <2>2, <2>3
  <2> QED BY <1>3, <2>2, <2>4
<1>7. CASE \E l \in Logical, p \in Phys, s \in Seq(NvUpdate) : Steals(l, p, s)
  <2>1. PICK l \in Logical, p \in Phys, s \in Seq(NvUpdate) : Steals(l, p, s)
    BY <1>7
  <2>2. Extends(p, s) /\ pOffset' = [pOffset EXCEPT ![p] = 552] /\ pOffset[p] = 0
    BY <2>1, AddsIs DEF Steals
  <2>3. PICK u : u = Update("volume", NvNow, 0, 368)
    OBVIOUS
  <2>4. PICK v : v = Update("stop", NvNow + 552, 0, 0)
    OBVIOUS
  <2>5. u.delta = NvNow /\ v.delta = NvNow + 552
    BY <2>3, <2>4 DEF Update
  <2>6. s = <<u, v>> \/ s = <<u>>
    BY <2>1, <2>3, <2>4 DEF Steals
  <2>7. Timed(s, NvNow, NvNow + 552)
    <3>1. CASE s = <<u, v>>
      <4>1. u.delta \in Int /\ v.delta \in Int /\ u.delta <= v.delta
        BY <1>2, <2>5
      <4>2. Timed(<<u, v>>, u.delta, v.delta)
        BY <4>1, TwoTimed
      <4> QED BY <2>5, <3>1, <4>2
    <3>2. CASE s = <<u>>
      <4>1. Timed(<<u>>, NvNow, NvNow)
        BY <1>2, <2>5, OneTimed
      <4>2. PICK t \in Int : t = NvNow
        BY <1>2
      <4>3. s \in Seq(NvUpdate) /\ Timed(s, t, t) /\ t + 552 \in Int /\ t <= t /\ t <= t + 552
        BY <3>2, <4>1, <4>2
      <4>4. Timed(s, t, t + 552)
        BY <4>3, TimedWidens
      <4> QED BY <4>2, <4>4
    <3> QED BY <2>6, <3>1, <3>2
  <2>8. NvNow + pOffset[p] = NvNow /\ pOffset[p] <= 552 /\ pOffset'[p] = 552 /\ \A q \in Phys : q # p => pOffset'[q] = pOffset[q]
    BY <1>2, <2>2
  <2>9. PICK y \in {0, 552} : y = 552
    OBVIOUS
  <2> QED BY <1>1, <2>2, <2>7, <2>8, <2>9, TimesExtend
<1>8. CASE \E l \in Logical, p \in Phys : Retires(l, p) \/ FreesLater(l, p)
  <2>1. PICK l \in Logical, p \in Phys : Retires(l, p) \/ FreesLater(l, p)
    BY <1>8
  <2>2. pOffset' = pOffset
    BY <2>1 DEF Retires, FreesLater
  <2>3. PICK t \in Int : t = NvNow + pOffset[p]
    BY <1>2
  <2>4. PICK u : u = Update("stop", t, 0, 0)
    OBVIOUS
  <2>5. PICK v : v = Update("free", t, 0, 0)
    OBVIOUS
  <2>6. u.delta = t /\ v.delta = t
    BY <2>4, <2>5 DEF Update
  <2>7. PICK y \in {0, 552} : y = pOffset[p]
    BY <1>2
  <2>8. Timed(<<u>>, NvNow + pOffset[p], NvNow + y) /\ Timed(<<u, v>>, NvNow + pOffset[p], NvNow + y)
    <3>1. Timed(<<u>>, u.delta, u.delta)
      BY <2>6, OneTimed
    <3>2. Timed(<<u, v>>, u.delta, v.delta)
      <4>1. u.delta \in Int /\ v.delta \in Int /\ u.delta <= v.delta
        BY <2>6
      <4> QED BY <4>1, TwoTimed
    <3> QED BY <2>3, <2>6, <2>7, <3>1, <3>2
  <2>9. CASE Retires(l, p)
    <3>1. t = NvNow
      BY <1>2, <2>3, <2>9 DEF Retires
    <3>2. Extends(p, <<u>>)
      BY <2>4, <2>9, <3>1, AddsIs DEF Retires
    <3> QED BY <1>1, <2>2, <2>7, <2>8, <3>2, TimesExtend
  <2>10. CASE FreesLater(l, p)
    <3>1. Extends(p, <<u, v>>)
      BY <2>3, <2>4, <2>5, <2>10, AddsIs DEF FreesLater
    <3> QED BY <1>1, <2>2, <2>7, <2>8, <3>1, TimesExtend
  <2> QED BY <2>1, <2>9, <2>10
<1> QED BY <1>4, <1>5, <1>6, <1>7, <1>8 DEF Call

LEMMA TimesOpen ==
  ASSUME NvTypes, FrameInv, TimesInv, AudioFrame \/ HandlerReturns
  PROVE  TimesInv'
<1>1. PICK m \in Nat, n \in Nat : Opens(m, n)
  <2>1. syn.left \in Nat /\ syn.len \in Nat
    BY DEF NvTypes, SynTypes
  <2> QED BY <2>1, FrameOpens, HandlerOpens
<1>2. UNCHANGED <<pOffset, ctrlList>>
  BY DEF AudioFrame, HandlerReturns, voiceVars
<1>3. NvNow' >= NvNow /\ NvNow' \in Int
  BY <1>1, NowOpens
<1>4. \A p \in Phys : Earliest(p) >= -15 /\ Earliest(p)' = -15
  <2>1. syn.phase = "idle" \/ syn.phase = "handler"
    BY DEF AudioFrame, HandlerReturns
  <2>2. syn'.phase = "handler" \/ (syn'.phase = "pull" /\ syn'.at = 1 /\ syn'.out = SAMPLES)
    BY <1>1 DEF Opens
  <2>3. ASSUME NEW p \in Phys PROVE Earliest(p) >= -15 /\ Earliest(p)' = -15
    <3>1. p \in Nat /\ p >= 1
      BY DEF Phys
    <3> QED BY <2>1, <2>2, <3>1 DEF Earliest
  <2> QED BY <2>3
<1>5. ASSUME NEW p \in Phys PROVE Timed(ctrlList'[p], Earliest(p)', NvNow' + pOffset'[p])
  <2>1. Timed(ctrlList[p], Earliest(p), NvNow + pOffset[p])
    BY TimedIs
  <2>2. ctrlList[p] \in Seq(NvUpdate) /\ Earliest(p) \in Int /\ pOffset[p] \in Int /\ NvNow \in Int
    BY VoiceTypes
  <2>3. PICK a \in Int : a = Earliest(p)
    BY <2>2
  <2>4. PICK b \in Int : b = NvNow + pOffset[p]
    BY <2>2
  <2>5. PICK y \in Int : y = NvNow' + pOffset[p]
    BY <1>3, <2>2
  <2>6. Timed(ctrlList[p], -15, y)
    <3>1. -15 <= a /\ b <= y /\ -15 \in Int
      BY <1>3, <1>4, <2>2, <2>3, <2>4, <2>5
    <3> QED BY <2>1, <2>2, <2>3, <2>4, <3>1, TimedWidens
  <2> QED BY <1>2, <1>4, <2>5, <2>6
<1>6. \A p \in Phys : Timed(ctrlList'[p], Earliest(p)', NvNow' + pOffset'[p])
  BY <1>5
<1> QED BY <1>6 DEF TimesInv, Timed

(* What the pull of a voice leaves is for the next block.                  *)
LEMMA PulledTimes ==
  ASSUME NvTypes, FrameInv, TimesInv, syn.phase = "pull", ~Due
  PROVE  Timed(ctrlList[syn.at], SAMPLES, NvNow + pOffset[syn.at])
<1>1. PICK p \in Phys : p = syn.at
  BY DEF NvTypes, SynTypes
<1>2. Timed(ctrlList[p], Earliest(p), NvNow + pOffset[p])
  BY TimedIs
<1>3. /\ Earliest(p) \in Int /\ NvNow + pOffset[p] \in Int /\ Len(ctrlList[p]) \in Nat
      /\ \A i \in 1 .. Len(ctrlList[p]) : ctrlList[p][i].delta \in Int
  BY VoiceTypes
<1>4. ASSUME NEW i \in 1 .. Len(ctrlList[p]) PROVE ctrlList[p][i].delta >= SAMPLES
  <2>1. ctrlList[p] # <<>> /\ 1 \in 1 .. Len(ctrlList[p]) /\ 1 <= i
    BY <1>3
  <2>2. ctrlList[p][1].delta >= SAMPLES
    BY <1>1, <2>1, NotDueIs
  <2>3. ctrlList[p][1].delta <= ctrlList[p][i].delta
    BY <1>2, <2>1 DEF Timed
  <2> QED BY <1>3, <2>1, <2>2, <2>3 DEF SAMPLES
<1>5. \A i \in 1 .. Len(ctrlList[p]) : ctrlList[p][i].delta \in SAMPLES .. NvNow + pOffset[p]
  BY <1>2, <1>3, <1>4 DEF Timed, SAMPLES
<1> QED BY <1>1, <1>2, <1>5 DEF Timed

LEMMA TimesNext ==
  ASSUME NvTypes, FrameInv, TimesInv, NextVoice
  PROVE  TimesInv'
<1>1. MovesOn /\ syn.phase = "pull" /\ ~Due /\ UNCHANGED <<pOffset, ctrlList>>
  BY NextMoves DEF NextVoice, voiceVars
<1>2. NvNow' = NvNow
  BY <1>1, NowSame DEF MovesOn
<1>3. syn.at \in Phys /\ syn.at \in Nat
  BY AtTypes
<1>4. ASSUME NEW p \in Phys PROVE Timed(ctrlList'[p], Earliest(p)', NvNow' + pOffset'[p])
  <2>1. p \in Nat
    BY DEF Phys
  <2>2. CASE p = syn.at
    <3>1. Timed(ctrlList[p], SAMPLES, NvNow + pOffset[p])
      BY <1>1, <2>2, PulledTimes
    <3>2. Earliest(p)' = SAMPLES
      BY <1>1, <1>3, <2>2 DEF Earliest, MovesOn
    <3> QED BY <1>1, <1>2, <3>1, <3>2
  <2>3. CASE p # syn.at
    <3>1. Earliest(p)' = Earliest(p)
      BY <1>1, <1>3, <2>1, <2>3 DEF Earliest, MovesOn
    <3> QED BY <1>1, <1>2, <3>1, TimedIs
  <2> QED BY <2>2, <2>3
<1>5. \A p \in Phys : Timed(ctrlList'[p], Earliest(p)', NvNow' + pOffset'[p])
  BY <1>4
<1> QED BY <1>5 DEF TimesInv, Timed

LEMMA TimesApply ==
  ASSUME NvTypes, ListsOk(pLists), LinkInv, FrameInv, TimesInv, ApplyUpdate
  PROVE  TimesInv'
<1>1. PICK p \in Phys : p = syn.at
  BY ApplyIs DEF Shortens
<1>2. Shortens(p) /\ Due /\ syn.phase = "pull" /\ syn' = Advanced(syn)
  BY <1>1, ApplyIs DEF ApplyUpdate, Due
<1>3. PICK d \in Int : d = Update1.delta /\ d = ctrlList[p][1].delta
  <2>1. SpanInv
    BY <1>2, SpanIs
  <2> QED BY <1>1, <2>1 DEF SpanInv, Update1
<1>4. AdvancedTo(syn, syn', d)
  BY <1>2, <1>3, SpanIs, AdvanceIs
<1>5. NvNow' = NvNow
  BY <1>4, NowSame DEF AdvancedTo
<1>6. \A q \in Phys : q # p => pOffset'[q] = pOffset[q] /\ ctrlList'[q] = ctrlList[q]
  <2>1. pOffset \in [Phys -> {0, 552}]
    BY DEF NvTypes
  <2> QED BY <1>1, <1>2, <2>1, LinkApplies DEF Shortens, voiceVars
<1>7. CASE ctrlList'[p] = <<>>
  <2>1. Timed(ctrlList'[p], Earliest(p)', NvNow' + pOffset'[p])
    <3>1. \A i \in 1 .. Len(<<>>) : FALSE
      OBVIOUS
    <3> QED BY <1>7, <3>1 DEF Timed
  <2>2. ASSUME NEW q \in Phys, q # p PROVE Timed(ctrlList'[q], Earliest(q)', NvNow' + pOffset'[q])
    <3>0. q \in Nat /\ p \in Nat /\ (q < p \/ q > p)
      BY <2>2 DEF Phys
    <3>1. Earliest(q)' = Earliest(q)
      BY <1>1, <1>2, <1>4, <3>0 DEF Earliest, AdvancedTo
    <3> QED BY <1>5, <1>6, <2>2, <3>1, TimedIs
  <2>3. \A q \in Phys : Timed(ctrlList'[q], Earliest(q)', NvNow' + pOffset'[q])
    BY <2>1, <2>2
  <2> QED BY <2>3 DEF TimesInv, Timed
<1>8. CASE ctrlList'[p] # <<>>
  <2>1. pOffset' = pOffset
    BY <1>1, <1>8, LinkApplies DEF voiceVars
  <2>2. Timed(ctrlList[p], Earliest(p), NvNow + pOffset[p])
    BY TimedIs
  <2>3. /\ Earliest(p) \in Int /\ NvNow + pOffset[p] \in Int /\ Len(ctrlList[p]) \in Nat /\ Len(ctrlList[p]) >= 1
        /\ \A i \in 1 .. Len(ctrlList[p]) : ctrlList[p][i].delta \in Int
    <3>1. ctrlList[p] # <<>> /\ ctrlList[p] \in Seq(NvUpdate)
      BY <1>2, VoiceTypes DEF Shortens
    <3>2. Len(ctrlList[p]) >= 1
      BY <3>1
    <3> QED BY <3>2, VoiceTypes
  <2>4. /\ Len(ctrlList'[p]) = Len(ctrlList[p]) - 1
        /\ \A i \in 1 .. Len(ctrlList'[p]) : ctrlList'[p][i] = ctrlList[p][i + 1] /\ i + 1 \in 1 .. Len(ctrlList[p]) /\ 1 <= i + 1
    <3>1. /\ Len(ctrlList'[p]) = Len(ctrlList[p]) - 1
          /\ \A i \in 1 .. Len(ctrlList'[p]) : ctrlList'[p][i] = ctrlList[p][i + 1]
      BY <1>2 DEF Shortens
    <3> QED BY <2>3, <3>1
  <2>5. \A i \in 1 .. Len(ctrlList'[p]) : d <= ctrlList'[p][i].delta
    <3>1. 1 \in 1 .. Len(ctrlList[p])
      BY <2>3
    <3> QED BY <1>3, <2>2, <2>4, <3>1 DEF Timed
  <2>6. \A i \in 1 .. Len(ctrlList'[p]) : ctrlList'[p][i].delta \in Earliest(p) .. NvNow + pOffset[p]
    BY <2>2, <2>4 DEF Timed
  <2>7. \A i, j \in 1 .. Len(ctrlList'[p]) : i <= j => ctrlList'[p][i].delta <= ctrlList'[p][j].delta
    <3>1. \A i, j \in 1 .. Len(ctrlList'[p]) : i <= j => i + 1 <= j + 1
      OBVIOUS
    <3> QED BY <2>2, <2>4, <3>1 DEF Timed
  <2>8. Earliest(p)' <= d \/ Earliest(p)' = Earliest(p)
    <3>1. Earliest(p) = (IF syn.out = SAMPLES THEN -15 ELSE syn.clock) /\ syn.out \in {0, SAMPLES}
      BY <1>1, <1>2, AtTypes DEF Earliest
    <3>2. Earliest(p)' = IF syn'.out = SAMPLES THEN -15 ELSE syn'.clock
      BY <1>1, <1>3, <1>4, AtTypes DEF Earliest, AdvancedTo
    <3>3. \/ syn'.out = SAMPLES /\ syn.out = SAMPLES
          \/ syn'.out # SAMPLES /\ d >= syn'.clock /\ syn'.clock \in 92 .. 275
      BY <1>4 DEF AdvancedTo
    <3> QED BY <3>1, <3>2, <3>3
  <2>9. (Earliest(p)') \in Int
    <3>1. Earliest(p)' = -15 \/ (Earliest(p)' = syn'.clock /\ syn'.clock \in Int)
      BY <1>1, <1>4, AtTypes DEF Earliest, AdvancedTo, SynTypes
    <3> QED BY <3>1
  <2>10. Timed(ctrlList'[p], Earliest(p)', NvNow' + pOffset'[p])
    <3>1. PICK e \in Int : e = Earliest(p)'
      BY <2>9
    <3>2. PICK f \in Int : f = Earliest(p)
      BY <2>3
    <3>3. PICK y \in Int : y = NvNow + pOffset[p]
      BY <2>3
    <3>4. \A i \in 1 .. Len(ctrlList'[p]) : ctrlList'[p][i].delta \in f .. y /\ d <= ctrlList'[p][i].delta
      BY <2>5, <2>6, <3>2, <3>3
    <3>5. e <= d \/ e = f
      BY <2>8, <3>1, <3>2
    <3>6. \A i \in 1 .. Len(ctrlList'[p]) : ctrlList'[p][i].delta \in e .. y
      BY <3>4, <3>5
    <3> QED BY <1>5, <2>1, <2>7, <3>1, <3>3, <3>6 DEF Timed
  <2>11. ASSUME NEW q \in Phys, q # p PROVE Timed(ctrlList'[q], Earliest(q)', NvNow' + pOffset'[q])
    <3>0. q \in Nat /\ p \in Nat /\ (q < p \/ q > p)
      BY <2>11 DEF Phys
    <3>1. Earliest(q)' = Earliest(q)
      BY <1>1, <1>2, <1>4, <3>0 DEF Earliest, AdvancedTo
    <3> QED BY <1>5, <1>6, <2>11, <3>1, TimedIs
  <2>12. \A q \in Phys : Timed(ctrlList'[q], Earliest(q)', NvNow' + pOffset'[q])
    BY <2>10, <2>11
  <2> QED BY <2>12 DEF TimesInv, Timed
<1> QED BY <1>7, <1>8

LEMMA TimesBlock ==
  ASSUME NvTypes, FrameInv, TimesInv, EndBlock
  PROVE  TimesInv'
<1>1. Ends /\ Shifts /\ syn.phase = "pull" /\ ~Due /\ syn.at = NvPVoices /\ pOffset' = pOffset
  BY BlockEnds, BlockIs DEF EndBlock
<1>2. NvNow' = NvNow - SAMPLES
  BY <1>1, NowEnds
<1>3. ASSUME NEW p \in Phys PROVE Timed(ctrlList[p], SAMPLES, NvNow + pOffset[p])
  <2>1. CASE p = syn.at
    BY <1>1, <2>1, PulledTimes
  <2>2. CASE p # syn.at
    <3>1. p < syn.at
      BY <1>1, <2>2, NvAssumption DEF NvAssumption, Phys
    <3>2. Earliest(p) = SAMPLES
      BY <1>1, <2>2, <3>1, AtTypes DEF Earliest, Phys
    <3> QED BY <3>2, TimedIs
  <2> QED BY <2>1, <2>2
<1>4. \A p \in Phys : (Earliest(p)' = 0 \/ Earliest(p)' = -15)
  <2>1. syn'.at = 1 /\ syn'.out = SAMPLES /\ syn'.phase \in {"idle", "pull"}
    BY <1>1 DEF Ends
  <2>2. \A p \in Phys : p \in Nat /\ p >= 1
    BY DEF Phys
  <2> QED BY <2>1, <2>2 DEF Earliest
<1>5. ASSUME NEW p \in Phys PROVE Timed(ctrlList'[p], Earliest(p)', NvNow' + pOffset'[p])
  <2>1. /\ Len(ctrlList'[p]) = Len(ctrlList[p])
        /\ \A i \in 1 .. Len(ctrlList[p]) : ctrlList'[p][i].delta = ctrlList[p][i].delta - SAMPLES
    BY <1>1 DEF Shifts
  <2>2. NvNow + pOffset[p] \in Int /\ NvNow \in Int /\ pOffset[p] \in Int /\ \A i \in 1 .. Len(ctrlList[p]) : ctrlList[p][i].delta \in Int
    BY VoiceTypes
  <2>3. \A i \in 1 .. Len(ctrlList[p]) : ctrlList[p][i].delta \in SAMPLES .. NvNow + pOffset[p]
    BY <1>3 DEF Timed
  <2>4. PICK e \in {0, -15} : e = Earliest(p)'
    BY <1>4
  <2>5. ASSUME NEW i \in 1 .. Len(ctrlList'[p]) PROVE ctrlList'[p][i].delta \in e .. NvNow - SAMPLES + pOffset[p]
    <3>1. PICK x \in Int : x = ctrlList[p][i].delta
      BY <2>1, <2>2
    <3>2. ctrlList'[p][i].delta = x - 184 /\ x \in 184 .. NvNow + pOffset[p]
      BY <2>1, <2>3, <3>1 DEF SAMPLES
    <3>3. PICK n \in Int : n = NvNow
      BY <2>2
    <3>4. PICK o \in Int : o = pOffset[p]
      BY <2>2
    <3>5. x \in 184 .. n + o
      BY <3>2, <3>3, <3>4
    <3>6. x - 184 \in e .. n - 184 + o
      BY <3>5
    <3> QED BY <3>2, <3>3, <3>4, <3>6 DEF SAMPLES
  <2>6. \A i, j \in 1 .. Len(ctrlList[p]) : i <= j => ctrlList[p][i].delta <= ctrlList[p][j].delta
    BY <1>3 DEF Timed
  <2>7. ASSUME NEW i \in 1 .. Len(ctrlList'[p]), NEW j \in 1 .. Len(ctrlList'[p]), i <= j
        PROVE ctrlList'[p][i].delta <= ctrlList'[p][j].delta
    <3>1. PICK x \in Int : x = ctrlList[p][i].delta
      BY <2>1, <2>2
    <3>2. PICK y \in Int : y = ctrlList[p][j].delta
      BY <2>1, <2>2
    <3>3. ctrlList'[p][i].delta = x - 184 /\ ctrlList'[p][j].delta = y - 184
      BY <2>1, <3>1, <3>2 DEF SAMPLES
    <3>4. x <= y
      BY <2>1, <2>6, <2>7, <3>1, <3>2
    <3> QED BY <3>3, <3>4
  <2> QED BY <1>1, <1>2, <2>4, <2>5, <2>7 DEF Timed
<1>6. \A p \in Phys : Timed(ctrlList'[p], Earliest(p)', NvNow' + pOffset'[p])
  BY <1>5
<1> QED BY <1>6 DEF TimesInv, Timed

LEMMA TimesStep ==
  ASSUME NvTypes, FrameInv, TimesInv, ListsOk(pLists), LinkInv,
         AudioFrame \/ HandlerReturns \/ ApplyUpdate \/ NextVoice \/ EndBlock \/ Call
  PROVE  TimesInv'
BY TimesOpen, TimesNext, TimesApply, TimesBlock, TimesCall

-----------------------------------------------------------------------------
(* The updates that are queued, counted along the voices.                  *)

Queue(lists) ==
  CHOOSE queued : queued = [n \in 0 .. NvPVoices |-> IF n = 0 THEN 0 ELSE queued[n - 1] + Len(lists[n])]

LEMMA QueueStep ==
  ASSUME NEW c, ListTypes(c)
  PROVE  /\ InLists(c, 0) = 0
         /\ \A n \in 1 .. NvPVoices : InLists(c, n) = InLists(c, n - 1) + Len(c[n])
         /\ \A n \in 0 .. NvPVoices : InLists(c, n) \in Nat
<1> DEFINE N == NvPVoices
           D == [n \in 1 .. N |-> [x \in Nat |-> x + Len(c[n])]]
           IsSum(sum) == sum = [i \in 0 .. N |-> IF i = 0 THEN 0 ELSE sum[i - 1] + Len(c[i])]
<1>1. N \in Nat /\ \A n \in 1 .. N : Len(c[n]) \in Nat
  <2>1. \A n \in Phys : c[n] \in Seq(NvUpdate)
    BY DEF ListTypes
  <2>2. \A n \in Phys : Len(c[n]) \in Nat
    BY <2>1
  <2> QED BY <2>2, NvAssumption DEF NvAssumption, Phys
<1>2. D \in [1 .. N -> [Nat -> Nat]]
  BY <1>1
<1>3. PICK f : Recursive(f, N, Nat, 0, D)
  <2> HIDE DEF D, N
  <2> QED BY <1>1, <1>2, Recursion
<1>4. f \in [0 .. N -> Nat] /\ f[0] = 0 /\ \A n \in 1 .. N : f[n] = D[n][f[n - 1]]
  BY <1>3 DEF Recursive
<1>5. \A n \in 1 .. N : f[n - 1] \in Nat /\ f[n] = f[n - 1] + Len(c[n])
  <2> SUFFICES ASSUME NEW n \in 1 .. N PROVE f[n - 1] \in Nat /\ f[n] = f[n - 1] + Len(c[n])
    OBVIOUS
  <2>1. n - 1 \in 0 .. N
    BY <1>1
  <2> QED BY <1>4, <2>1
<1> HIDE DEF N
<1>6. IsSum(f)
  <2>1. f = [n \in 0 .. N |-> f[n]]
    BY <1>4
  <2>2. \A n \in 0 .. N : f[n] = IF n = 0 THEN 0 ELSE f[n - 1] + Len(c[n])
    <3>1. \A n \in 0 .. N : n # 0 => n \in 1 .. N
      BY <1>1
    <3> QED BY <1>4, <1>5, <3>1
  <2> QED BY ONLY <2>1, <2>2
<1>7. IsSum(Queue(c))
  <2>1. Queue(c) = CHOOSE sum : IsSum(sum)
    BY DEF Queue, N
  <2> HIDE DEF IsSum
  <2> QED BY <1>6, <2>1
<1> DEFINE s == Queue(c)
<1>8. /\ \A n \in 1 .. N : s[n] = s[n - 1] + Len(c[n])
      /\ s[0] = 0 /\ s = [n \in 0 .. N |-> s[n]]
  <2>1. IsSum(s)
    BY <1>7
  <2> HIDE DEF s
  <2>2. s = [n \in 0 .. N |-> s[n]]
    BY ONLY <2>1
  <2>3. \A n \in 0 .. N : s[n] = IF n = 0 THEN 0 ELSE s[n - 1] + Len(c[n])
    BY ONLY <2>1
  <2>4. 0 \in 0 .. N /\ \A n \in 1 .. N : n \in 0 .. N /\ n # 0
    BY <1>1
  <2> QED BY <2>2, <2>3, <2>4
<1>9. \A n \in 0 .. N : s[n] \in Nat
  <2> DEFINE T == {n \in Nat : n \in 0 .. N => s[n] \in Nat}
  <2> HIDE DEF s
  <2>1. 0 \in T
    BY <1>8
  <2>2. ASSUME NEW n \in Nat, n \in T PROVE n + 1 \in T
    <3> SUFFICES ASSUME n + 1 \in 0 .. N PROVE s[n + 1] \in Nat
      OBVIOUS
    <3>1. n \in 0 .. N /\ n + 1 \in 1 .. N /\ (n + 1) - 1 = n
      BY <1>1
    <3>2. s[n] \in Nat /\ Len(c[n + 1]) \in Nat
      BY <1>1, <2>2, <3>1
    <3>3. s[n + 1] = s[(n + 1) - 1] + Len(c[n + 1])
      BY <1>8, <3>1
    <3> QED BY <3>1, <3>2, <3>3
  <2>3. \A n \in Nat : n \in T
    <3> HIDE DEF T
    <3> QED BY <2>1, <2>2, NatSetInduction
  <2> QED BY <1>1, <2>3
<1>10. \A n : InLists(c, n) = s[n]
  BY DEF InLists, Queue
<1> HIDE DEF s
<1> QED BY <1>8, <1>9, <1>10 DEF N

LEMMA QueueChange ==
  ASSUME NEW c, NEW d, ListTypes(c), ListTypes(d), NEW p \in Phys, NEW k \in Int, Len(d[p]) = Len(c[p]) + k,
         \A q \in Phys : q # p => Len(d[q]) = Len(c[q])
  PROVE  InLists(d, NvPVoices) = InLists(c, NvPVoices) + k
<1> DEFINE N == NvPVoices
           Gain(n) == IF p <= n THEN k ELSE 0
           T == {n \in Nat : n <= N => InLists(d, n) = InLists(c, n) + Gain(n)}
<1>1. N \in Nat /\ p \in 1 .. N /\ \A n \in 1 .. N : Len(c[n]) \in Nat
  <2>1. \A n \in Phys : c[n] \in Seq(NvUpdate)
    BY DEF ListTypes
  <2>2. \A n \in Phys : Len(c[n]) \in Nat
    BY <2>1
  <2> QED BY <2>2, NvAssumption DEF NvAssumption, Phys
<1>2. ASSUME NEW n \in 1 .. N PROVE Len(d[n]) = Len(c[n]) + IF n = p THEN k ELSE 0
  <2>1. CASE n = p
    BY <2>1
  <2>2. CASE n # p
    <3>1. n \in Phys /\ Len(c[n]) \in Nat
      BY <1>1 DEF Phys
    <3> QED BY <2>2, <3>1
  <2> QED BY <2>1, <2>2
<1>3. 0 \in T
  BY <1>1, QueueStep
<1>4. ASSUME NEW n \in Nat, n \in T PROVE n + 1 \in T
  <2> SUFFICES ASSUME n + 1 <= N PROVE InLists(d, n + 1) = InLists(c, n + 1) + Gain(n + 1)
    OBVIOUS
  <2>1. n + 1 \in 1 .. N /\ (n + 1) - 1 = n /\ n \in 0 .. N
    BY <1>1
  <2>2. InLists(d, n) = InLists(c, n) + Gain(n) /\ InLists(c, n) \in Nat
    BY <1>1, <1>4, <2>1, QueueStep
  <2>3. InLists(d, n + 1) = InLists(d, n) + Len(d[n + 1]) /\ InLists(c, n + 1) = InLists(c, n) + Len(c[n + 1])
    <3>1. InLists(d, n + 1) = InLists(d, (n + 1) - 1) + Len(d[n + 1]) /\ InLists(c, n + 1) = InLists(c, (n + 1) - 1) + Len(c[n + 1])
      BY <2>1, QueueStep
    <3> QED BY <2>1, <3>1
  <2>4. PICK x \in Nat : x = InLists(c, n)
    BY <2>2
  <2>5. PICK y \in Nat : y = Len(c[n + 1])
    BY <1>1, <2>1
  <2>6. Len(d[n + 1]) = y + (IF n + 1 = p THEN k ELSE 0)
    BY <1>2, <2>1, <2>5
  <2>7. InLists(d, n + 1) = x + Gain(n) + (y + (IF n + 1 = p THEN k ELSE 0)) /\ InLists(c, n + 1) = x + y
    BY <2>2, <2>3, <2>4, <2>5, <2>6
  <2>8. Gain(n + 1) = Gain(n) + (IF n + 1 = p THEN k ELSE 0) /\ Gain(n) \in Int
    BY <1>1, <2>1
  <2> QED BY <2>7, <2>8
<1>5. N \in T
  <2> HIDE DEF T, N
  <2> QED BY <1>1, <1>3, <1>4, NatSetInduction
<1>6. Gain(N) = k
  BY <1>1
<1> QED BY <1>1, <1>5, <1>6

LEMMA KeptStep ==
  ASSUME NvTypes, FrameInv, TimesInv, UpdatesKept,
         AudioFrame \/ HandlerReturns \/ ApplyUpdate \/ NextVoice \/ EndBlock \/ Call
  PROVE  UpdatesKept'
<1>1. ListTypes(ctrlList) /\ paramList \in Nat /\ NvPVoices \in Nat \ {0}
  BY NvAssumption DEF NvTypes, ListTypes, NvAssumption
<1>2. InLists(ctrlList, NvPVoices) \in Nat /\ 1 \in Phys /\ Len(ctrlList[1]) \in Nat
  <2>1. NvPVoices \in 0 .. NvPVoices /\ 1 \in Phys
    BY <1>1 DEF Phys
  <2>2. ctrlList[1] \in Seq(NvUpdate)
    BY <1>1, <2>1 DEF ListTypes
  <2> QED BY <1>1, <2>1, <2>2, QueueStep
<1>3. ASSUME UNCHANGED <<ctrlList, paramList>> PROVE UpdatesKept'
  BY <1>3 DEF UpdatesKept
<1>4. CASE AudioFrame \/ HandlerReturns \/ NextVoice
  BY <1>3, <1>4 DEF AudioFrame, HandlerReturns, NextVoice
<1>5. CASE EndBlock
  <2>1. Shifts /\ paramList' = paramList
    BY <1>5, BlockIs DEF EndBlock
  <2>2. InLists(ctrlList', NvPVoices) = InLists(ctrlList, NvPVoices) + 0
    <3>1. ListTypes(ctrlList') /\ Len(ctrlList'[1]) = Len(ctrlList[1]) + 0 /\ \A q \in Phys : Len(ctrlList'[q]) = Len(ctrlList[q])
      BY <1>2, <2>1 DEF Shifts
    <3> QED BY <1>1, <1>2, <3>1, QueueChange
  <2> QED BY <1>2, <2>1, <2>2 DEF UpdatesKept
<1>6. CASE ApplyUpdate
  <2>1. PICK p \in Phys : Shortens(p)
    BY <1>6, ApplyIs DEF Shortens
  <2>2. paramList' = paramList + 1
    BY <1>6 DEF ApplyUpdate
  <2>3. InLists(ctrlList', NvPVoices) = InLists(ctrlList, NvPVoices) + (-1)
    <3>1. ctrlList[p] \in Seq(NvUpdate)
      BY <1>1 DEF ListTypes
    <3>2. ListTypes(ctrlList') /\ Len(ctrlList'[p]) = Len(ctrlList[p]) + (-1) /\ \A q \in Phys : q # p => Len(ctrlList'[q]) = Len(ctrlList[q])
      BY <2>1, <3>1 DEF Shortens
    <3> QED BY <1>1, <3>2, QueueChange
  <2> QED BY <1>1, <1>2, <2>2, <2>3 DEF UpdatesKept
<1>7. CASE Call
  <2>1. UNCHANGED <<ctrlList, paramList>> \/ \E p, s : Extends(p, s)
    <3>1. CASE Stays
      BY <3>1 DEF Stays
    <3>2. CASE \E p \in Phys, u \in NvUpdate : Queues(p, u)
      BY <3>2, AddsIs DEF Queues
    <3>3. CASE \E l \in Logical : Takes(l)
      BY <3>3 DEF Takes, TakeSpare
    <3>4. CASE \E l \in Logical, p \in Phys, s \in Seq(NvUpdate) : Steals(l, p, s)
      BY <3>4, AddsIs DEF Steals
    <3>5. CASE \E l \in Logical, p \in Phys : Retires(l, p) \/ FreesLater(l, p)
      BY <3>5, AddsIs DEF Retires, FreesLater
    <3> QED BY <1>7, <3>1, <3>2, <3>3, <3>4, <3>5 DEF Call
  <2>2. CASE \E p, s : Extends(p, s)
    <3>1. PICK p, s : Extends(p, s)
      BY <2>2
    <3>2. p \in Phys /\ paramList' = paramList - Len(s) /\ Len(s) \in 1 .. 2
      BY <3>1 DEF Extends
    <3>3. ListTypes(ctrlList') /\ Len(ctrlList'[p]) = Len(ctrlList[p]) + Len(s) /\ \A q \in Phys : q # p => Len(ctrlList'[q]) = Len(ctrlList[q])
      BY <3>1 DEF Extends
    <3>4. InLists(ctrlList', NvPVoices) = InLists(ctrlList, NvPVoices) + Len(s)
      BY <1>1, <3>2, <3>3, QueueChange
    <3> QED BY <1>1, <1>2, <3>2, <3>4 DEF UpdatesKept
  <2> QED BY <1>3, <2>1, <2>2
<1> QED BY <1>4, <1>5, <1>6, <1>7

-----------------------------------------------------------------------------
(* Voices that are spare.                                                  *)

LEMMA PulledMotion ==
  ASSUME NEW m \in Mixer, NEW n \in Int
  PROVE  PullSubFrame(m, n).motion = m.motion
<1>1. Solved(m).motion = m.motion
  BY DEF Solved, Mixer
<1>2. Solved(m) \in Mixer
  BY PulledType
<1>3. \A k \in Mixer : [k EXCEPT !.delta = @ + SAMPLES].motion = k.motion
  BY DEF Mixer
<1> QED BY <1>1, <1>2, <1>3 DEF PullSubFrame

LEMMA RestMotion ==
  ASSUME NEW m \in Mixer, syn.out \in Int
  PROVE  NvRest(m).motion = m.motion
<1>1. PullSubFrame(m, syn.out) \in Mixer /\ PullSubFrame(m, syn.out).motion = m.motion
  BY PulledType, PulledMotion
<1>2. \A k \in Mixer : EndSegment(k).motion = k.motion
  BY DEF EndSegment, Mixer
<1> QED BY <1>1, <1>2 DEF NvRest

LEMMA StopStops ==
  ASSUME NEW m \in Mixer, NEW u \in NvUpdate, NEW n \in Int
  PROVE  (u.type = "stop" => Applied(m, u, n).motion = "stopped") /\ (u.type = "free" => Applied(m, u, n) = m)
<1>1. PullSubFrame(m, n) \in Mixer
  BY PulledType
<1>2. \A k \in Mixer : Reset(k).motion = "stopped"
  BY DEF Reset, Mixer
<1> QED BY <1>1, <1>2 DEF Applied

(* Nothing changes for a voice with its list and its mixer.                *)
LEMMA SameVoice ==
  ASSUME NEW p, ctrlList'[p] = ctrlList[p], em'[p].motion = em[p].motion
  PROVE  /\ Quiet(p)' = Quiet(p) /\ EndsStopped(p)' = EndsStopped(p) /\ FreesStopped(p)' = FreesStopped(p)
         /\ \A n : EndsBefore(p, n) => EndsBefore(p, n)'
BY DEF Quiet, EndsStopped, FreesStopped, EndsBefore, Stopped

LEMMA ExtendFrees ==
  ASSUME NvTypes, NEW p, NEW s, Extends(p, s), FreesStopped(p), em' = em,
         \A i \in 1 .. Len(s) : s[i].type = "free" => i = 2 /\ s[1].type = "stop"
  PROVE  FreesStopped(p)'
<1>1. /\ p \in Phys /\ Len(ctrlList'[p]) = Len(ctrlList[p]) + Len(s) /\ Len(s) \in 1 .. 2
      /\ \A i \in 1 .. Len(ctrlList'[p]) :
           ctrlList'[p][i] = IF i <= Len(ctrlList[p]) THEN ctrlList[p][i] ELSE s[i - Len(ctrlList[p])]
  BY DEF Extends
<1>2. Len(ctrlList[p]) \in Nat
  BY <1>1, VoiceTypes
<1>3. ASSUME NEW i \in 1 .. Len(ctrlList'[p]), ctrlList'[p][i].type = "free"
      PROVE IF i = 1 THEN Stopped(p)' ELSE ctrlList'[p][i - 1].type = "stop"
  <2>1. CASE i <= Len(ctrlList[p])
    <3>1. i \in 1 .. Len(ctrlList[p]) /\ ctrlList[p][i].type = "free"
      BY <1>1, <1>2, <1>3, <2>1
    <3>2. IF i = 1 THEN Stopped(p) ELSE ctrlList[p][i - 1].type = "stop"
      BY <3>1 DEF FreesStopped
    <3>3. CASE i = 1
      BY <3>2, <3>3 DEF Stopped
    <3>4. CASE i # 1
      <4>1. i - 1 \in 1 .. Len(ctrlList'[p]) /\ i - 1 <= Len(ctrlList[p])
        BY <1>2, <1>3, <2>1, <3>4
      <4> QED BY <1>1, <3>2, <3>4, <4>1
    <3> QED BY <3>3, <3>4
  <2>2. CASE ~(i <= Len(ctrlList[p]))
    <3>1. PICK j \in 1 .. Len(s) : j = i - Len(ctrlList[p])
      BY <1>1, <1>2, <1>3, <2>2
    <3>2. j = 2 /\ s[1].type = "stop"
      <4>1. ctrlList'[p][i] = s[j]
        BY <1>1, <2>2, <3>1
      <4>2. s[j].type = "free"
        BY <1>3, <4>1
      <4> QED BY <4>2
    <3>3. i - 1 \in 1 .. Len(ctrlList'[p]) /\ ~(i - 1 <= Len(ctrlList[p])) /\ i - 1 - Len(ctrlList[p]) = 1 /\ i # 1
      BY <1>1, <1>2, <1>3, <3>1, <3>2
    <3> QED BY <1>1, <3>2, <3>3
  <2> QED BY <2>1, <2>2
<1> QED BY <1>3 DEF FreesStopped

(* A call for an allocated voice, whose list goes on.                      *)
LEMMA SpareExtends ==
  ASSUME NvTypes, SpareInv, em' = em, syn' = syn, syn.phase = "handler", NEW p, NEW s, Extends(p, s),
         \A i \in 1 .. Len(s) : s[i].type = "free" => i = 2 /\ s[1].type = "stop",
         p \notin Members(pLists.free), p \notin Members(pLists.lame),
         Members(pLists'.free) \subseteq Members(pLists.free),
         \A q \in Members(pLists'.lame) : q \in Members(pLists.lame) \/ (q = p /\ EndsStopped(p)' /\ EndsBefore(p, syn.len)')
  PROVE  SpareInv'
<1>1. \A q \in Phys : q # p => ctrlList'[q] = ctrlList[q]
  BY DEF Extends
<1>2. /\ \A q \in Members(pLists.free) : Quiet(q) /\ q \in Phys
      /\ \A q \in Members(pLists.lame) : EndsStopped(q) /\ EndsBefore(q, syn.len) /\ q \in Phys
  <2>1. pLists.free \in Seq(Phys) /\ pLists.lame \in Seq(Phys)
    BY DEF NvTypes
  <2> QED BY <2>1 DEF SpareInv, Members
<1>3. \A q \in Members(pLists'.free) : Quiet(q)'
  BY <1>1, <1>2, SameVoice
<1>4. \A q \in Members(pLists'.lame) : EndsStopped(q)' /\ EndsBefore(q, syn.len)'
  BY <1>1, <1>2, SameVoice
<1>5. FreesStopped(p)'
  <2>1. FreesStopped(p)
    BY DEF SpareInv, Extends
  <2> QED BY <2>1, ExtendFrees
<1>6. \A q \in Phys : FreesStopped(q)'
  BY <1>1, <1>5, SameVoice DEF SpareInv
<1>7. syn'.phase # "idle" /\ syn'.len = syn.len
  OBVIOUS
<1> QED BY <1>3, <1>4, <1>6, <1>7 DEF SpareInv

LEMMA AllocNotSpare ==
  ASSUME ListsOk(pLists), NEW p \in Alloc
  PROVE  p \notin Members(pLists.free) /\ p \notin Members(pLists.lame)
BY DEF ListsOk, Parted, Alloc

LEMMA OwnedAlloc ==
  ASSUME LinkInv, NEW p \in Phys, Owned(p)
  PROVE  p \in Alloc
BY DEF LinkInv, NamesAgree, Owned, Phys

LEMMA SpareCall ==
  ASSUME NvTypes, FrameInv, ListsOk(pLists), LinkInv, TimesInv, SpareInv, Call
  PROVE  SpareInv'
<1>1. syn' = syn /\ syn.phase = "handler" /\ em' = em
  BY DEF Call
<1>2. /\ \A q \in Members(pLists.free) : Quiet(q) /\ q \in Phys
      /\ \A q \in Members(pLists.lame) : EndsStopped(q) /\ EndsBefore(q, syn.len) /\ q \in Phys
  <2>1. pLists.free \in Seq(Phys) /\ pLists.lame \in Seq(Phys)
    BY DEF NvTypes
  <2> QED BY <2>1 DEF SpareInv, Members
<1>3. ASSUME ctrlList' = ctrlList, Members(pLists'.free) \subseteq Members(pLists.free),
             Members(pLists'.lame) \subseteq Members(pLists.lame)
      PROVE  SpareInv'
  <2>1. \A p \in Phys : ctrlList'[p] = ctrlList[p] /\ em'[p].motion = em[p].motion
    BY <1>1, <1>3
  <2>2. \A p \in Members(pLists'.free) : Quiet(p)'
    BY <1>2, <1>3, <2>1, SameVoice
  <2>3. \A p \in Members(pLists'.lame) : EndsStopped(p)' /\ EndsBefore(p, syn.len)'
    BY <1>1, <1>2, <1>3, <2>1, SameVoice
  <2>4. \A p \in Phys : FreesStopped(p)'
    BY <2>1, SameVoice DEF SpareInv
  <2>5. syn'.phase # "idle" /\ syn'.len = syn.len
    BY <1>1
  <2> QED BY <2>2, <2>3, <2>4, <2>5 DEF SpareInv
<1>4. CASE Stays
  BY <1>3, <1>4 DEF Stays, voiceVars
<1>5. CASE \E p \in Phys, u \in NvUpdate : Queues(p, u)
  <2>1. PICK p \in Phys, u \in NvUpdate : Queues(p, u)
    BY <1>5
  <2>2. Extends(p, <<u>>) /\ pLists' = pLists /\ Owned(p) /\ u.type # "free"
    BY <2>1, AddsIs DEF Queues, voiceVars
  <2>3. \A i \in 1 .. Len(<<u>>) : <<u>>[i].type # "free"
    BY <2>2
  <2>4. p \notin Members(pLists.free) /\ p \notin Members(pLists.lame)
    BY <2>2, OwnedAlloc, AllocNotSpare
  <2> QED BY <1>1, <2>2, <2>3, <2>4, SpareExtends
<1>6. CASE \E l \in Logical : Takes(l)
  <2>1. PICK l \in Logical : Takes(l)
    BY <1>6
  <2>2. PICK p \in Phys : TakenTo(pLists, pLists', p) /\ UNCHANGED ctrlList
    BY <2>1, SpareTaken DEF Takes
  <2> QED BY <1>3, <2>2 DEF TakenTo
<1>7. CASE \E l \in Logical, p \in Phys, s \in Seq(NvUpdate) : Steals(l, p, s)
  <2>1. PICK l \in Logical, p \in Phys, s \in Seq(NvUpdate) : Steals(l, p, s)
    BY <1>7
  <2>2. Extends(p, s) /\ pLists' = pLists /\ p \in Alloc
    BY <2>1, AddsIs DEF Steals
  <2>3. \A i \in 1 .. Len(s) : s[i].type # "free"
    BY <2>1 DEF Steals, Update
  <2>4. p \notin Members(pLists.free) /\ p \notin Members(pLists.lame)
    BY <2>2, AllocNotSpare
  <2> QED BY <1>1, <2>2, <2>3, <2>4, SpareExtends
<1>8. ASSUME NEW l \in Logical, NEW p \in Phys, FreesLater(l, p) PROVE SpareInv'
  <2>1. PICK u : u = Update("stop", NvNow + pOffset[p], 0, 0)
    OBVIOUS
  <2>2. PICK v : v = Update("free", NvNow + pOffset[p], 0, 0)
    OBVIOUS
  <2>3. Extends(p, <<u, v>>) /\ pLists' = pLists /\ Owned(p) /\ u.type = "stop"
    <3>1. Extends(p, <<u, v>>)
      BY <1>8, <2>1, <2>2, AddsIs DEF FreesLater
    <3> QED BY <1>8, <2>1, <3>1 DEF FreesLater, Owned, Update
  <2>4. \A i \in 1 .. Len(<<u, v>>) : <<u, v>>[i].type = "free" => i = 2 /\ <<u, v>>[1].type = "stop"
    BY <2>3
  <2>5. p \notin Members(pLists.free) /\ p \notin Members(pLists.lame)
    BY <2>3, OwnedAlloc, AllocNotSpare
  <2> QED BY <1>1, <2>3, <2>4, <2>5, SpareExtends
<1>9. ASSUME NEW l \in Logical, NEW p \in Phys, Retires(l, p) PROVE SpareInv'
  <2>1. PICK u : u = Update("stop", NvNow, 0, 0)
    OBVIOUS
  <2>2. u.type = "stop" /\ u.delta = NvNow
    BY <2>1 DEF Update
  <2>3. Extends(p, <<u>>) /\ Owned(p) /\ pOffset[p] = 0
    BY <1>9, <2>1, AddsIs DEF Retires, Owned
  <2>4. \A i \in 1 .. Len(<<u>>) : <<u>>[i].type # "free"
    BY <2>2
  <2>5. p \notin Members(pLists.free) /\ p \notin Members(pLists.lame)
    BY <2>3, OwnedAlloc, AllocNotSpare
  <2>6. RetiredTo(pLists, pLists', p)
    BY <1>9, LinkRetires
  <2>7. /\ Len(ctrlList'[p]) = Len(ctrlList[p]) + 1 /\ Len(ctrlList[p]) \in Nat
        /\ \A i \in 1 .. Len(ctrlList'[p]) : ctrlList'[p][i] = IF i <= Len(ctrlList[p]) THEN ctrlList[p][i] ELSE <<u>>[i - Len(ctrlList[p])]
    <3>1. Len(<<u>>) = 1
      OBVIOUS
    <3> QED BY <2>3, <3>1, VoiceTypes DEF Extends
  <2>8. ctrlList'[p][Len(ctrlList'[p])] = u
    <3>1. PICK n \in Nat : n = Len(ctrlList[p])
      BY <2>7
    <3>2. n + 1 \in 1 .. Len(ctrlList'[p]) /\ ~(n + 1 <= n) /\ n + 1 - n = 1
      BY <2>7, <3>1
    <3>3. <<u>>[1] = u
      OBVIOUS
    <3> QED BY <2>7, <3>1, <3>2, <3>3
  <2>9. EndsStopped(p)'
    <3>1. ctrlList'[p] # <<>>
      BY <2>7
    <3> QED BY <2>2, <2>8, <3>1 DEF EndsStopped
  <2>10. NvNow \in Int /\ NvNow < syn.len
    <3>1. NvNow \in Int /\ NvNow <= syn.left /\ syn.left \in Nat /\ syn.len \in Nat
      BY NowType DEF NvTypes, SynTypes
    <3>2. syn.left < syn.len
      BY <1>1 DEF FrameInv
    <3> QED BY <3>1, <3>2
  <2>11. EndsBefore(p, syn.len)'
    <3>1. TimesInv'
      <4>1. Call
        OBVIOUS
      <4> QED BY <4>1, TimesCall
    <3>2. pOffset' = pOffset /\ NvNow' = NvNow
      BY <1>1, <1>9 DEF Retires, NvNow
    <3>3. \A i \in 1 .. Len(ctrlList'[p]) : ctrlList'[p][i].delta \in (Earliest(p)') .. NvNow' + pOffset'[p]
      BY <3>1 DEF TimesInv
    <3>4. NvNow' + pOffset'[p] = NvNow
      BY <2>3, <2>10, <3>2
    <3>5. \A i \in 1 .. Len(ctrlList'[p]) : ctrlList'[p][i].delta < syn.len
      <4>1. syn.len \in Nat
        BY DEF NvTypes, SynTypes
      <4>2. (Earliest(p)') \in Int
        BY <1>1, VoiceTypes DEF Earliest
      <4>3. PICK e \in Int : e = Earliest(p)'
        BY <4>2
      <4>4. \A i \in 1 .. Len(ctrlList'[p]) : ctrlList'[p][i].delta \in e .. NvNow
        BY <3>3, <3>4, <4>3
      <4> QED BY <2>10, <4>1, <4>4
    <3> QED BY <1>1, <3>5 DEF EndsBefore
  <2>12. /\ Members(pLists'.free) \subseteq Members(pLists.free)
         /\ \A q \in Members(pLists'.lame) : q \in Members(pLists.lame) \/ (q = p /\ EndsStopped(p)' /\ EndsBefore(p, syn.len)')
    BY <2>6, <2>9, <2>11 DEF RetiredTo
  <2> QED BY <1>1, <2>3, <2>4, <2>5, <2>12, SpareExtends
<1> QED BY <1>4, <1>5, <1>6, <1>7, <1>8, <1>9 DEF Call

(* The voices that are not pulled, and those that keep their updates.      *)
LEMMA SpareStays ==
  ASSUME NvTypes, SpareInv, ctrlList' = ctrlList, UNCHANGED pLists, \A p \in Phys : em'[p].motion = em[p].motion,
         syn'.phase # "idle", syn'.len = syn.len \/ pLists.lame = <<>>
  PROVE  SpareInv'
<1>1. pLists.free \in Seq(Phys) /\ pLists.lame \in Seq(Phys)
  BY DEF NvTypes
<1>2. /\ \A q \in Members(pLists.free) : Quiet(q) /\ q \in Phys
      /\ \A q \in Members(pLists.lame) : EndsStopped(q) /\ EndsBefore(q, syn.len) /\ q \in Phys
  BY <1>1 DEF SpareInv, Members
<1>3. \A q \in Members(pLists'.free) : Quiet(q)'
  BY <1>2, SameVoice
<1>4. \A q \in Members(pLists'.lame) : EndsStopped(q)' /\ EndsBefore(q, syn.len)'
  <2>1. CASE syn'.len = syn.len
    BY <1>2, <2>1, SameVoice
  <2>2. CASE pLists.lame = <<>>
    BY <2>2 DEF Members
  <2> QED BY <2>1, <2>2
<1>5. \A q \in Phys : FreesStopped(q)'
  BY SameVoice DEF SpareInv
<1> QED BY <1>3, <1>4, <1>5 DEF SpareInv

LEMMA SpareOpen ==
  ASSUME NvTypes, FrameInv, SpareInv, AudioFrame \/ HandlerReturns \/ NextVoice
  PROVE  SpareInv'
<1>1. UNCHANGED <<pLists, ctrlList>>
  BY DEF AudioFrame, HandlerReturns, NextVoice, voiceVars
<1>2. em \in [Phys -> Mixer] /\ syn.at \in Phys /\ syn.out \in Int /\ syn.left \in Nat /\ syn.len \in Nat
  BY DEF NvTypes, SynTypes, SAMPLES
<1>3. \A p \in Phys : em'[p].motion = em[p].motion
  <2>1. CASE AudioFrame \/ HandlerReturns
    BY <2>1 DEF AudioFrame, HandlerReturns
  <2>2. CASE NextVoice
    <3>1. em' = [em EXCEPT ![syn.at] = NvRest(em[syn.at])]
      BY <2>2 DEF NextVoice
    <3>2. NvRest(em[syn.at]).motion = em[syn.at].motion
      BY <1>2, RestMotion
    <3> QED BY <1>2, <3>1, <3>2
  <2> QED BY <2>1, <2>2
<1>4. syn'.phase # "idle" /\ (syn'.len = syn.len \/ pLists.lame = <<>>)
  <2>1. CASE AudioFrame
    <3>1. PICK n \in Nat : Opens(syn.left, n)
      BY <2>1, FrameOpens
    <3>2. pLists.lame = <<>>
      BY <2>1 DEF AudioFrame, SpareInv
    <3> QED BY <3>1, <3>2 DEF Opens
  <2>2. CASE HandlerReturns
    <3>1. PICK n \in Nat : Opens(n, syn.len)
      BY <2>2, HandlerOpens
    <3> QED BY <3>1 DEF Opens
  <2>3. CASE NextVoice
    BY <2>3, NextMoves DEF MovesOn, SameFrame
  <2> QED BY <2>1, <2>2, <2>3
<1> QED BY <1>1, <1>3, <1>4, SpareStays

LEMMA SpareBlock ==
  ASSUME NvTypes, FrameInv, ListsOk(pLists), TimesInv, SpareInv, EndBlock
  PROVE  SpareInv'
<1>1. Ends /\ Shifts /\ syn.phase = "pull" /\ ~Due /\ syn.at = NvPVoices
  BY BlockEnds, BlockIs DEF EndBlock
<1>2. em \in [Phys -> Mixer] /\ syn.at \in Phys /\ syn.out \in Int /\ syn.left \in Nat /\ syn.len \in Nat
  BY DEF NvTypes, SynTypes, SAMPLES
<1>3. \A p \in Phys : em'[p].motion = em[p].motion
  <2>1. em' = [em EXCEPT ![syn.at] = NvRest(em[syn.at])]
    BY DEF EndBlock
  <2>2. NvRest(em[syn.at]).motion = em[syn.at].motion
    BY <1>2, RestMotion
  <2> QED BY <1>2, <2>1, <2>2
<1>4. /\ \A q \in Members(pLists.free) : Quiet(q) /\ q \in Phys
      /\ \A q \in Members(pLists.lame) : EndsStopped(q) /\ EndsBefore(q, syn.len) /\ q \in Phys
  <2>1. pLists.free \in Seq(Phys) /\ pLists.lame \in Seq(Phys)
    BY DEF NvTypes
  <2> QED BY <2>1 DEF SpareInv, Members
<1>5. \A p \in Phys : ctrlList[p] \in Seq(NvUpdate) /\ ctrlList'[p] \in Seq(NvUpdate) /\ Len(ctrlList[p]) \in Nat
  BY <1>1, VoiceTypes DEF Shifts, ListTypes
<1>6. /\ \A p \in Phys : Len(ctrlList'[p]) = Len(ctrlList[p])
      /\ \A p \in Phys : \A i \in 1 .. Len(ctrlList[p]) :
           ctrlList'[p][i].type = ctrlList[p][i].type /\ ctrlList'[p][i].delta = ctrlList[p][i].delta - SAMPLES
  BY <1>1 DEF Shifts
<1>7. \A p \in Phys : ctrlList[p] = <<>> <=> ctrlList'[p] = <<>>
  <2>1. ASSUME NEW p \in Phys PROVE ctrlList[p] = <<>> <=> ctrlList'[p] = <<>>
    <3>1. PICK c \in Seq(NvUpdate) : c = ctrlList[p]
      BY <1>5
    <3>2. PICK d \in Seq(NvUpdate) : d = ctrlList'[p]
      BY <1>5
    <3>3. Len(c) = Len(d)
      BY <1>6, <3>1, <3>2
    <3> QED BY <3>1, <3>2, <3>3
  <2> QED BY <2>1
<1>8. \A p \in Phys : Stopped(p)' = Stopped(p)
  BY <1>3 DEF Stopped
<1>9. \A p \in Phys : Quiet(p) => Quiet(p)'
  BY <1>7, <1>8 DEF Quiet
<1>10. ASSUME NEW p \in Phys, EndsStopped(p) PROVE EndsStopped(p)'
  <2>1. CASE ctrlList[p] = <<>>
    BY <1>7, <1>8, <1>10, <2>1 DEF EndsStopped
  <2>2. CASE ctrlList[p] # <<>>
    <3>1. Len(ctrlList[p]) \in 1 .. Len(ctrlList[p])
      BY <1>5, <2>2
    <3> QED BY <1>6, <1>7, <1>10, <2>2, <3>1 DEF EndsStopped
  <2> QED BY <2>1, <2>2
<1>11. ASSUME NEW p \in Phys, EndsBefore(p, syn.len) PROVE EndsBefore(p, syn.len)'
  <2>1. syn'.len = syn.len - SAMPLES
    BY <1>1 DEF Ends
  <2>2. ASSUME NEW i \in 1 .. Len(ctrlList'[p]) PROVE ctrlList'[p][i].delta < syn.len - SAMPLES
    <3>1. i \in 1 .. Len(ctrlList[p])
      BY <1>6
    <3>2. PICK x \in Int : x = ctrlList[p][i].delta
      BY <3>1, VoiceTypes
    <3>3. x < syn.len
      BY <1>11, <3>1, <3>2 DEF EndsBefore
    <3> QED BY <1>2, <1>6, <3>1, <3>2, <3>3 DEF SAMPLES
  <2> QED BY <2>1, <2>2 DEF EndsBefore
<1>12. ASSUME NEW p \in Phys PROVE FreesStopped(p)'
  <2>1. FreesStopped(p)
    BY DEF SpareInv
  <2>2. ASSUME NEW i \in 1 .. Len(ctrlList'[p]), ctrlList'[p][i].type = "free"
        PROVE IF i = 1 THEN Stopped(p)' ELSE ctrlList'[p][i - 1].type = "stop"
    <3>1. i \in 1 .. Len(ctrlList[p]) /\ ctrlList[p][i].type = "free"
      BY <1>6, <2>2
    <3>2. IF i = 1 THEN Stopped(p) ELSE ctrlList[p][i - 1].type = "stop"
      BY <2>1, <3>1 DEF FreesStopped
    <3>3. i # 1 => i - 1 \in 1 .. Len(ctrlList[p])
      BY <1>5, <3>1
    <3> QED BY <1>6, <1>8, <3>2, <3>3
  <2> QED BY <2>2 DEF FreesStopped
<1>13. CASE syn.len # SAMPLES
  <2>1. pLists' = pLists /\ syn'.phase = "pull"
    BY <1>1, <1>13 DEF EndBlock, Ends
  <2> QED BY <1>4, <1>9, <1>10, <1>11, <1>12, <2>1 DEF SpareInv
<1>14. CASE syn.len = SAMPLES
  <2>1. CollectedTo(pLists, pLists')
    BY <1>14, CollectedIs DEF EndBlock
  <2>2. ASSUME NEW p \in Members(pLists.lame) PROVE Quiet(p)
    <3>1. p \in Phys /\ EndsStopped(p) /\ EndsBefore(p, SAMPLES)
      BY <1>4, <1>14
    <3>2. Timed(ctrlList[p], SAMPLES, NvNow + pOffset[p])
      <4>1. CASE p = syn.at
        BY <1>1, <4>1, PulledTimes
      <4>2. CASE p # syn.at
        <5>1. p < syn.at
          BY <1>1, <3>1, <4>2, NvAssumption DEF NvAssumption, Phys
        <5>2. Earliest(p) = SAMPLES
          BY <1>1, <3>1, <4>2, <5>1, AtTypes DEF Earliest, Phys
        <5> QED BY <3>1, <5>2, TimedIs
      <4> QED BY <4>1, <4>2
    <3>3. \A i \in 1 .. Len(ctrlList[p]) : FALSE
      <4>1. ASSUME NEW i \in 1 .. Len(ctrlList[p]) PROVE FALSE
        <5>1. PICK x \in Int : x = ctrlList[p][i].delta
          BY <3>1, VoiceTypes
        <5>2. x < SAMPLES /\ x \in SAMPLES .. NvNow + pOffset[p]
          BY <3>1, <3>2, <5>1 DEF EndsBefore, Timed
        <5> QED BY <5>2, <3>1, VoiceTypes DEF SAMPLES
      <4> QED BY <4>1
    <3>4. ctrlList[p] = <<>>
      <4>1. PICK c \in Seq(NvUpdate) : c = ctrlList[p]
        BY <1>5, <3>1
      <4>2. Len(c) = 0
        BY <3>3, <4>1
      <4> QED BY <4>1, <4>2
    <3> QED BY <3>1, <3>4 DEF Quiet, EndsStopped
  <2>3. \A p \in Members(pLists'.free) : Quiet(p)'
    BY <1>4, <1>9, <2>1, <2>2 DEF CollectedTo
  <2>4. Members(pLists'.lame) = {} /\ pLists'.lame = <<>>
    BY <2>1 DEF CollectedTo, Members
  <2> QED BY <1>12, <2>3, <2>4 DEF SpareInv
<1> QED BY <1>13, <1>14

LEMMA SpareApply ==
  ASSUME NvTypes, FrameInv, ListsOk(pLists), LinkInv, TimesInv, SpareInv, ApplyUpdate
  PROVE  SpareInv'
<1>1. PICK p \in Phys : p = syn.at
  BY ApplyIs DEF Shortens
<1>2. Shortens(p) /\ Due /\ syn.phase = "pull" /\ Update1 = ctrlList[p][1]
  BY <1>1, ApplyIs DEF Due
<1>3. PICK u \in NvUpdate : u = ctrlList[p][1]
  BY <1>2 DEF Shortens
<1>4. PICK n \in Int : n = Span
  BY <1>2, SpanIs DEF SpanInv, SAMPLES
<1>5. PICK m \in Mixer : m = em[p]
  BY DEF NvTypes
<1>6. /\ em'[p] = Applied(m, u, n) /\ \A q \in Phys : q # p => em'[q] = em[q]
  <2>1. em' = [em EXCEPT ![p] = Applied(em[p], u, n)]
    BY <1>1, <1>2, <1>3, <1>4 DEF ApplyUpdate
  <2>2. em \in [Phys -> Mixer]
    BY DEF NvTypes
  <2> QED BY <1>5, <2>1, <2>2
<1>7. (u.type = "stop" => em'[p].motion = "stopped") /\ (u.type = "free" => em'[p] = em[p])
  BY <1>5, <1>6, StopStops
<1>8. \A q \in Phys : q # p => ctrlList'[q] = ctrlList[q]
  BY <1>2 DEF Shortens
<1>9. /\ Len(ctrlList[p]) \in Nat /\ Len(ctrlList[p]) >= 1 /\ Len(ctrlList'[p]) = Len(ctrlList[p]) - 1
      /\ \A i \in 1 .. Len(ctrlList'[p]) : i + 1 \in 1 .. Len(ctrlList[p]) /\ ctrlList'[p][i] = ctrlList[p][i + 1]
      /\ ctrlList'[p] \in Seq(NvUpdate)
  <2>1. ctrlList[p] \in Seq(NvUpdate) /\ ctrlList[p] # <<>>
    BY <1>2, VoiceTypes DEF Shortens
  <2>2. Len(ctrlList[p]) \in Nat /\ Len(ctrlList[p]) >= 1
    BY <2>1
  <2> QED BY <1>2, <2>2 DEF Shortens, ListTypes
<1>10. /\ \A q \in Members(pLists.free) : Quiet(q) /\ q \in Phys /\ q # p
       /\ \A q \in Members(pLists.lame) : EndsStopped(q) /\ EndsBefore(q, syn.len) /\ q \in Phys
  <2>1. pLists.free \in Seq(Phys) /\ pLists.lame \in Seq(Phys)
    BY DEF NvTypes
  <2>2. \A q \in Members(pLists.free) : Quiet(q) /\ q \in Phys
    BY <2>1 DEF SpareInv, Members
  <2>3. ctrlList[p] # <<>>
    BY <1>2 DEF Shortens
  <2> QED BY <2>1, <2>2, <2>3 DEF SpareInv, Members, Quiet
<1>11. syn'.len = syn.len /\ syn'.phase = "pull"
  <2>1. syn' = Advanced(syn)
    BY DEF ApplyUpdate
  <2> QED BY <1>2, <2>1, SpanIs, AdvanceIs DEF AdvancedTo, SameFrame
<1>12. FreesStopped(p)'
  <2>1. ASSUME NEW i \in 1 .. Len(ctrlList'[p]), ctrlList'[p][i].type = "free"
        PROVE IF i = 1 THEN Stopped(p)' ELSE ctrlList'[p][i - 1].type = "stop"
    <3>1. i + 1 \in 1 .. Len(ctrlList[p]) /\ ctrlList[p][i + 1].type = "free" /\ i + 1 # 1 /\ (i + 1) - 1 = i
      BY <1>9, <2>1
    <3>2. ctrlList[p][i].type = "stop"
      BY <3>1 DEF SpareInv, FreesStopped
    <3>3. CASE i = 1
      <4>1. Stopped(p)'
        BY <1>3, <1>7, <3>2, <3>3 DEF Stopped
      <4> QED BY <3>3, <4>1
    <3>4. CASE i # 1
      <4>1. i - 1 \in 1 .. Len(ctrlList'[p]) /\ (i - 1) + 1 = i
        BY <1>9, <2>1, <3>4
      <4>2. ctrlList'[p][i - 1] = ctrlList[p][i]
        BY <1>9, <4>1
      <4> QED BY <3>2, <3>4, <4>2
    <3> QED BY <3>3, <3>4
  <2> QED BY <2>1 DEF FreesStopped
<1>13. \A q \in Phys : FreesStopped(q)'
  BY <1>6, <1>8, <1>12, SameVoice DEF SpareInv
<1>14. p \in Members(pLists.lame) => EndsStopped(p)' /\ EndsBefore(p, syn.len)'
  <2> SUFFICES ASSUME p \in Members(pLists.lame) PROVE EndsStopped(p)' /\ EndsBefore(p, syn.len)'
    OBVIOUS
  <2>1. EndsStopped(p) /\ EndsBefore(p, syn.len)
    BY <1>10
  <2>2. ctrlList[p][Len(ctrlList[p])].type = "stop"
    BY <1>2, <2>1 DEF EndsStopped, Shortens
  <2>3. EndsStopped(p)'
    <3>1. CASE Len(ctrlList[p]) = 1
      <4>1. ctrlList'[p] = <<>>
        BY <1>9, <3>1
      <4>2. Stopped(p)'
        BY <1>3, <1>7, <2>2, <3>1 DEF Stopped
      <4> QED BY <4>1, <4>2 DEF EndsStopped
    <3>2. CASE Len(ctrlList[p]) # 1
      <4>0. PICK c \in Seq(NvUpdate) : c = ctrlList'[p]
        BY <1>9
      <4>1. Len(ctrlList'[p]) \in 1 .. Len(ctrlList'[p]) /\ ctrlList'[p] # <<>> /\ Len(ctrlList'[p]) + 1 = Len(ctrlList[p])
        <5>1. Len(ctrlList[p]) \in Nat /\ Len(ctrlList[p]) >= 1 /\ Len(ctrlList[p]) # 1 /\ Len(c) = Len(ctrlList[p]) - 1
          BY <1>9, <3>2, <4>0
        <5>2. \A k \in Nat : k >= 1 /\ k # 1 => k - 1 >= 1 /\ k - 1 + 1 = k
          OBVIOUS
        <5>3. Len(c) >= 1 /\ Len(c) + 1 = Len(ctrlList[p])
          BY <5>1, <5>2
        <5>4. c # <<>> /\ Len(c) \in 1 .. Len(c)
          BY <5>3
        <5> QED BY <4>0, <5>3, <5>4
      <4>2. ctrlList'[p][Len(ctrlList'[p])] = ctrlList[p][Len(ctrlList[p])]
        BY <1>9, <4>1
      <4> QED BY <2>2, <4>1, <4>2 DEF EndsStopped
    <3> QED BY <3>1, <3>2
  <2>4. EndsBefore(p, syn.len)'
    BY <1>9, <1>11, <2>1 DEF EndsBefore
  <2> QED BY <2>3, <2>4
<1>15. \A q \in Members(pLists.lame) : EndsStopped(q)' /\ EndsBefore(q, syn.len)'
  BY <1>6, <1>8, <1>10, <1>11, <1>14, SameVoice
<1>16. \A q \in Members(pLists.free) : Quiet(q)'
  BY <1>6, <1>8, <1>10, SameVoice
<1>17. CASE UNCHANGED voiceVars
  <2>1. pLists' = pLists
    BY <1>17 DEF voiceVars
  <2> QED BY <1>11, <1>13, <1>15, <1>16, <2>1 DEF SpareInv
<1>18. CASE Update1.type = "free" /\ RetiredTo(pLists, pLists', syn.at) /\ ctrlList'[syn.at] = <<>>
  <2>1. u.type = "free" /\ ctrlList'[p] = <<>> /\ RetiredTo(pLists, pLists', p)
    BY <1>1, <1>2, <1>3, <1>18
  <2>2. Stopped(p)
    <3>1. 1 \in 1 .. Len(ctrlList[p])
      BY <1>9
    <3> QED BY <1>3, <2>1, <3>1 DEF SpareInv, FreesStopped
  <2>3. Stopped(p)'
    BY <1>7, <2>1, <2>2 DEF Stopped
  <2>4. EndsStopped(p)' /\ EndsBefore(p, syn.len)'
    <3>1. \A i \in 1 .. Len(<<>>) : FALSE
      OBVIOUS
    <3> QED BY <2>1, <2>3, <3>1 DEF EndsStopped, EndsBefore
  <2> QED BY <1>11, <1>13, <1>15, <1>16, <2>1, <2>4 DEF SpareInv, RetiredTo
<1> QED BY <1>17, <1>18, LinkApplies

-----------------------------------------------------------------------------
(* The invariant.                                                          *)

LEMMA VoiceStep ==
  ASSUME VoiceInd, [NvNext]_nvVars
  PROVE  VoiceInd'
<1>1. CASE AudioFrame \/ HandlerReturns \/ ApplyUpdate \/ NextVoice \/ EndBlock \/ Call
  <2>1. NvTypes /\ FrameInv /\ ListsOk(pLists) /\ LinkInv /\ TimesInv /\ SpareInv /\ UpdatesKept
    BY DEF VoiceInd
  <2>2. NvTypes' /\ FrameInv' /\ ListsOk(pLists)' /\ LinkInv'
    BY <1>1, <2>1, TypesStep
  <2>3. TimesInv'
    BY <1>1, <2>1, TimesStep
  <2>4. UpdatesKept'
    BY <1>1, <2>1, KeptStep
  <2>5. SpareInv'
    BY <1>1, <2>1, SpareOpen, SpareCall, SpareBlock, SpareApply
  <2> QED BY <2>2, <2>3, <2>4, <2>5 DEF VoiceInd
<1>2. CASE UNCHANGED nvVars
  BY <1>2 DEF nvVars, VoiceInd, NvTypes, FrameInv, ListsOk, Parted, LinkInv, NamesAgree, AllocNamed, OffsetsAlloc,
    FreesLast, Alloc, Owned, Freed, TimesInv, Earliest, NvNow, SpareInv, Quiet, EndsStopped, EndsBefore, FreesStopped,
    Stopped, UpdatesKept
<1>3. CASE NvNext
  BY <1>1, <1>3, NextIs DEF VoiceInd
<1> QED BY <1>2, <1>3

LEMMA NoneQueued ==
  ASSUME NEW c, ListTypes(c), \A p \in Phys : c[p] = <<>>
  PROVE  InLists(c, NvPVoices) = 0
<1> DEFINE T == {n \in Nat : n <= NvPVoices => InLists(c, n) = 0}
<1>1. NvPVoices \in Nat
  BY NvAssumption DEF NvAssumption
<1>2. 0 \in T
  BY QueueStep
<1>3. ASSUME NEW n \in Nat, n \in T PROVE n + 1 \in T
  <2> SUFFICES ASSUME n + 1 <= NvPVoices PROVE InLists(c, n + 1) = 0
    OBVIOUS
  <2>1. n + 1 \in 1 .. NvPVoices /\ (n + 1) - 1 = n /\ n <= NvPVoices
    BY <1>1
  <2>2. Len(c[n + 1]) = 0 /\ InLists(c, n) = 0
    BY <1>3, <2>1 DEF Phys
  <2>3. InLists(c, n + 1) = InLists(c, (n + 1) - 1) + Len(c[n + 1])
    BY <2>1, QueueStep
  <2> QED BY <2>1, <2>2, <2>3
<1>4. NvPVoices \in T
  <2> HIDE DEF T
  <2> QED BY <1>1, <1>2, <1>3, NatSetInduction
<1> QED BY <1>1, <1>4

LEMMA VoiceInit == NvInit => VoiceInd
<1> SUFFICES ASSUME NvInit PROVE VoiceInd
  OBVIOUS
<1> DEFINE N == NvPVoices
           f == [i \in Phys |-> N + 1 - i]
<1>1. N \in Nat \ {0} /\ NvUpdates \in Nat /\ nvClient \in NvPlayers
  BY NvAssumption DEF NvAssumption, NvInit
<1>2. /\ pLists = [free |-> f, lame |-> <<>>, alloc |-> <<>>]
      /\ pvoice = [l \in Logical |-> 0] /\ vvoice = [p \in Phys |-> 0]
      /\ pOffset = [p \in Phys |-> 0] /\ ctrlList = [p \in Phys |-> <<>>]
      /\ paramList = NvUpdates /\ em = [p \in Phys |-> PVoiceNew]
      /\ syn = [phase |-> "idle", left |-> 0, cur |-> 0, len |-> 0, at |-> 1, out |-> SAMPLES, clock |-> 0]
  BY DEF NvInit
<1>3. f \in Seq(Phys) /\ Len(f) = N /\ \A i \in 1 .. N : f[i] = N + 1 - i /\ N + 1 - i \in 1 .. N
  BY <1>1 DEF Phys
<1> HIDE DEF f, N
<1>4. Distinct(f) /\ Members(f) = Phys
  <2>1. ASSUME NEW i \in 1 .. Len(f), NEW j \in 1 .. Len(f), f[i] = f[j] PROVE i = j
    BY <1>1, <1>3, <2>1
  <2>2. ASSUME NEW p \in Phys PROVE p \in Members(f)
    <3>1. N + 1 - p \in 1 .. N /\ N + 1 - (N + 1 - p) = p
      BY <1>1 DEF Phys, N
    <3>2. f[N + 1 - p] = p
      BY <1>3, <3>1
    <3> QED BY <1>3, <3>1, <3>2 DEF Members
  <2>3. \A p \in Members(f) : p \in Phys
    BY <1>3 DEF Members, Phys, N
  <2> QED BY <2>1, <2>2, <2>3 DEF Distinct
<1>5. <<>> \in Seq(Phys) /\ Members(<<>>) = {} /\ Distinct(<<>>) /\ \A i \in 1 .. Len(<<>>) : FALSE
  BY DEF Members, Distinct
<1>6. pLists.free = f /\ pLists.lame = <<>> /\ pLists.alloc = <<>>
  BY <1>2
<1>7. ListsOk(pLists)
  <2>1. pLists \in [free : Seq(Phys), lame : Seq(Phys), alloc : Seq(Phys)]
    BY <1>2, <1>3, <1>5
  <2> QED BY <1>4, <1>5, <1>6, <2>1 DEF ListsOk, Parted
<1>8. NvTypes
  <2>1. em \in [Phys -> Mixer]
    <3>1. PVoiceNew \in Mixer
      BY DEF PVoiceNew, Mixer
    <3> QED BY <1>2, <3>1
  <2>2. syn \in SynTypes
    <3>1. 1 \in Phys
      BY <1>1 DEF Phys, N
    <3> QED BY <1>2, <3>1 DEF SynTypes, SAMPLES
  <2>3. ctrlList \in [Phys -> Seq(NvUpdate)]
    BY <1>2
  <2>4. pLists \in [free : Seq(Phys), lame : Seq(Phys), alloc : Seq(Phys)]
    BY <1>7 DEF ListsOk
  <2>5. pvoice \in [Logical -> {0} \cup Phys] /\ vvoice \in [Phys -> {0} \cup Logical] /\ pOffset \in [Phys -> {0, 552}]
    BY <1>2
  <2> QED BY <1>1, <1>2, <2>1, <2>2, <2>3, <2>4, <2>5 DEF NvTypes
<1>9. FrameInv
  BY <1>2 DEF FrameInv, SAMPLES
<1>10. \A p \in Phys : ctrlList[p] = <<>> /\ Stopped(p) /\ pOffset[p] = 0
  BY <1>2 DEF Stopped, PVoiceNew
<1>11. LinkInv
  <2>1. Alloc = {}
    BY <1>5, <1>6 DEF Alloc
  <2>2. FreesLast
    BY <1>5, <1>10 DEF FreesLast
  <2> QED BY <1>2, <1>10, <2>1, <2>2 DEF LinkInv, NamesAgree, AllocNamed, OffsetsAlloc
<1>12. TimesInv
  BY <1>5, <1>10 DEF TimesInv
<1>13. SpareInv
  <2>1. \A p \in Phys : FreesStopped(p)
    BY <1>5, <1>10 DEF FreesStopped
  <2> QED BY <1>4, <1>5, <1>6, <1>10, <2>1 DEF SpareInv, Quiet
<1>14. UpdatesKept
  <2>1. InLists(ctrlList, NvPVoices) = 0
    <3>1. ListTypes(ctrlList)
      BY <1>2 DEF ListTypes
    <3> QED BY <1>10, <3>1, NoneQueued
  <2> QED BY <1>1, <1>2, <2>1 DEF UpdatesKept
<1> QED BY <1>7, <1>8, <1>9, <1>11, <1>12, <1>13, <1>14 DEF VoiceInd

LEMMA OnceOn ==
  ASSUME NEW S, NEW s \in Seq(S), Distinct(s), NEW p
  PROVE  Cardinality({i \in DOMAIN s : s[i] = p}) = IF p \in Members(s) THEN 1 ELSE 0
<1> DEFINE T == {i \in DOMAIN s : s[i] = p}
<1>1. CASE p \in Members(s)
  <2>1. PICK k \in 1 .. Len(s) : s[k] = p
    BY <1>1 DEF Members
  <2>2. T = {k}
    BY <2>1 DEF Distinct
  <2>3. Cardinality({k}) = 1
    BY FS_Singleton
  <2> QED BY <1>1, <2>2, <2>3
<1>2. CASE p \notin Members(s)
  <2>1. T = {}
    BY <1>2 DEF Members
  <2>2. Cardinality({}) = 0
    BY FS_EmptySet
  <2> QED BY <1>2, <2>1, <2>2
<1> QED BY <1>1, <1>2

LEMMA VoicesAreLinked == ASSUME VoiceInd PROVE VoicesLinked
<1>1. /\ pLists.free \in Seq(Phys) /\ pLists.lame \in Seq(Phys) /\ pLists.alloc \in Seq(Phys)
      /\ DOMAIN pLists = {"free", "lame", "alloc"} /\ Parted(pLists.free, pLists.lame, pLists.alloc)
  BY DEF VoiceInd, ListsOk
<1>2. ASSUME NEW p
      PROVE  /\ OnList(p).free = (IF p \in Members(pLists.free) THEN 1 ELSE 0)
             /\ OnList(p).lame = (IF p \in Members(pLists.lame) THEN 1 ELSE 0)
             /\ OnList(p).alloc = (IF p \in Members(pLists.alloc) THEN 1 ELSE 0)
  <2>1. \A k \in {"free", "lame", "alloc"} : OnList(p)[k] = Cardinality({i \in DOMAIN pLists[k] : pLists[k][i] = p})
    BY <1>1 DEF OnList
  <2>2. \A k \in {"free", "lame", "alloc"} : pLists[k] \in Seq(Phys) /\ Distinct(pLists[k])
    BY <1>1 DEF Parted
  <2>3. \A k \in {"free", "lame", "alloc"} : OnList(p)[k] = IF p \in Members(pLists[k]) THEN 1 ELSE 0
    BY <2>1, <2>2, OnceOn
  <2> QED BY <2>3
<1>3. \A p \in Phys : OnList(p).free + OnList(p).lame + OnList(p).alloc = 1
  BY <1>1, <1>2 DEF Parted
<1>4. \A l \in Logical : pvoice[l] # 0 => vvoice[pvoice[l]] = l /\ OnList(pvoice[l]).alloc = 1
  BY <1>2 DEF VoiceInd, LinkInv, NamesAgree, Alloc
<1>5. ASSUME NEW p \in Phys, OnList(p).alloc = 1
      PROVE pvoice[vvoice[p]] = p \/ \E i \in DOMAIN ctrlList[p] : ctrlList[p][i].type = "free"
  <2>1. p \in Alloc
    BY <1>2, <1>5 DEF Alloc
  <2>2. pvoice[vvoice[p]] = p \/ Freed(p)
    BY <2>1 DEF VoiceInd, LinkInv, AllocNamed
  <2>3. DOMAIN ctrlList[p] = 1 .. Len(ctrlList[p])
    BY VoiceTypes DEF VoiceInd
  <2> QED BY <2>2, <2>3 DEF Freed
<1> QED BY <1>3, <1>4, <1>5 DEF VoicesLinked

LEMMA UpdatesOnTime == ASSUME VoiceInd PROVE OnTime
<1>0. NvTypes /\ FrameInv /\ TimesInv
  BY DEF VoiceInd
<1>1. Due => Span >= 0 /\ Update1.delta - (SAMPLES - syn.out + Span) \in -SAMPLES + 1 .. SAMPLES - 1
  <2> SUFFICES ASSUME Due PROVE Span >= 0 /\ Update1.delta - (SAMPLES - syn.out + Span) \in -SAMPLES + 1 .. SAMPLES - 1
    OBVIOUS
  <2>1. SpanInv
    BY <1>0, SpanIs
  <2>2. PICK d \in Int : d = Update1.delta
    BY <2>1 DEF SpanInv
  <2>3. PICK k \in {0, SAMPLES} : k = Span
    BY <2>1 DEF SpanInv
  <2> QED BY <2>1, <2>2, <2>3 DEF SpanInv, SAMPLES
<1>2. ASSUME syn.phase = "idle", NEW p \in Phys, NEW i \in DOMAIN ctrlList[p] PROVE ctrlList[p][i].delta >= 0
  <2>1. i \in 1 .. Len(ctrlList[p]) /\ NvNow + pOffset[p] \in Int
    BY <1>0, <1>2, VoiceTypes
  <2>2. Earliest(p) = 0
    BY <1>2 DEF Earliest
  <2> QED BY <1>0, <2>1, <2>2 DEF TimesInv
<1> QED BY <1>1, <1>2 DEF OnTime

LEMMA SpareAreSilent == ASSUME VoiceInd PROVE SpareSilent
<1>1. DOMAIN pLists.free = 1 .. Len(pLists.free)
  BY DEF VoiceInd, ListsOk
<1> QED BY <1>1 DEF VoiceInd, SpareInv, Quiet, Stopped, Members, SpareSilent

(* Every physical voice is on one list and agrees with its logical voice,  *)
(* no update is lost or handed out twice, each takes effect within a block *)
(* of its time, and a spare voice is silent (n_synallocvoice.c,            *)
(* n_synthesizer.c, n_env.c).                                              *)
THEOREM VoicesAlwaysKept == NvSpec => [](VoicesLinked /\ UpdatesKept /\ OnTime /\ SpareSilent)
<1>1. NvInit => VoiceInd
  BY VoiceInit
<1>2. VoiceInd /\ [NvNext]_nvVars => VoiceInd'
  BY VoiceStep
<1>3. VoiceInd => VoicesLinked /\ UpdatesKept /\ OnTime /\ SpareSilent
  BY VoicesAreLinked, UpdatesOnTime, SpareAreSilent DEF VoiceInd
<1> QED BY <1>1, <1>2, <1>3, PTL DEF NvSpec

-----------------------------------------------------------------------------
(* A stolen voice that fades.                                              *)

(* A theft that finds one update in the pool fades the voice and does not  *)
(* stop it: a voice that had not been started is then started by its new   *)
(* owner, whose stop can come before it has faded.  With two it does both. *)
TheftsStop == \A l \in Logical : Steal(l) => paramList > 1

LEMMA ExtendFades ==
  ASSUME NvTypes, NEW p, NEW s, Extends(p, s), FadesListed(ctrlList[p]), FadesListed(s)
  PROVE  FadesListed(ctrlList'[p])
<1>1. /\ p \in Phys /\ Len(ctrlList'[p]) = Len(ctrlList[p]) + Len(s) /\ Len(s) \in Nat
      /\ \A i \in 1 .. Len(ctrlList'[p]) :
           ctrlList'[p][i] = IF i <= Len(ctrlList[p]) THEN ctrlList[p][i] ELSE s[i - Len(ctrlList[p])]
  BY DEF Extends
<1>2. PICK c : c = ctrlList[p]
  OBVIOUS
<1>3. PICK d : d = ctrlList'[p]
  OBVIOUS
<1>4. PICK n \in Nat : n = Len(c)
  BY <1>1, <1>2, VoiceTypes
<1>5. PICK k \in Nat : k = Len(s)
  BY <1>1
<1>6. Len(d) = n + k /\ \A i \in 1 .. n + k : d[i] = IF i <= n THEN c[i] ELSE s[i - n]
  BY <1>1, <1>2, <1>3, <1>4, <1>5
<1>7. ASSUME NEW i \in 1 .. n + k
      PROVE  /\ d[i].type \in {"volume", "startalt"} => d[i].data = 32767 \/ Fades(d[i])
             /\ Fades(d[i]) => /\ d[i].ramp = 368 /\ i < n + k /\ d[i + 1].type = "stop"
                               /\ d[i + 1].delta = d[i].delta + 552
  <2>1. CASE i <= n
    <3>1. i \in 1 .. n /\ d[i] = c[i]
      BY <1>6, <2>1
    <3>2. /\ c[i].type \in {"volume", "startalt"} => c[i].data = 32767 \/ Fades(c[i])
          /\ Fades(c[i]) => c[i].ramp = 368 /\ i < n /\ c[i + 1].type = "stop" /\ c[i + 1].delta = c[i].delta + 552
      BY <1>2, <1>4, <3>1 DEF FadesListed
    <3>3. i < n => i + 1 \in 1 .. n + k /\ i + 1 <= n /\ i < n + k
      OBVIOUS
    <3>4. i < n => d[i + 1] = c[i + 1] /\ i < n + k
      BY <1>6, <3>3
    <3> QED BY <3>1, <3>2, <3>4
  <2>2. CASE ~(i <= n)
    <3>1. PICK j \in 1 .. k : j = i - n
      BY <2>2
    <3>2. d[i] = s[j]
      BY <1>6, <2>2, <3>1
    <3>3. /\ s[j].type \in {"volume", "startalt"} => s[j].data = 32767 \/ Fades(s[j])
          /\ Fades(s[j]) => s[j].ramp = 368 /\ j < k /\ s[j + 1].type = "stop" /\ s[j + 1].delta = s[j].delta + 552
      BY <1>5 DEF FadesListed
    <3>4. j < k => i + 1 \in 1 .. n + k /\ ~(i + 1 <= n) /\ i + 1 - n = j + 1 /\ i < n + k
      BY <3>1
    <3>5. j < k => d[i + 1] = s[j + 1] /\ i < n + k
      BY <1>6, <3>4
    <3> QED BY <3>2, <3>3, <3>5
  <2> QED BY <2>1, <2>2
<1>8. \A i \in 1 .. n + k :
        /\ d[i].type \in {"volume", "startalt"} => d[i].data = 32767 \/ Fades(d[i])
        /\ Fades(d[i]) => d[i].ramp = 368 /\ i < n + k /\ d[i + 1].type = "stop" /\ d[i + 1].delta = d[i].delta + 552
  BY <1>7
<1> QED BY <1>3, <1>6, <1>8 DEF FadesListed

LEMMA FadeExtends ==
  ASSUME NvTypes, FadeInv, em' = em, syn' = syn, NEW p, NEW s, Extends(p, s), FadesListed(s)
  PROVE  FadeInv'
<1>1. \A q \in Phys : q # p => ctrlList'[q] = ctrlList[q]
  BY DEF Extends
<1>2. \A q \in Phys : Done(q)' = Done(q)
  BY DEF Done
<1>3. p \in Phys /\ FadesListed(ctrlList[p]) /\ FadesOn(em[p], ctrlList[p], Done(p))
  BY DEF FadeInv, Extends
<1>4. FadesListed(ctrlList'[p])
  BY <1>3, ExtendFades
<1>5. ctrlList[p] # <<>> => ctrlList'[p] # <<>> /\ ctrlList'[p][1] = ctrlList[p][1]
  <2>1. ctrlList[p] \in Seq(NvUpdate) /\ ctrlList'[p] \in Seq(NvUpdate)
    BY <1>3, VoiceTypes DEF Extends, ListTypes
  <2>2. Len(ctrlList[p]) \in Nat /\ Len(s) \in 1 .. 2 /\ (ctrlList[p] # <<>> => Len(ctrlList[p]) >= 1)
    BY <2>1 DEF Extends
  <2>3. /\ Len(ctrlList'[p]) = Len(ctrlList[p]) + Len(s)
        /\ \A i \in 1 .. Len(ctrlList'[p]) : i <= Len(ctrlList[p]) => ctrlList'[p][i] = ctrlList[p][i]
    BY DEF Extends
  <2>4. PICK c \in Seq(NvUpdate) : c = ctrlList'[p]
    BY <2>1
  <2>5. ASSUME ctrlList[p] # <<>> PROVE Len(c) >= 1 /\ 1 \in 1 .. Len(ctrlList'[p]) /\ 1 <= Len(ctrlList[p])
    BY <2>2, <2>3, <2>4, <2>5
  <2>6. Len(c) >= 1 => c # <<>>
    OBVIOUS
  <2> QED BY <2>3, <2>4, <2>5, <2>6
<1>6. FadesOn(em[p], ctrlList'[p], Done(p))
  BY <1>3, <1>5 DEF FadesOn
<1>7. \A q \in Phys : FadesListed(ctrlList'[q]) /\ FadesOn(em'[q], ctrlList'[q], Done(q)')
  BY <1>1, <1>2, <1>4, <1>6 DEF FadeInv
<1> QED BY <1>7 DEF FadeInv, FadesListed, FadesOn, Fades

LEMMA OneListed ==
  ASSUME NEW u, u.type \in {"volume", "startalt"} => u.data = 32767
  PROVE  FadesListed(<<u>>)
<1>1. Len(<<u>>) = 1 /\ \A i \in 1 .. Len(<<u>>) : i = 1
  OBVIOUS
<1>2. <<u>>[1] = u /\ ~Fades(u)
  BY DEF Fades
<1> QED BY <1>1, <1>2 DEF FadesListed

LEMMA TwoListed ==
  ASSUME NEW u, NEW v, v.type \notin {"volume", "startalt"},
         u.type \in {"volume", "startalt"} => u.data = 32767 \/ Fades(u),
         Fades(u) => u.ramp = 368 /\ v.type = "stop" /\ v.delta = u.delta + 552
  PROVE  FadesListed(<<u, v>>)
<1> DEFINE s == <<u, v>>
<1>1. Len(s) = 2 /\ s[1] = u /\ s[2] = v
  OBVIOUS
<1> HIDE DEF s
<1>2. \A i \in 1 .. Len(s) : (i = 1 /\ i < Len(s) /\ s[i] = u /\ s[i + 1] = v) \/ s[i] = v
  <2>1. \A i \in 1 .. 2 : i = 1 \/ i = 2
    OBVIOUS
  <2> QED BY <1>1, <2>1
<1>3. ~Fades(v)
  BY DEF Fades
<1>4. FadesListed(s)
  BY <1>2, <1>3 DEF FadesListed
<1> QED BY <1>4 DEF s

LEMMA FadeCall ==
  ASSUME NvTypes, ListsOk(pLists), LinkInv, FadeInv, Call, TheftsStop
  PROVE  FadeInv'
<1>1. em' = em /\ syn' = syn
  BY DEF Call
<1>2. ASSUME ctrlList' = ctrlList PROVE FadeInv'
  BY <1>1, <1>2 DEF FadeInv, FadesListed, FadesOn, Done
<1>3. CASE Stays
  BY <1>2, <1>3 DEF Stays
<1>4. CASE \E p \in Phys, u \in NvUpdate : Queues(p, u)
  <2>1. PICK p \in Phys, u \in NvUpdate : Queues(p, u)
    BY <1>4
  <2>2. Extends(p, <<u>>) /\ FadesListed(<<u>>)
    BY <2>1, AddsIs, OneListed DEF Queues
  <2> QED BY <1>1, <2>2, FadeExtends
<1>5. CASE \E l \in Logical : Takes(l)
  BY <1>2, <1>5 DEF Takes, TakeSpare
<1>6. CASE \E l \in Logical, p \in Phys, s \in Seq(NvUpdate) : Steals(l, p, s)
  <2>1. PICK l \in Logical, p \in Phys, s \in Seq(NvUpdate) : Steals(l, p, s)
    BY <1>6
  <2>2. PICK u : u = Update("volume", NvNow, 0, 368)
    OBVIOUS
  <2>3. PICK v : v = Update("stop", NvNow + 552, 0, 0)
    OBVIOUS
  <2>4. Extends(p, s)
    BY <2>1, AddsIs DEF Steals
  <2>5. s = <<u, v>>
    <3>1. paramList > 1 /\ paramList \in Nat
      BY <2>1 DEF Steals, TheftsStop, NvTypes
    <3>2. ~(paramList <= 1)
      BY <3>1
    <3> QED BY <2>1, <2>2, <2>3, <3>2 DEF Steals
  <2>6. FadesListed(<<u, v>>)
    <3>1. Fades(u) /\ u.ramp = 368 /\ v.type = "stop" /\ v.delta = u.delta + 552
      BY <2>2, <2>3 DEF Update, Fades
    <3> QED BY <3>1, TwoListed
  <2> QED BY <1>1, <2>4, <2>5, <2>6, FadeExtends
<1>7. CASE \E l \in Logical, p \in Phys : Retires(l, p) \/ FreesLater(l, p)
  <2>1. PICK l \in Logical, p \in Phys : Retires(l, p) \/ FreesLater(l, p)
    BY <1>7
  <2>2. CASE Retires(l, p)
    <3>1. PICK u : u = Update("stop", NvNow, 0, 0)
      OBVIOUS
    <3>2. Extends(p, <<u>>) /\ FadesListed(<<u>>)
      <4>1. u.type = "stop"
        BY <3>1 DEF Update
      <4>2. FadesListed(<<u>>)
        BY <4>1, OneListed
      <4> QED BY <2>2, <3>1, <4>2, AddsIs DEF Retires
    <3> QED BY <1>1, <3>2, FadeExtends
  <2>3. CASE FreesLater(l, p)
    <3>1. PICK u : u = Update("stop", NvNow + pOffset[p], 0, 0)
      OBVIOUS
    <3>2. PICK v : v = Update("free", NvNow + pOffset[p], 0, 0)
      OBVIOUS
    <3>3. u.type = "stop" /\ v.type = "free" /\ ~Fades(u)
      BY <3>1, <3>2 DEF Update, Fades
    <3>4. Extends(p, <<u, v>>) /\ FadesListed(<<u, v>>)
      BY <2>3, <3>1, <3>2, <3>3, AddsIs, TwoListed DEF FreesLater
    <3> QED BY <1>1, <3>4, FadeExtends
  <2> QED BY <2>1, <2>2, <2>3
<1> QED BY <1>3, <1>4, <1>5, <1>6, <1>7 DEF Call

LEMMA FadeOpen ==
  ASSUME NvTypes, FrameInv, FadeInv, AudioFrame \/ HandlerReturns
  PROVE  FadeInv'
<1>1. PICK m \in Nat, n \in Nat : Opens(m, n)
  <2>1. syn.left \in Nat /\ syn.len \in Nat
    BY DEF NvTypes, SynTypes
  <2> QED BY <2>1, FrameOpens, HandlerOpens
<1>2. UNCHANGED <<em, ctrlList>> /\ syn.phase \in {"idle", "handler"}
  BY DEF AudioFrame, HandlerReturns
<1>3. ASSUME NEW p \in Phys PROVE Done(p)' = Done(p)
  <2>1. Done(p) = 0
    BY <1>2 DEF Done
  <2>2. p \in Nat /\ p >= 1
    BY DEF Phys
  <2>3. syn'.phase = "handler" \/ (syn'.phase = "pull" /\ syn'.at = 1 /\ syn'.out = SAMPLES)
    BY <1>1 DEF Opens
  <2> QED BY <2>1, <2>2, <2>3 DEF Done, SAMPLES
<1>4. \A p \in Phys : FadesListed(ctrlList'[p]) /\ FadesOn(em'[p], ctrlList'[p], Done(p)')
  BY <1>2, <1>3 DEF FadeInv
<1> QED BY <1>4 DEF FadeInv, FadesListed, FadesOn, Fades

LEMMA PulledFade ==
  ASSUME NEW m \in Mixer, NEW n \in Int
  PROVE  /\ PullSubFrame(m, n).volume = m.volume /\ PullSubFrame(m, n).segEnd = m.segEnd
         /\ PullSubFrame(m, n).delta = IF m.motion # "playing" \/ n = 0 THEN m.delta ELSE m.delta + SAMPLES
<1>1. Solved(m).volume = m.volume /\ Solved(m).segEnd = m.segEnd /\ Solved(m).delta = m.delta
  BY DEF Solved, Mixer
<1>2. Solved(m) \in Mixer
  BY PulledType
<1>3. \A k \in Mixer : /\ [k EXCEPT !.delta = @ + SAMPLES].volume = k.volume
                       /\ [k EXCEPT !.delta = @ + SAMPLES].segEnd = k.segEnd
                       /\ [k EXCEPT !.delta = @ + SAMPLES].delta = k.delta + SAMPLES
  BY DEF Mixer
<1> QED BY <1>1, <1>2, <1>3 DEF PullSubFrame

LEMMA RestFade ==
  ASSUME NEW m \in Mixer, syn.out \in Int
  PROVE  /\ NvRest(m).volume = m.volume /\ NvRest(m).segEnd = m.segEnd
         /\ NvRest(m).delta = LET d == IF m.motion # "playing" \/ syn.out = 0 THEN m.delta ELSE m.delta + SAMPLES
                              IN IF d > m.segEnd THEN m.segEnd ELSE d
<1>1. PICK k \in Mixer : k = PullSubFrame(m, syn.out)
  BY PulledType
<1>2. EndSegment(k).volume = k.volume /\ EndSegment(k).segEnd = k.segEnd
  BY DEF EndSegment, Mixer
<1>3. EndSegment(k).delta = IF k.delta > k.segEnd THEN k.segEnd ELSE k.delta
  BY DEF EndSegment, Mixer
<1> QED BY <1>1, <1>2, <1>3, PulledFade DEF NvRest

(* The rest of a block is pulled, and a fade is a block further on.        *)
LEMMA FadeRests ==
  ASSUME NvTypes, FrameInv, TimesInv, FadeInv, syn.phase = "pull", ~Due
  PROVE  FadesOn(NvRest(em[syn.at]), ctrlList[syn.at], SAMPLES)
<1>1. PICK p \in Phys : p = syn.at
  BY DEF NvTypes, SynTypes
<1>2. PICK m \in Mixer : m = em[p]
  BY DEF NvTypes
<1>3. PICK c \in Seq(NvUpdate) : c = ctrlList[p]
  BY VoiceTypes
<1>4. FadesOn(m, c, SAMPLES - syn.out) /\ syn.out \in {0, SAMPLES}
  <2>1. Done(p) = SAMPLES - syn.out /\ syn.out \in {0, SAMPLES}
    BY <1>1, AtTypes DEF Done
  <2> QED BY <1>2, <1>3, <2>1 DEF FadeInv
<1>5. PICK r \in Mixer : r = NvRest(m)
  <2>1. syn.out \in Int
    BY <1>4 DEF SAMPLES
  <2> QED BY <2>1, RestType
<1>6. /\ r.volume = m.volume /\ r.segEnd = m.segEnd /\ r.motion = m.motion
      /\ r.delta = LET d == IF m.motion # "playing" \/ syn.out = 0 THEN m.delta ELSE m.delta + SAMPLES
                   IN IF d > m.segEnd THEN m.segEnd ELSE d
  <2>1. syn.out \in Int
    BY <1>4 DEF SAMPLES
  <2> QED BY <1>5, <2>1, RestFade, RestMotion
<1>7. ASSUME r.volume = 0
      PROVE  /\ c # <<>> /\ c[1].type = "stop"
             /\ r.motion = "playing" =>
                  /\ r.segEnd = 368 /\ r.delta % SAMPLES = 0
                  /\ r.delta >= 368 \/ c[1].delta - SAMPLES + r.delta >= 460
  <2>1. c # <<>> /\ c[1].type = "stop"
    BY <1>4, <1>6, <1>7 DEF FadesOn
  <2>2. ASSUME r.motion = "playing"
        PROVE  /\ r.segEnd = 368 /\ r.delta % SAMPLES = 0
               /\ r.delta >= 368 \/ c[1].delta - SAMPLES + r.delta >= 460
    <3>1. PICK k \in Nat : k = m.delta
      BY DEF Mixer
    <3>2. PICK x \in Int : x = c[1].delta
      <4>1. c[1] \in NvUpdate
        BY <2>1
      <4> QED BY <4>1 DEF NvUpdate
    <3>3. /\ m.segEnd = 368 /\ k % 184 = 0 /\ (k >= 368 \/ x - (184 - syn.out) + k >= 460)
          /\ m.motion = "playing"
      BY <1>4, <1>6, <1>7, <2>2, <3>1, <3>2 DEF FadesOn, SAMPLES
    <3>4. PICK d \in Nat : d = IF syn.out = 0 THEN k ELSE k + 184
      OBVIOUS
    <3>5. r.delta = IF d > 368 THEN 368 ELSE d
      BY <1>6, <3>1, <3>3, <3>4 DEF SAMPLES
    <3>6. d % 184 = 0 /\ 368 % 184 = 0 /\ (d >= 368 \/ x - 184 + d >= 460)
      BY <1>4, <3>3, <3>4 DEF SAMPLES
    <3> QED BY <1>6, <3>2, <3>3, <3>5, <3>6 DEF SAMPLES
  <2> QED BY <2>1, <2>2
<1> QED BY <1>1, <1>2, <1>3, <1>5, <1>7 DEF FadesOn

LEMMA FadeNext ==
  ASSUME NvTypes, FrameInv, TimesInv, FadeInv, NextVoice
  PROVE  FadeInv'
<1>1. MovesOn /\ syn.phase = "pull" /\ ~Due /\ ctrlList' = ctrlList /\ em' = [em EXCEPT ![syn.at] = NvRest(em[syn.at])]
  BY NextMoves DEF NextVoice
<1>2. syn.at \in Phys /\ syn.at \in Nat /\ em \in [Phys -> Mixer]
  BY AtTypes DEF NvTypes
<1>3. ASSUME NEW p \in Phys PROVE FadesListed(ctrlList'[p]) /\ FadesOn(em'[p], ctrlList'[p], Done(p)')
  <2>1. p \in Nat /\ FadesListed(ctrlList[p]) /\ FadesOn(em[p], ctrlList[p], Done(p))
    BY DEF Phys, FadeInv
  <2>2. CASE p = syn.at
    <3>1. em'[p] = NvRest(em[p]) /\ Done(p)' = SAMPLES
      BY <1>1, <1>2, <2>2 DEF Done, MovesOn
    <3> QED BY <1>1, <2>1, <2>2, <3>1, FadeRests
  <2>3. CASE p # syn.at
    <3>1. em'[p] = em[p] /\ Done(p)' = Done(p)
      BY <1>1, <1>2, <2>1, <2>3 DEF Done, MovesOn, SAMPLES
    <3> QED BY <1>1, <2>1, <3>1
  <2> QED BY <2>2, <2>3
<1> QED BY <1>3 DEF FadeInv, FadesListed, FadesOn, Fades

LEMMA FadeBlock ==
  ASSUME NvTypes, FrameInv, TimesInv, FadeInv, EndBlock
  PROVE  FadeInv'
<1>1. /\ Ends /\ Shifts /\ syn.phase = "pull" /\ ~Due /\ syn.at = NvPVoices
      /\ em' = [em EXCEPT ![syn.at] = NvRest(em[syn.at])]
  BY BlockEnds, BlockIs DEF EndBlock
<1>2. syn.at \in Phys /\ syn.at \in Nat /\ em \in [Phys -> Mixer]
  BY AtTypes DEF NvTypes
<1>3. ASSUME NEW p \in Phys PROVE FadesOn(em'[p], ctrlList[p], SAMPLES)
  <2>1. CASE p = syn.at
    BY <1>1, <1>2, <2>1, FadeRests
  <2>2. CASE p # syn.at
    <3>1. p < syn.at
      BY <1>1, <2>2, NvAssumption DEF NvAssumption, Phys
    <3>2. Done(p) = SAMPLES /\ em'[p] = em[p]
      BY <1>1, <1>2, <2>2, <3>1, VoiceTypes DEF Done
    <3> QED BY <3>2 DEF FadeInv
  <2> QED BY <2>1, <2>2
<1>4. ASSUME NEW p \in Phys PROVE FadesListed(ctrlList'[p]) /\ FadesOn(em'[p], ctrlList'[p], Done(p)')
  <2>1. PICK c : c = ctrlList[p]
    OBVIOUS
  <2>2. PICK d : d = ctrlList'[p]
    OBVIOUS
  <2>3. Len(c) \in Nat /\ c \in Seq(NvUpdate) /\ d \in Seq(NvUpdate) /\ \A i \in 1 .. Len(c) : c[i].delta \in Int
    BY <1>1, <2>1, <2>2, VoiceTypes DEF Shifts, ListTypes
  <2>4. /\ Len(d) = Len(c)
        /\ \A i \in 1 .. Len(c) : d[i].type = c[i].type /\ d[i].delta = c[i].delta - 184 /\ d[i].data = c[i].data /\ d[i].ramp = c[i].ramp
    BY <1>1, <2>1, <2>2 DEF Shifts, SAMPLES
  <2>5. Done(p)' = 0
    <3>1. p \in Nat /\ p >= 1
      BY DEF Phys
    <3>2. syn'.phase = "idle" \/ (syn'.phase = "pull" /\ syn'.at = 1 /\ syn'.out = SAMPLES)
      BY <1>1 DEF Ends
    <3> QED BY <3>1, <3>2 DEF Done, SAMPLES
  <2>6. FadesListed(d)
    <3>1. ASSUME NEW i \in 1 .. Len(d)
          PROVE  /\ d[i].type \in {"volume", "startalt"} => d[i].data = 32767 \/ Fades(d[i])
                 /\ Fades(d[i]) => /\ d[i].ramp = 368 /\ i < Len(d) /\ d[i + 1].type = "stop"
                                   /\ d[i + 1].delta = d[i].delta + 552
      <4>1. /\ c[i].type \in {"volume", "startalt"} => c[i].data = 32767 \/ Fades(c[i])
            /\ Fades(c[i]) => c[i].ramp = 368 /\ i < Len(c) /\ c[i + 1].type = "stop" /\ c[i + 1].delta = c[i].delta + 552
        BY <2>1, <2>4 DEF FadeInv, FadesListed
      <4>2. d[i].type = c[i].type /\ d[i].delta = c[i].delta - 184 /\ d[i].data = c[i].data /\ d[i].ramp = c[i].ramp
        BY <2>4
      <4>3. Fades(d[i]) <=> Fades(c[i])
        BY <4>2 DEF Fades
      <4>4. ASSUME i < Len(c), c[i + 1].type = "stop", c[i + 1].delta = c[i].delta + 552
            PROVE  d[i + 1].type = "stop" /\ d[i + 1].delta = d[i].delta + 552
        <5>1. i + 1 \in 1 .. Len(c) /\ i \in 1 .. Len(c)
          BY <2>3, <2>4, <4>4
        <5>2. PICK x \in Int : x = c[i].delta
          BY <2>3, <5>1
        <5>3. d[i + 1].type = "stop" /\ d[i + 1].delta = x + 552 - 184 /\ d[i].delta = x - 184
          BY <2>4, <4>4, <5>1, <5>2
        <5> QED BY <5>3
      <4> QED BY <2>4, <4>1, <4>2, <4>3, <4>4
    <3> QED BY <3>1 DEF FadesListed
  <2>7. FadesOn(em'[p], d, 0)
    <3>1. FadesOn(em'[p], c, 184)
      BY <1>3, <2>1 DEF SAMPLES
    <3>2. ASSUME c # <<>> PROVE d # <<>> /\ d[1].type = c[1].type /\ d[1].delta = c[1].delta - 184 /\ c[1].delta \in Int
      <4>1. 1 \in 1 .. Len(c)
        BY <2>3, <3>2
      <4>2. d # <<>>
        BY <2>3, <2>4, <4>1
      <4> QED BY <2>3, <2>4, <4>1, <4>2
    <3>3. em'[p].delta \in Int
      <4>1. em'[p] = em[p] \/ em'[p] = NvRest(em[p])
        BY <1>1, <1>2
      <4>2. em'[p] \in Mixer
        <5>1. syn.out \in Int /\ em[p] \in Mixer
          BY <1>2, AtTypes DEF SAMPLES
        <5> QED BY <4>1, <5>1, RestType
      <4> QED BY <4>2 DEF Mixer
    <3> QED BY <3>1, <3>2, <3>3 DEF FadesOn
  <2> QED BY <2>2, <2>5, <2>6, <2>7
<1> QED BY <1>4 DEF FadeInv, FadesListed, FadesOn, Fades

LEMMA SettledFade ==
  ASSUME NEW m \in Mixer
  PROVE  Clamped(Settled(m)) \in Mixer /\ Clamped(Settled(m)).volume = m.volume
<1>1. Clamped(Settled(m)) \in Mixer
  BY SettledType
<1>2. Settled(m).volume = m.volume /\ "volume" \in DOMAIN Settled(m)
  BY DEF Settled, Mixer
<1>3. \A k : "volume" \in DOMAIN k => Clamped(k).volume = k.volume
  BY DEF Clamped
<1> QED BY <1>1, <1>2, <1>3

LEMMA ChangedFade ==
  ASSUME NEW m \in Mixer, NEW u \in NvUpdate
  PROVE  /\ u.type # "volume" => Changed(m, u).volume = m.volume
         /\ u.type = "volume" =>
              /\ Changed(m, u).volume = (u.data * u.data) \div 32768
              /\ Changed(m, u).delta = 0 /\ Changed(m, u).segEnd = Snap(u.ramp)
<1>1. PICK v : v = (u.data * u.data) \div 32768
  OBVIOUS
<1>2. PICK e : e = Snap(u.ramp)
  OBVIOUS
<1>3. \A d : [m EXCEPT !.gain = d].volume = m.volume
  BY DEF Mixer
<1>4. LET k == [m EXCEPT !.delta = 0, !.volume = v, !.segEnd = e] IN k.volume = v /\ k.delta = 0 /\ k.segEnd = e
  BY DEF Mixer
<1> QED BY <1>1, <1>2, <1>3, <1>4 DEF Changed

LEMMA StartedAltFade ==
  ASSUME NEW m \in Mixer, NEW u \in NvUpdate
  PROVE  StartedAlt(m, u).volume = (u.data * u.data) \div 32768
<1>1. PICK w : w = (u.data * u.data) \div 32768
  OBVIOUS
<1>2. PICK e : e = Snap(u.ramp)
  OBVIOUS
<1> DEFINE v == [m EXCEPT !.motion = "playing", !.first = TRUE, !.delta = 0, !.segEnd = e, !.gain = 32767, !.volume = w]
<1>3. v.volume = w /\ DOMAIN v = DOMAIN m /\ {"volume", "cvol"} \subseteq DOMAIN m
  BY DEF Mixer
<1>4. StartedAlt(m, u) = [v EXCEPT !.cvol = IF u.ramp # 0 THEN 1 ELSE Scaled(v)]
  BY <1>1, <1>2 DEF StartedAlt
<1> HIDE DEF v
<1> QED BY <1>1, <1>3, <1>4

LEMMA AppliedFade ==
  ASSUME NEW m \in Mixer, NEW u \in NvUpdate, NEW n \in Int
  PROVE  /\ u.type \in {"start", "free", "pitch", "fxamt", "pan"} => Applied(m, u, n).volume = m.volume
         /\ u.type = "stop" => Applied(m, u, n).volume = 1
         /\ u.type \in {"startalt", "volume"} => Applied(m, u, n).volume = (u.data * u.data) \div 32768
         /\ u.type = "volume" => Applied(m, u, n).delta = 0 /\ Applied(m, u, n).segEnd = Snap(u.ramp)
<1>1. PICK q \in Mixer : q = PullSubFrame(m, n)
  BY PulledType
<1>2. PICK s \in Mixer : s = Clamped(Settled(q))
  BY SettledFade
<1>3. q.volume = m.volume /\ s.volume = m.volume
  BY <1>1, <1>2, PulledFade, SettledFade
<1>4. [m EXCEPT !.motion = "playing"].volume = m.volume
  BY DEF Mixer
<1>5. Reset(q).volume = 1
  BY DEF Reset, Mixer
<1>6. CASE u.type \in {"fxamt", "pan", "volume"}
  <2>1. Applied(m, u, n) = Changed(s, u)
    BY <1>1, <1>2, <1>6 DEF Applied
  <2> QED BY <1>3, <1>6, <2>1, ChangedFade
<1>7. CASE u.type = "startalt"
  <2>1. Applied(m, u, n) = StartedAlt(m, u)
    BY <1>7 DEF Applied
  <2> QED BY <1>7, <2>1, StartedAltFade
<1>8. CASE u.type \in {"start", "free", "stop", "pitch"}
  BY <1>1, <1>3, <1>4, <1>5, <1>8 DEF Applied
<1>9. u.type \in {"start", "stop", "free", "pitch", "fxamt", "pan", "volume", "startalt"}
  BY DEF NvUpdate, UpdateTypes
<1> QED BY <1>6, <1>7, <1>8, <1>9

(* Only a fade makes a volume zero, and leaves its stop at the head.       *)
LEMMA FadeApplied ==
  ASSUME NEW m \in Mixer, NEW u \in NvUpdate, NEW n \in Int, Applied(m, u, n).volume = 0,
         m.volume = 0 => u.type = "stop",
         u.type \in {"volume", "startalt"} => u.data = 32767 \/ Fades(u), Fades(u) => u.ramp = 368
  PROVE  Fades(u) /\ Applied(m, u, n).delta = 0 /\ Applied(m, u, n).segEnd = 368
<1>1. u.type \in {"start", "stop", "free", "pitch", "fxamt", "pan", "volume", "startalt"}
  BY DEF NvUpdate, UpdateTypes
<1>2. u.type \in {"volume", "startalt"}
  BY <1>1, AppliedFade
<1>3. ASSUME u.data = 32767 PROVE FALSE
  <2>1. Applied(m, u, n).volume = (32767 * 32767) \div 32768
    BY <1>2, <1>3, AppliedFade
  <2>2. (32767 * 32767) \div 32768 # 0
    OBVIOUS
  <2> QED BY <2>1, <2>2
<1>4. Fades(u)
  BY <1>2, <1>3
<1>5. Snap(368) = 368
  BY DEF Snap, SAMPLES
<1>6. u.type = "volume" /\ u.ramp = 368
  BY <1>4 DEF Fades
<1> QED BY <1>4, <1>5, <1>6, AppliedFade

LEMMA FadesTail ==
  ASSUME NEW c, NEW d, FadesListed(c), Len(c) \in Nat, Len(d) = Len(c) - 1, \A i \in 1 .. Len(d) : d[i] = c[i + 1]
  PROVE  FadesListed(d)
<1>1. PICK n \in Nat : n = Len(c)
  OBVIOUS
<1>2. ASSUME NEW i \in 1 .. Len(d)
      PROVE  /\ d[i].type \in {"volume", "startalt"} => d[i].data = 32767 \/ Fades(d[i])
             /\ Fades(d[i]) => /\ d[i].ramp = 368 /\ i < Len(d) /\ d[i + 1].type = "stop"
                               /\ d[i + 1].delta = d[i].delta + 552
  <2>1. i + 1 \in 1 .. n /\ d[i] = c[i + 1] /\ i \in Nat /\ Len(d) = n - 1
    BY <1>1
  <2>2. PICK j \in 1 .. n : j = i + 1
    BY <2>1
  <2>3. /\ c[j].type \in {"volume", "startalt"} => c[j].data = 32767 \/ Fades(c[j])
        /\ Fades(c[j]) => c[j].ramp = 368 /\ j < n /\ c[j + 1].type = "stop" /\ c[j + 1].delta = c[j].delta + 552
    BY <1>1, <2>2 DEF FadesListed
  <2>4. j < n => i < Len(d) /\ i + 1 \in 1 .. Len(d) /\ d[i + 1] = c[j + 1]
    <3>1. j < n => i + 1 \in 1 .. Len(d) /\ i < Len(d)
      BY <1>1, <2>1, <2>2
    <3> QED BY <2>2, <3>1
  <2> QED BY <2>1, <2>2, <2>3, <2>4
<1> QED BY <1>2 DEF FadesListed

LEMMA FadeApply ==
  ASSUME NvTypes, FrameInv, TimesInv, FadeInv, ApplyUpdate
  PROVE  FadeInv'
<1>1. PICK p \in Phys : p = syn.at
  BY ApplyIs DEF Shortens
<1>2. Shortens(p) /\ Due /\ syn.phase = "pull" /\ Update1 = ctrlList[p][1]
  BY <1>1, ApplyIs DEF Due
<1>3. SpanInv
  BY <1>2, SpanIs
<1>4. PICK c \in Seq(NvUpdate) : c = ctrlList[p]
  BY VoiceTypes
<1>5. PICK d : d = ctrlList'[p]
  OBVIOUS
<1>6. PICK u \in NvUpdate : u = c[1] /\ u = Update1
  BY <1>2, <1>4 DEF Shortens
<1>7. PICK n \in {0, 184} : n = Span
  BY <1>3 DEF SpanInv, SAMPLES
<1>8. PICK m \in Mixer : m = em[p]
  BY DEF NvTypes
<1>9. em'[p] = Applied(m, u, n) /\ \A q \in Phys : q # p => em'[q] = em[q]
  <2>1. em' = [em EXCEPT ![p] = Applied(em[p], u, n)]
    BY <1>1, <1>6, <1>7 DEF ApplyUpdate
  <2>2. em \in [Phys -> Mixer]
    BY DEF NvTypes
  <2> QED BY <1>8, <2>1, <2>2
<1>10. /\ Len(c) \in Nat /\ Len(c) >= 1 /\ c # <<>> /\ Len(d) = Len(c) - 1 /\ \A i \in 1 .. Len(d) : d[i] = c[i + 1]
       /\ d \in Seq(NvUpdate)
  <2>1. c # <<>>
    BY <1>2, <1>4 DEF Shortens
  <2>2. Len(c) >= 1 /\ Len(c) \in Nat
    BY <2>1
  <2> QED BY <1>2, <1>4, <1>5, <2>1, <2>2 DEF Shortens, ListTypes
<1>11. FadesListed(c) /\ FadesOn(m, c, Done(p))
  BY <1>4, <1>8 DEF FadeInv
<1>12. AdvancedTo(syn, syn', Update1.delta) /\ syn' = Advanced(syn)
  BY <1>2, <1>3, AdvanceIs DEF ApplyUpdate
<1>13. Done(p)' = 184 - syn'.out /\ syn'.out = syn.out - n
  <2>1. syn'.phase = "pull" /\ syn'.at = p /\ p \in Nat
    BY <1>1, <1>12 DEF AdvancedTo, Phys
  <2>2. syn'.out = syn.out - n
    <3>1. syn \in SynTypes
      BY DEF NvTypes
    <3> QED BY <1>7, <1>12, <3>1 DEF Advanced, SynTypes
  <2> QED BY <2>1, <2>2 DEF Done, SAMPLES
<1>14. FadesListed(d)
  BY <1>10, <1>11, FadesTail
<1>15. ASSUME Applied(m, u, n).volume = 0
       PROVE  /\ d # <<>> /\ d[1].type = "stop"
              /\ Applied(m, u, n).motion = "playing" =>
                   /\ Applied(m, u, n).segEnd = 368 /\ Applied(m, u, n).delta % SAMPLES = 0
                   /\ d[1].delta - Done(p)' + Applied(m, u, n).delta >= 460
  <2>1. Fades(u) /\ Applied(m, u, n).delta = 0 /\ Applied(m, u, n).segEnd = 368
    <3>1. m.volume = 0 => u.type = "stop"
      BY <1>6, <1>11 DEF FadesOn
    <3>2. PICK j \in 1 .. Len(c) : j = 1
      BY <1>10
    <3>3. /\ c[j].type \in {"volume", "startalt"} => c[j].data = 32767 \/ Fades(c[j])
          /\ Fades(c[j]) => c[j].ramp = 368
      BY <1>11 DEF FadesListed
    <3>4. n \in Int
      OBVIOUS
    <3>5. c[j] = u
      BY <1>6, <3>2
    <3> QED BY <1>15, <3>1, <3>3, <3>4, <3>5, FadeApplied
  <2>2. PICK x \in Int : x = Update1.delta
    BY <1>3 DEF SpanInv
  <2>3. 1 < Len(c) /\ c[2].type = "stop" /\ c[2].delta = x + 552
    <3>1. PICK j \in 1 .. Len(c) : j = 1
      BY <1>10
    <3>2. Fades(c[j]) => j < Len(c) /\ c[j + 1].type = "stop" /\ c[j + 1].delta = c[j].delta + 552
      BY <1>11 DEF FadesListed
    <3>3. c[j] = u
      BY <1>6, <3>1
    <3>4. j = 1 /\ u.delta = x
      BY <1>6, <2>2, <3>1
    <3>5. j + 1 = 2
      BY <3>1
    <3> QED BY <2>1, <3>1, <3>2, <3>3, <3>4, <3>5
  <2>4. d # <<>> /\ d[1] = c[2]
    <3>1. 1 \in 1 .. Len(d) /\ 1 + 1 = 2
      BY <1>10, <2>3
    <3>2. d # <<>>
      BY <1>10, <3>1
    <3> QED BY <1>10, <3>1, <3>2
  <2>5. x + 552 - (184 - (syn.out - n)) >= 460
    <3>1. \/ syn.out = 184 /\ n = 0 /\ x >= -15
          \/ syn.out = 184 /\ n = 184 /\ x >= 92
          \/ syn.out = 0 /\ n = 0 /\ x >= 92
      <4>1. PICK y \in Int : y = syn.clock
        BY AtTypes
      <4>2. \/ syn.out = 184 /\ n = 0 /\ x \in -15 .. 91
            \/ syn.out = 184 /\ n = 184 /\ x \in 92 .. 275
            \/ syn.out = 0 /\ y \in 92 .. 275 /\ n = 0 /\ x \in y .. y + 91
        BY ONLY <1>3, <1>7, <2>2, <4>1 DEF SpanInv, SAMPLES
      <4>3. (y \in 92 .. 275 /\ x \in y .. y + 91 => x >= 92) /\ (x \in -15 .. 91 => x >= -15) /\ (x \in 92 .. 275 => x >= 92)
        OBVIOUS
      <4> QED BY <4>2, <4>3
    <3> QED BY <3>1
  <2>6. 0 % SAMPLES = 0
    BY DEF SAMPLES
  <2>7. PICK z \in Int : z = syn.out - n
    BY <1>3, <1>7 DEF SpanInv, SAMPLES
  <2>8. x + 552 - (184 - z) + 0 >= 460
    BY <2>5, <2>7
  <2> QED BY <1>13, <2>1, <2>3, <2>4, <2>6, <2>7, <2>8
<1>16. FadesOn(em'[p], d, Done(p)')
  BY <1>9, <1>15 DEF FadesOn
<1>17. ASSUME NEW q \in Phys, q # p PROVE FadesListed(ctrlList'[q]) /\ FadesOn(em'[q], ctrlList'[q], Done(q)')
  <2>1. ctrlList'[q] = ctrlList[q] /\ em'[q] = em[q]
    BY <1>2, <1>9, <1>17 DEF Shortens
  <2>2. Done(q)' = Done(q)
    <3>1. syn'.phase = "pull" /\ syn'.at = p /\ p \in Nat /\ q \in Nat
      BY <1>1, <1>12 DEF AdvancedTo, Phys
    <3>2. q > p \/ q < p
      BY <1>17, <3>1
    <3> QED BY <1>1, <1>2, <3>1, <3>2 DEF Done
  <2> QED BY <2>1, <2>2 DEF FadeInv
<1>18. \A q \in Phys : FadesListed(ctrlList'[q]) /\ FadesOn(em'[q], ctrlList'[q], Done(q)')
  BY <1>5, <1>14, <1>16, <1>17
<1> QED BY <1>18 DEF FadeInv, FadesListed, FadesOn, Fades

LEMMA FadeStep ==
  ASSUME VoiceInd, FadeInv, [NvNext]_nvVars, [TheftsStop]_nvVars
  PROVE  FadeInv'
<1>0. NvTypes /\ FrameInv /\ ListsOk(pLists) /\ LinkInv /\ TimesInv
  BY DEF VoiceInd
<1>1. CASE UNCHANGED nvVars
  BY <1>1 DEF nvVars, FadeInv, FadesListed, FadesOn, Fades, Done
<1>2. CASE TheftsStop /\ Call
  BY <1>0, <1>2, FadeCall
<1>3. CASE AudioFrame \/ HandlerReturns \/ ApplyUpdate \/ NextVoice \/ EndBlock
  BY <1>0, <1>3, FadeOpen, FadeApply, FadeNext, FadeBlock
<1>4. NvNext => AudioFrame \/ HandlerReturns \/ ApplyUpdate \/ NextVoice \/ EndBlock \/ Call
  BY <1>0, NextIs
<1> QED BY <1>1, <1>2, <1>3, <1>4

LEMMA FadeFirst == NvInit => FadeInv
<1> SUFFICES ASSUME NvInit PROVE FadeInv
  OBVIOUS
<1>1. \A p \in Phys : ctrlList[p] = <<>> /\ em[p].volume = 1
  BY DEF NvInit, PVoiceNew
<1>2. \A i \in 1 .. Len(<<>>) : FALSE
  OBVIOUS
<1>3. \A p \in Phys : FadesListed(ctrlList[p]) /\ FadesOn(em[p], ctrlList[p], Done(p))
  BY <1>1, <1>2 DEF FadesListed, FadesOn
<1> QED BY <1>3 DEF FadeInv

LEMMA VoicesFadeOut == ASSUME VoiceInd, FadeInv PROVE FadesOut
<1> SUFFICES ASSUME Due, Update1.type = "stop", em[syn.at].motion = "playing", em[syn.at].volume = 0
             PROVE  em[syn.at].delta + Span >= em[syn.at].segEnd
  BY DEF FadesOut
<1>1. NvTypes /\ FrameInv /\ TimesInv
  BY DEF VoiceInd
<1>2. SpanInv
  BY <1>1, SpanIs
<1>3. syn.at \in Phys /\ syn.at \in Nat /\ syn.phase = "pull"
  BY <1>1, AtTypes DEF Due
<1>4. PICK k \in Nat : k = em[syn.at].delta
  BY <1>1, <1>3 DEF NvTypes, Mixer
<1>5. PICK x \in Int : x = Update1.delta
  BY <1>2 DEF SpanInv
<1>6. Done(syn.at) = 184 - syn.out
  BY <1>3 DEF Done, SAMPLES
<1>7. em[syn.at].segEnd = 368 /\ k % 184 = 0 /\ (k >= 368 \/ x - (184 - syn.out) + k >= 460)
  BY <1>3, <1>4, <1>5, <1>6 DEF FadeInv, FadesOn, Update1, SAMPLES
<1>8. \/ syn.out = 184 /\ Span = 0 /\ x <= 91
      \/ syn.out = 184 /\ Span = 184 /\ x <= 275
      \/ syn.out = 0 /\ Span = 0 /\ x <= 366
  BY <1>2, <1>5 DEF SpanInv, SAMPLES
<1>9. k + Span >= 368
  <2>1. CASE k >= 368
    <3>1. Span \in {0, 184}
      BY <1>8
    <3> QED BY <2>1, <3>1
  <2>2. CASE x - (184 - syn.out) + k >= 460
    <3>1. \/ Span = 0 /\ x - 0 + k >= 460 /\ x <= 91
          \/ Span = 184 /\ x - 0 + k >= 460 /\ x <= 275
          \/ Span = 0 /\ x - 184 + k >= 460 /\ x <= 366
      BY <1>8, <2>2
    <3>2. k >= 278 /\ k % 184 = 0 => k >= 368
      OBVIOUS
    <3> QED BY <1>7, <3>1, <3>2
  <2> QED BY <1>7, <2>1, <2>2
<1> QED BY <1>4, <1>7, <1>9

(* The same with the fades: a stolen voice that sounds is stopped only when*)
(* it has faded out, if every theft found the two updates it needs         *)
(* (n_synallocvoice.c takes the first unseen and leaves out the second).   *)
THEOREM VoicesAlways == NvSpec /\ [][TheftsStop]_nvVars => []VoicesInv
<1>1. NvInit => VoiceInd /\ FadeInv
  BY VoiceInit, FadeFirst
<1>2. (VoiceInd /\ FadeInv) /\ [NvNext]_nvVars /\ [TheftsStop]_nvVars => (VoiceInd /\ FadeInv)'
  BY VoiceStep, FadeStep
<1>3. VoiceInd /\ FadeInv => VoicesInv
  BY VoicesAreLinked, UpdatesOnTime, SpareAreSilent, VoicesFadeOut DEF VoiceInd, VoicesInv
<1> QED BY <1>1, <1>2, <1>3, PTL DEF NvSpec
=============================================================================
