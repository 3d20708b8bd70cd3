------------------------------ MODULE DeviceProofs -----------------------------
(***************************************************************************)
(* Theorems about five components that share nothing: the ring buffer of a *)
(* message queue, the VI manager, the audio frames, the controller threads *)
(* and libultra's scheduler; for any capacity and messages, any modes,     *)
(* features and retrace counts, any rates and buffers, any number of       *)
(* application threads, any tasks.                                         *)
(*                                                                         *)
(* The ring implements the bounded list of MesgQueue: one equation per     *)
(* operation between the list Held before and after it; the arithmetic is  *)
(* that the dividend of every % is below twice the divisor.                *)
(*                                                                         *)
(* A frame is made into the buffer of three that has been out of the AI's  *)
(* FIFO longest: the FIFO's entries are the buffers of the last two frames *)
(* the RSP finished, in order, or silences.  At rates that fit (RateFits)  *)
(* AudPace gives, at each frame and each retrace, the samples the FIFO has *)
(* left and the frame that waits to go there, so that it never runs dry.   *)
(*                                                                         *)
(* ContInv needs what ties the threads of the SI together: the thread that *)
(* has closed the pad buffer is the one inside nuContDataGetEx, the sender *)
(* of each request waits and has no other, and a rumble request that the   *)
(* manager is at was sent in a state that will stop the motor again.       *)
(*                                                                         *)
(* UnitsAgree needs to know where a task that runs on both units is: in    *)
(* the list once, or on the RSP, or only on the RDP, with state bits that  *)
(* match, so that it is resumed on the RDP only if the RDP is free or its  *)
(* own (Orderly).  With OS_SC_PARALLEL_TASK that order is lost for good,   *)
(* but then such a task heads the list, audio waits for ever and nothing is*)
(* placed on the RDP any more (Jammed).                                    *)
(***************************************************************************)
EXTENDS MesgRing, ViManager, AudFrames, ContManager, OsSched, Induction, SequenceTheorems,
        TLAPS

-----------------------------------------------------------------------------
(* The ring buffer of a message queue.                                     *)


Slots == msgCount

LEMMA Wrap ==
  /\ Slots \in Nat \ {0}
  /\ \A a \in 0 .. Slots - 1 : a % Slots = a
  /\ \A a \in Slots .. 2 * Slots - 1 : a % Slots = a - Slots
  /\ \A a \in Nat : a % Slots \in 0 .. Slots - 1
<1>1. Slots \in Nat \ {0}
  BY RingAssumption DEF RingAssumption, Slots
<1> HIDE DEF Slots
<1>2. ASSUME NEW a \in 0 .. Slots - 1 PROVE a % Slots = a
  BY <1>1
<1>3. ASSUME NEW a \in Slots .. 2 * Slots - 1 PROVE a % Slots = a - Slots
  BY <1>1
<1>4. ASSUME NEW a \in Nat PROVE a % Slots \in 0 .. Slots - 1
  BY <1>1
<1> QED  BY <1>1, <1>2, <1>3, <1>4

LEMMA TypeInit == Init => TypeOK
BY Wrap DEF Init, TypeOK, Slot, Slots

LEMMA TypeNext == TypeOK /\ [Next]_vars => TypeOK'
<1> SUFFICES ASSUME TypeOK, [Next]_vars PROVE TypeOK'
  OBVIOUS
<1> USE DEF TypeOK
<1>1. /\ msgCount \in Nat \ {0} /\ \A a \in Nat : a % msgCount \in Slot
  BY Wrap DEF Slots, Slot
<1> USE DEF Slot
<1>2. ASSUME NEW m \in Mesgs, ~IsFull, Store(m)
      PROVE  /\ msg' \in [Slot -> Mesgs] /\ first' \in Slot /\ validCount' \in 0 .. msgCount
  <2>1. (first + validCount) % msgCount \in Slot
    <3>1. first + validCount \in Nat
      BY <1>1
    <3> QED  BY <1>1, <3>1
  <2> QED  BY <1>1, <1>2, <2>1 DEF Store, IsFull
<1>3. CASE OsCreateMesgQueue
  BY <1>1, <1>3 DEF OsCreateMesgQueue
<1>4. ASSUME NEW m \in Mesgs, OsSendMesg(m) PROVE TypeOK'
  BY <1>2, <1>4 DEF OsSendMesg, Refused
<1>5. ASSUME NEW m \in Mesgs, OsJamMesg(m) PROVE TypeOK'
  <2>1. CASE Refused
    BY <2>1 DEF Refused
  <2>2. CASE ~Refused
    <3>1. /\ ~IsFull /\ first' = (first + msgCount - 1) % msgCount
          /\ msg' = [msg EXCEPT ![first'] = m] /\ validCount' = validCount + 1
          /\ ret' = 0 /\ got' = got
      BY <1>5, <2>2 DEF OsJamMesg
    <3>2. first' \in Slot
      <4>1. first + msgCount - 1 \in Nat
        BY <1>1
      <4> QED  BY <1>1, <3>1, <4>1
    <3> QED  BY <1>1, <3>1, <3>2 DEF IsFull
  <2> QED  BY <2>1, <2>2
<1>6. ASSUME NEW m \in Mesgs, PostEvent(m) PROVE TypeOK'
  BY <1>2, <1>6 DEF PostEvent
<1>7. ASSUME NEW keep \in BOOLEAN, OsRecvMesg(keep) PROVE TypeOK'
  <2>1. CASE Refused
    BY <2>1 DEF Refused
  <2>2. CASE ~Refused
    <3>1. /\ ~IsEmpty /\ got' = (IF keep THEN msg[first] ELSE got)
          /\ first' = (first + 1) % msgCount /\ validCount' = validCount - 1
          /\ ret' = 0 /\ msg' = msg
      BY <1>7, <2>2 DEF OsRecvMesg
    <3>2. first' \in Slot
      <4>1. first + 1 \in Nat
        BY <1>1
      <4> QED  BY <1>1, <3>1, <4>1
    <3>3. got' \in Mesgs /\ validCount' \in 0 .. msgCount
      BY <1>1, <3>1 DEF IsEmpty
    <3> QED  BY <3>1, <3>2, <3>3
  <2> QED  BY <2>1, <2>2
<1>8. CASE UNCHANGED vars
  BY <1>8 DEF vars
<1> QED  BY <1>3, <1>4, <1>5, <1>6, <1>7, <1>8 DEF Next

(* The indices of the ring stay inside the caller's storage.                *)
THEOREM RingTypes == Spec => []TypeOK
BY TypeInit, TypeNext, PTL DEF Spec

-----------------------------------------------------------------------------

(* Held, written without the remainder.                                     *)
Entry(i) == IF first + i - 1 < Slots THEN msg[first + i - 1] ELSE msg[first + i - 1 - Slots]

HeldIsList ==
  /\ Held \in Seq(Mesgs)
  /\ Len(Held) = validCount
  /\ \A i \in 1 .. validCount : Held[i] = Entry(i)

LEMMA HeldIs == TypeOK => HeldIsList
<1> SUFFICES ASSUME TypeOK PROVE HeldIsList
  OBVIOUS
<1>1. /\ Slots \in Nat \ {0} /\ first \in 0 .. Slots - 1 /\ validCount \in 0 .. Slots
      /\ msg \in [0 .. Slots - 1 -> Mesgs]
  BY Wrap DEF TypeOK, Slot, Slots
<1>2. ASSUME NEW i \in 1 .. validCount
      PROVE  msg[(first + i - 1) % Slots] = Entry(i) /\ Entry(i) \in Mesgs
  <2>1. CASE first + i - 1 < Slots
    <3>1. first + i - 1 \in 0 .. Slots - 1
      BY <1>1, <2>1
    <3> QED  BY <1>1, <2>1, <3>1, Wrap DEF Entry
  <2>2. CASE ~(first + i - 1 < Slots)
    <3>1. first + i - 1 \in Slots .. 2 * Slots - 1 /\ first + i - 1 - Slots \in 0 .. Slots - 1
      BY <1>1, <2>2
    <3>2. (first + i - 1) % Slots = first + i - 1 - Slots
      <4>1. PICK a \in Slots .. 2 * Slots - 1 : a = first + i - 1
        BY <3>1
      <4>2. a % Slots = a - Slots
        BY Wrap
      <4> QED  BY <1>1, <4>1, <4>2
    <3> QED  BY <1>1, <2>2, <3>1, <3>2 DEF Entry
  <2> QED  BY <2>1, <2>2
<1>3. Held = [i \in 1 .. validCount |-> msg[(first + i - 1) % Slots]]
  BY DEF Held, Slots
<1>4. Held \in [1 .. validCount -> Mesgs]
  BY <1>2, <1>3
<1>5. Held \in Seq(Mesgs) /\ Len(Held) = validCount
  BY <1>1, <1>4, SeqDef, LenProperties
<1> QED  BY <1>2, <1>3, <1>5 DEF HeldIsList

(* The three ways the list changes.                                         *)
LEMMA StoreAppends ==
  ASSUME TypeOK, TypeOK', NEW m \in Mesgs, ~IsFull, Store(m)
  PROVE  Held' = Append(Held, m)
<1>1. /\ Slots \in Nat \ {0} /\ first \in 0 .. Slots - 1 /\ validCount \in 0 .. Slots - 1
      /\ msg \in [0 .. Slots - 1 -> Mesgs]
  BY Wrap DEF TypeOK, Slot, Slots, IsFull
<1> DEFINE last == IF first + validCount < Slots THEN first + validCount ELSE first + validCount - Slots
<1>2. (first + validCount) % Slots = last /\ last \in 0 .. Slots - 1
  <2>1. CASE first + validCount < Slots
    <3>1. first + validCount \in 0 .. Slots - 1
      BY <1>1, <2>1
    <3> QED  BY <2>1, <3>1, Wrap
  <2>2. CASE ~(first + validCount < Slots)
    <3>1. first + validCount \in Slots .. 2 * Slots - 1 /\ first + validCount - Slots \in 0 .. Slots - 1
      BY <1>1, <2>2
    <3>2. (first + validCount) % Slots = first + validCount - Slots
      <4>1. PICK a \in Slots .. 2 * Slots - 1 : a = first + validCount
        BY <3>1
      <4>2. a % Slots = a - Slots
        BY Wrap
      <4> QED  BY <1>1, <4>1, <4>2
    <3> QED  BY <2>2, <3>1, <3>2
  <2> QED  BY <2>1, <2>2
<1>3. msg' = [msg EXCEPT ![last] = m] /\ validCount' = validCount + 1 /\ first' = first
  BY <1>2 DEF Store, Slots
<1>4. /\ Held \in Seq(Mesgs) /\ Len(Held) = validCount
      /\ \A i \in 1 .. validCount : Held[i] = Entry(i)
  BY HeldIs DEF HeldIsList
<1>5. /\ Held' \in Seq(Mesgs) /\ Len(Held') = validCount'
      /\ \A i \in 1 .. validCount' : Held'[i] = Entry(i)'
  <2>1. HeldIsList'
    BY HeldIs, PTL
  <2> QED  BY <2>1 DEF HeldIsList
<1>6. ASSUME NEW i \in 1 .. validCount + 1 PROVE Held'[i] = Append(Held, m)[i]
  <2> DEFINE k == IF first + i - 1 < Slots THEN first + i - 1 ELSE first + i - 1 - Slots
  <2>1. k \in 0 .. Slots - 1 /\ (i = validCount + 1 <=> k = last)
    BY <1>1
  <2>2. Held'[i] = msg'[k]
    BY <1>3, <1>5 DEF Entry
  <2>3. CASE i = validCount + 1
    BY <1>1, <1>3, <1>4, <2>1, <2>2, <2>3
  <2>4. CASE i # validCount + 1
    <3>1. i \in 1 .. validCount
      BY <1>1, <2>4
    <3>2. Held'[i] = msg[k] /\ Held[i] = msg[k]
      BY <1>1, <1>3, <1>4, <2>1, <2>2, <2>4, <3>1 DEF Entry
    <3> QED  BY <1>4, <3>1, <3>2
  <2> QED  BY <2>3, <2>4
<1>7. Append(Held, m) \in Seq(Mesgs) /\ Len(Append(Held, m)) = validCount + 1
  BY <1>4
<1> QED  BY <1>3, <1>5, <1>6, <1>7, SeqEqual

LEMMA JamPrepends ==
  ASSUME TypeOK, TypeOK', NEW m \in Mesgs, ~IsFull,
         first' = (first + msgCount - 1) % msgCount,
         msg' = [msg EXCEPT ![first'] = m], validCount' = validCount + 1
  PROVE  Held' = <<m>> \o Held
<1>1. /\ Slots \in Nat \ {0} /\ first \in 0 .. Slots - 1 /\ validCount \in 0 .. Slots - 1
      /\ msg \in [0 .. Slots - 1 -> Mesgs]
  BY Wrap DEF TypeOK, Slot, Slots, IsFull
<1>2. first' = (IF first = 0 THEN Slots - 1 ELSE first - 1) /\ first' \in 0 .. Slots - 1
  <2>0. first' = (first + Slots - 1) % Slots
    BY DEF Slots
  <2>1. CASE first = 0
    <3>1. first + Slots - 1 = Slots - 1 /\ Slots - 1 \in 0 .. Slots - 1
      BY <1>1, <2>1
    <3> QED  BY <2>0, <2>1, <3>1, Wrap
  <2>2. CASE first # 0
    <3>1. first + Slots - 1 \in Slots .. 2 * Slots - 1 /\ (first + Slots - 1) - Slots = first - 1
          /\ first - 1 \in 0 .. Slots - 1
      BY <1>1, <2>2
    <3> QED  BY <2>0, <2>2, <3>1, Wrap
  <2> QED  BY <2>1, <2>2
<1>3. /\ Held \in Seq(Mesgs) /\ Len(Held) = validCount
      /\ \A i \in 1 .. validCount : Held[i] = Entry(i)
  BY HeldIs DEF HeldIsList
<1>4. /\ Held' \in Seq(Mesgs) /\ Len(Held') = validCount'
      /\ \A i \in 1 .. validCount' : Held'[i] = Entry(i)'
  <2>1. HeldIsList'
    BY HeldIs, PTL
  <2> QED  BY <2>1 DEF HeldIsList
<1>5. /\ <<m>> \o Held \in Seq(Mesgs) /\ Len(<<m>> \o Held) = validCount + 1
      /\ (<<m>> \o Held)[1] = m
      /\ \A i \in 2 .. validCount + 1 : (<<m>> \o Held)[i] = Held[i - 1]
  <2>1. <<m>> \in Seq(Mesgs) /\ Len(<<m>>) = 1 /\ <<m>>[1] = m
    OBVIOUS
  <2> QED  BY <1>1, <1>3, <2>1, ConcatProperties
<1>6. ASSUME NEW i \in 1 .. validCount + 1 PROVE Held'[i] = (<<m>> \o Held)[i]
  <2> DEFINE k == IF first' + i - 1 < Slots THEN first' + i - 1 ELSE first' + i - 1 - Slots
  <2>1. k \in 0 .. Slots - 1 /\ (i = 1 <=> k = first')
    BY <1>1, <1>2
  <2>2. Held'[i] = msg'[k]
    BY <1>4 DEF Entry, Slots
  <2>3. CASE i = 1
    BY <1>1, <1>2, <1>5, <2>1, <2>2, <2>3
  <2>4. CASE i # 1
    <3> DEFINE j == i - 1
    <3>1. j \in 1 .. validCount /\ i \in 2 .. validCount + 1
      BY <1>1, <2>4
    <3>2. k = IF first + j - 1 < Slots THEN first + j - 1 ELSE first + j - 1 - Slots
      BY <1>1, <1>2, <2>4
    <3>3. Held[j] = msg[k]
      BY <1>3, <3>1, <3>2 DEF Entry
    <3>4. Held'[i] = msg[k]
      BY <1>1, <1>2, <2>1, <2>2, <2>4
    <3> QED  BY <1>5, <3>1, <3>3, <3>4
  <2> QED  BY <2>3, <2>4
<1> QED  BY <1>4, <1>5, <1>6, SeqEqual

LEMMA RecvTakesHead ==
  ASSUME TypeOK, TypeOK', ~IsEmpty,
         first' = (first + 1) % msgCount, validCount' = validCount - 1, msg' = msg
  PROVE  Held # << >> /\ Held' = Tail(Held) /\ Head(Held) = msg[first]
<1>1. /\ Slots \in Nat \ {0} /\ first \in 0 .. Slots - 1 /\ validCount \in 1 .. Slots
      /\ msg \in [0 .. Slots - 1 -> Mesgs]
  BY Wrap DEF TypeOK, Slot, Slots, IsEmpty
<1>2. first' = (IF first = Slots - 1 THEN 0 ELSE first + 1)
  <2>0. first' = (first + 1) % Slots
    BY DEF Slots
  <2>1. CASE first = Slots - 1
    <3>1. first + 1 \in Slots .. 2 * Slots - 1 /\ (first + 1) - Slots = 0
      BY <1>1, <2>1
    <3> QED  BY <2>0, <2>1, <3>1, Wrap
  <2>2. CASE first # Slots - 1
    <3>1. first + 1 \in 0 .. Slots - 1
      BY <1>1, <2>2
    <3> QED  BY <2>0, <2>2, <3>1, Wrap
  <2> QED  BY <2>1, <2>2
<1>3. /\ Held \in Seq(Mesgs) /\ Len(Held) = validCount
      /\ \A i \in 1 .. validCount : Held[i] = Entry(i)
  BY HeldIs DEF HeldIsList
<1>4. /\ Held' \in Seq(Mesgs) /\ Len(Held') = validCount'
      /\ \A i \in 1 .. validCount' : Held'[i] = Entry(i)'
  <2>1. HeldIsList'
    BY HeldIs, PTL
  <2> QED  BY <2>1 DEF HeldIsList
<1>5. Held # << >> /\ Head(Held) = Held[1]
  BY <1>1, <1>3
<1>6. Head(Held) = msg[first]
  <2>1. 1 \in 1 .. validCount /\ first + 1 - 1 = first /\ first < Slots
    BY <1>1
  <2> QED  BY <1>3, <1>5, <2>1 DEF Entry
<1>7. /\ Tail(Held) \in Seq(Mesgs) /\ Len(Tail(Held)) = validCount - 1
      /\ \A i \in 1 .. validCount - 1 : Tail(Held)[i] = Held[i + 1]
  BY <1>3, <1>5, HeadTailProperties
<1>8. ASSUME NEW i \in 1 .. validCount - 1 PROVE Held'[i] = Tail(Held)[i]
  <2> DEFINE j == i + 1
             k == IF first + j - 1 < Slots THEN first + j - 1 ELSE first + j - 1 - Slots
  <2>1. j \in 1 .. validCount
    BY <1>1
  <2>2. k = IF first' + i - 1 < Slots THEN first' + i - 1 ELSE first' + i - 1 - Slots
    BY <1>1, <1>2
  <2>3. Held'[i] = msg[k]
    BY <1>4, <2>2 DEF Entry, Slots
  <2>4. Held[j] = msg[k]
    BY <1>3, <2>1 DEF Entry
  <2> QED  BY <1>7, <2>3, <2>4
<1> QED  BY <1>4, <1>5, <1>6, <1>7, <1>8, SeqEqual

-----------------------------------------------------------------------------
(* The simulation.                                                         *)

LEMMA InitMaps == Init => Queue!QInit
<1> SUFFICES ASSUME Init PROVE Queue!QInit
  OBVIOUS
<1>1. Held \in Seq(Mesgs) /\ Len(Held) = 0
  BY TypeInit, HeldIs DEF HeldIsList, Init
<1>2. Held = << >>
  BY <1>1, EmptySeq
<1> QED  BY <1>2 DEF Init, Queue!QInit

LEMMA StepMaps == TypeOK /\ TypeOK' /\ [Next]_vars => [Queue!QNext]_(Queue!qvars)
<1> SUFFICES ASSUME TypeOK, TypeOK', [Next]_vars
             PROVE  Queue!QNext \/ UNCHANGED <<Held, got, ret>>
  BY DEF Queue!qvars
<1>1. Held \in Seq(Mesgs) /\ Len(Held) = validCount /\ validCount \in 0 .. msgCount
      /\ msgCount \in Nat \ {0}
  BY HeldIs, Wrap DEF HeldIsList, TypeOK, Slots
<1>2. IsFull <=> ~(Len(Held) < msgCount)
  BY <1>1 DEF IsFull
<1>3. IsEmpty <=> Held = << >>
  BY <1>1, EmptySeq DEF IsEmpty
<1>4. (msg' = msg /\ first' = first /\ validCount' = validCount) => Held' = Held
  BY DEF Held
<1>5. Refused => Queue!Refuse
  BY <1>4 DEF Refused, Queue!Refuse
<1>6. CASE OsCreateMesgQueue
  <2>1. HeldIsList'
    BY HeldIs, PTL
  <2>2. Held' = << >>
    BY <1>6, <2>1, EmptySeq DEF HeldIsList, OsCreateMesgQueue
  <2> QED  BY <1>6, <2>2 DEF OsCreateMesgQueue, Queue!Create, Queue!QNext
<1>7. ASSUME NEW m \in Mesgs, OsSendMesg(m) PROVE Queue!Send(m)
  <2>1. CASE IsFull
    BY <1>2, <1>5, <1>7, <2>1 DEF OsSendMesg, Queue!Send
  <2>2. CASE ~IsFull
    <3>1. Store(m) /\ ret' = 0 /\ got' = got
      BY <1>7, <2>2 DEF OsSendMesg
    <3>2. Held' = Append(Held, m)
      BY <2>2, <3>1, StoreAppends
    <3> QED  BY <1>2, <2>2, <3>1, <3>2 DEF Queue!Send
  <2> QED  BY <2>1, <2>2
<1>8. ASSUME NEW m \in Mesgs, OsJamMesg(m) PROVE Queue!Jam(m)
  <2>1. CASE IsFull
    BY <1>2, <1>5, <1>8, <2>1 DEF OsJamMesg, Queue!Jam
  <2>2. CASE ~IsFull
    <3>1. /\ first' = (first + msgCount - 1) % msgCount
          /\ msg' = [msg EXCEPT ![first'] = m] /\ validCount' = validCount + 1
          /\ ret' = 0 /\ got' = got
      BY <1>8, <2>2 DEF OsJamMesg
    <3>2. Held' = <<m>> \o Held
      BY <2>2, <3>1, JamPrepends
    <3> QED  BY <1>2, <2>2, <3>1, <3>2 DEF Queue!Jam
  <2> QED  BY <2>1, <2>2
<1>9. ASSUME NEW m \in Mesgs, PostEvent(m) PROVE Queue!Post(m)
  <2>1. ~IsFull /\ Store(m) /\ UNCHANGED <<got, ret>>
    BY <1>9 DEF PostEvent
  <2>2. Held' = Append(Held, m)
    BY <2>1, StoreAppends
  <2> QED  BY <1>2, <2>1, <2>2 DEF Queue!Post
<1>10. ASSUME NEW keep \in BOOLEAN, OsRecvMesg(keep) PROVE Queue!Recv(keep)
  <2>1. CASE IsEmpty
    BY <1>3, <1>5, <1>10, <2>1 DEF OsRecvMesg, Queue!Recv
  <2>2. CASE ~IsEmpty
    <3>1. /\ got' = (IF keep THEN msg[first] ELSE got) /\ first' = (first + 1) % msgCount
          /\ validCount' = validCount - 1 /\ ret' = 0 /\ msg' = msg
      BY <1>10, <2>2 DEF OsRecvMesg
    <3>2. Held # << >> /\ Held' = Tail(Held) /\ Head(Held) = msg[first]
      BY <2>2, <3>1, RecvTakesHead
    <3> QED  BY <3>1, <3>2 DEF Queue!Recv
  <2> QED  BY <2>1, <2>2
<1>11. CASE UNCHANGED vars
  BY <1>4, <1>11 DEF vars
<1> QED
  BY <1>6, <1>7, <1>8, <1>9, <1>10, <1>11 DEF Next, Queue!QNext

(* The ring buffer is a bounded list of messages.                           *)
THEOREM RingRefinesQueue == Spec => RingImplementsQueue
<1>1. Init => Queue!QInit
  BY InitMaps
<1>2. TypeOK /\ TypeOK' /\ [Next]_vars => [Queue!QNext]_(Queue!qvars)
  BY StepMaps
<1> QED  BY <1>1, <1>2, RingTypes, PTL DEF Spec, RingImplementsQueue, Queue!QSpec

-----------------------------------------------------------------------------
(* The VI manager.                                                         *)


(* Both contexts hold whole settings: a mode of the table and a control    *)
(* word for it.                                                            *)
ViInv == viCtx \in [{0, 1} -> Contexts] /\ viNext \in {0, 1}

(* The control word of a mode, as the table has it and as a feature of     *)
(* osViSetSpecialFeatures changes it.                                      *)
Controls == [aa : 0 .. 3, divot : BOOLEAN, gamma : BOOLEAN, gammaDither : BOOLEAN,
             ditherFilter : BOOLEAN]

LEMMA ControlOfMode == ASSUME NEW m \in Modes PROVE Ctrl(m) \in Controls
BY DEF Ctrl, Controls, AaMode

LEMMA ControlOfFeature ==
  ASSUME NEW c \in Contexts, NEW ft \in ViFeatures
  PROVE  Feature(c, ft) \in Controls
<1>1. c.ctrl \in Controls /\ c.mode \in Modes
  BY DEF Contexts, Controls
<1>2. AaMode(c.mode) \in 0 .. 3 /\ 0 \in 0 .. 3
  BY DEF AaMode
<1>3. ASSUME NEW k \in Controls, NEW v \in BOOLEAN, NEW a \in 0 .. 3
      PROVE  /\ [k EXCEPT !.gamma = v] \in Controls /\ [k EXCEPT !.gammaDither = v] \in Controls
             /\ [k EXCEPT !.divot = v] \in Controls
             /\ [k EXCEPT !.ditherFilter = v, !.aa = a] \in Controls
  BY DEF Controls
<1>4. ft \in {"GAMMA_ON", "GAMMA_OFF", "GAMMA_DITHER_ON", "GAMMA_DITHER_OFF", "DIVOT_ON",
             "DIVOT_OFF", "DITHER_FILTER_ON", "DITHER_FILTER_OFF"}
  BY ViAssumption
<1>5. TRUE \in BOOLEAN /\ FALSE \in BOOLEAN
  OBVIOUS
<1>6. CASE ft = "GAMMA_ON"
  <2>1. Feature(c, ft) = [c.ctrl EXCEPT !.gamma = TRUE]
    BY <1>6 DEF Feature
  <2> QED  BY <1>1, <1>2, <1>3, <1>5, <2>1
<1>7. CASE ft = "GAMMA_OFF"
  <2>1. Feature(c, ft) = [c.ctrl EXCEPT !.gamma = FALSE]
    BY <1>7 DEF Feature
  <2> QED  BY <1>1, <1>2, <1>3, <1>5, <2>1
<1>8. CASE ft = "GAMMA_DITHER_ON"
  <2>1. Feature(c, ft) = [c.ctrl EXCEPT !.gammaDither = TRUE]
    BY <1>8 DEF Feature
  <2> QED  BY <1>1, <1>2, <1>3, <1>5, <2>1
<1>9. CASE ft = "GAMMA_DITHER_OFF"
  <2>1. Feature(c, ft) = [c.ctrl EXCEPT !.gammaDither = FALSE]
    BY <1>9 DEF Feature
  <2> QED  BY <1>1, <1>2, <1>3, <1>5, <2>1
<1>10. CASE ft = "DIVOT_ON"
  <2>1. Feature(c, ft) = [c.ctrl EXCEPT !.divot = TRUE]
    BY <1>10 DEF Feature
  <2> QED  BY <1>1, <1>2, <1>3, <1>5, <2>1
<1>11. CASE ft = "DIVOT_OFF"
  <2>1. Feature(c, ft) = [c.ctrl EXCEPT !.divot = FALSE]
    BY <1>11 DEF Feature
  <2> QED  BY <1>1, <1>2, <1>3, <1>5, <2>1
<1>12. CASE ft = "DITHER_FILTER_ON"
  <2>1. Feature(c, ft) = [c.ctrl EXCEPT !.ditherFilter = TRUE, !.aa = 0]
    BY <1>12 DEF Feature
  <2> QED  BY <1>1, <1>2, <1>3, <1>5, <2>1
<1>13. CASE ft = "DITHER_FILTER_OFF"
  <2>1. Feature(c, ft) = [c.ctrl EXCEPT !.ditherFilter = FALSE, !.aa = AaMode(c.mode)]
    BY <1>13 DEF Feature
  <2> QED  BY <1>1, <1>2, <1>3, <1>5, <2>1
<1> QED  BY <1>4, <1>6, <1>7, <1>8, <1>9, <1>10, <1>11, <1>12, <1>13

LEMMA InitialContext ==
  ASSUME NEW tv \in ViTv PROVE Context(Lan1(tv), TRUE) \in Contexts
<1>1. Lan1(tv) \in Modes
  BY ViAssumption DEF Lan1, Modes
<1> QED  BY <1>1, ControlOfMode DEF Context, Contexts, Controls

(* A call stages settings made from the ones of the calls before it.       *)
LEMMA StagesContext ==
  ASSUME ViInv, ViStep
  PROVE  \/ \E f \in {0, 1} : ViRetrace(f)
         \/ \E c \in Contexts : Stage(c)
<1>1. Next_ \in Contexts
  BY DEF ViInv, Next_
<1>2. ASSUME NEW m \in ViModeSet, SetMode(m) PROVE \E c \in Contexts : Stage(c)
  <2>1. m \in Modes /\ Ctrl(m) \in Controls
    BY ViAssumption, ControlOfMode
  <2>2. [Next_ EXCEPT !.mode = m, !.ctrl = Ctrl(m), !.black = FALSE, !.shrunk = FALSE] \in Contexts
    BY <1>1, <2>1 DEF Contexts, Controls
  <2> QED  BY <1>2, <2>2 DEF SetMode
<1>3. ASSUME NEW ft \in ViFeatures, SetSpecialFeatures(ft) PROVE \E c \in Contexts : Stage(c)
  <2>1. [Next_ EXCEPT !.ctrl = Feature(Next_, ft)] \in Contexts
    BY <1>1, ControlOfFeature DEF Contexts, Controls
  <2> QED  BY <1>3, <2>1 DEF SetSpecialFeatures
<1>4. ASSUME NEW b \in BOOLEAN, SetYScale(b) \/ Black(b) PROVE \E c \in Contexts : Stage(c)
  <2>1. [Next_ EXCEPT !.shrunk = b] \in Contexts /\ [Next_ EXCEPT !.black = b] \in Contexts
    BY <1>1 DEF Contexts
  <2> QED  BY <1>4, <2>1 DEF SetYScale, Black
<1>5. ASSUME NEW fb \in ViBuffers, SwapBuffer(fb) PROVE \E c \in Contexts : Stage(c)
  <2>1. [Next_ EXCEPT !.fb = fb] \in Contexts
    BY <1>1 DEF Contexts
  <2> QED  BY <1>5, <2>1 DEF SwapBuffer
<1>6. ASSUME NEW n \in ViDivisors, SetEvent(n) PROVE \E c \in Contexts : Stage(c)
  <2>1. [Next_ EXCEPT !.count = n] \in Contexts
    BY <1>1, ViAssumption DEF Contexts
  <2> QED  BY <1>6, <2>1 DEF SetEvent
<1> QED  BY <1>2, <1>3, <1>4, <1>5, <1>6 DEF ViStep

LEMMA ViInitInv == ViInit => ViInv
BY InitialContext DEF ViInit, ViInv

LEMMA ViStepInv == ViInv /\ [ViStep]_viVars => ViInv'
<1> SUFFICES ASSUME ViInv, [ViStep]_viVars PROVE ViInv'
  OBVIOUS
<1>1. ASSUME NEW f \in {0, 1}, ViRetrace(f) PROVE ViInv'
  BY <1>1 DEF ViRetrace, SwapContext, ViInv, Next_
<1>2. ASSUME NEW c \in Contexts, Stage(c) PROVE ViInv'
  BY <1>2 DEF Stage, ViInv
<1>3. CASE UNCHANGED viVars
  BY <1>3 DEF viVars, ViInv
<1> QED  BY <1>1, <1>2, <1>3, StagesContext

-----------------------------------------------------------------------------
(* The two contexts implement one set of settings: a call changes what the *)
(* calls before it left, and a retrace programs all of it (ViSettings).    *)
THEOREM ViImplementsSettings == ViSpec => ShowsSettings
<1>1. ViInit => Next_ \in Contexts
  BY ViInitInv DEF ViInv, Next_
<1>2. ViInv /\ [ViStep]_viVars => [Display!Ask \/ Display!Show]_<<Next_, viRegs>>
  <2> SUFFICES ASSUME ViInv, [ViStep]_viVars
               PROVE  [Display!Ask \/ Display!Show]_<<Next_, viRegs>>
    OBVIOUS
  <2>1. ASSUME NEW f \in {0, 1}, ViRetrace(f) PROVE Display!Show
    <3>1. Next_' = Next_
      BY <2>1 DEF ViRetrace, SwapContext, ViInv, Next_
    <3>2. viRegs' = Programmed(Next_, f)
      BY <2>1 DEF ViRetrace, SwapContext
    <3> QED  BY <3>1, <3>2 DEF Display!Show
  <2>2. ASSUME NEW c \in Contexts, Stage(c) PROVE Display!Ask
    <3>1. Next_' = c
      BY <2>2 DEF Stage, ViInv, Next_
    <3> QED  BY <2>2, <3>1 DEF Stage, Display!Ask
  <2>3. CASE UNCHANGED viVars
    BY <2>3 DEF viVars, Next_
  <2> QED  BY <2>1, <2>2, <2>3, StagesContext
<1> QED  BY <1>1, <1>2, ViInitInv, ViStepInv, PTL DEF ViSpec, ShowsSettings, Display!DisplaySpec

-----------------------------------------------------------------------------
(* What the table of modes gives for the two fields of a mode.             *)

FitsAtScale(r, m) == Shown(r, LastLine(r)) < 4 * Lines(m)

Height(m) == IF m.tv = "FPAL" THEN 570 ELSE 474

LEMMA FieldsOfMode ==
  ASSUME NEW m \in Modes
  PROVE  \E b \in Int : \A f \in {0, 1} :
           FieldRegs(m, f) = IF m.res = "L" THEN Low(m, f, b, Height(m)) ELSE High(m, f, b, Height(m))
<1>1. m.tv \in {"NTSC", "PAL", "MPAL", "FPAL"} /\ m.res \in {"L", "H"}
  BY DEF Modes
<1>2. CASE m.tv = "FPAL"
  <2> WITNESS 617 \in Int
  <2> QED  BY <1>1, <1>2 DEF FieldRegs, FpalLow, FpalHigh, Height
<1>3. CASE m.tv = "PAL"
  <2> WITNESS 569 \in Int
  <2> QED  BY <1>1, <1>3 DEF FieldRegs, PalLow, PalHigh, Height
<1>4. CASE m.tv \in {"NTSC", "MPAL"}
  <2> WITNESS 511 \in Int
  <2> QED  BY <1>1, <1>4 DEF FieldRegs, NtscLow, NtscHigh, MpalLow, MpalHigh, Height
<1> QED  BY <1>1, <1>2, <1>3, <1>4

(* The fields of a mode whose table entry starts at b, with step st.        *)
Field(m, f, b, st) ==
  [(IF m.res = "L" THEN Low(m, f, b, Height(m)) ELSE High(m, f, b, Height(m))) EXCEPT !.step = st]
Step(m) == IF m.res = "L" THEN 4 ELSE 8

LEMMA FieldsFit ==
  ASSUME NEW m \in Modes, NEW b \in Int, NEW st \in {Step(m), Step(m) \div 2},
         NEW r0, NEW r1, r0 = Field(m, 0, b, st), r1 = Field(m, 1, b, st)
  PROVE  /\ FitsAtScale(r0, m) /\ FitsAtScale(r1, m)
         /\ r1.end - r1.top = r0.end - r0.top
         /\ r0.serrate /\ st = Step(m) => 2 * (Shown(r1, 0) - Shown(r0, 0)) = r0.step
                                      /\ r1.top = r0.top + 2
         /\ ~r0.serrate => r1 = r0
<1>1. m.res \in {"L", "H"} /\ m.scan \in {"N", "F"} /\ Height(m) \in {474, 570}
      /\ (Height(m) = 570 <=> m.tv = "FPAL")
  BY DEF Modes, Height
<1>2. CASE m.res = "L"
  <2>1. st \in {2, 4} /\ Step(m) = 4 /\ Lines(m) = IF m.tv = "FPAL" THEN 288 ELSE 240
    BY <1>2 DEF Step, Lines
  <2>2. CASE m.scan = "N"
    <3>1. r0 = [serrate |-> FALSE, origin |-> 4, step |-> st, top |-> b - Height(m),
                end |-> b - Height(m) + Height(m), offset |-> 0] /\ r1 = r0
      BY <1>2, <2>2 DEF Field, Low
    <3> QED  BY <1>1, <2>1, <3>1 DEF FitsAtScale, Shown, LastLine
  <2>3. CASE m.scan = "F"
    <3> DEFINE low(f) == LET top == IF f = 0 THEN b - Height(m) - 2 ELSE b - Height(m)
                         IN  [serrate |-> TRUE, origin |-> 4, step |-> 4, top |-> top,
                              end |-> top + Height(m), offset |-> 1 + 2 * f]
    <3>1. \A f \in {0, 1} : Low(m, f, b, Height(m)) = low(f)
      BY <2>3, Zenon DEF Low
    <3>2. \A f \in {0, 1} : Field(m, f, b, st) = [low(f) EXCEPT !.step = st]
      BY <1>2, <3>1 DEF Field
    <3>3. /\ r0.serrate /\ r0.origin = 4 /\ r0.step = st /\ r0.offset = 1
          /\ r0.top = b - Height(m) - 2 /\ r0.end = b - Height(m) - 2 + Height(m)
      BY <3>2
    <3>4. /\ r1.serrate /\ r1.origin = 4 /\ r1.step = st /\ r1.offset = 3
          /\ r1.top = b - Height(m) /\ r1.end = b - Height(m) + Height(m)
      BY <3>2
    <3> QED  BY <1>1, <2>1, <3>3, <3>4 DEF FitsAtScale, Shown, LastLine
  <2> QED  BY <1>1, <2>2, <2>3
<1>3. CASE m.res = "H"
  <2> DEFINE off == IF m.scan = "F" THEN 2 ELSE 0
  <2>1. st \in {4, 8} /\ Step(m) = 8 /\ Lines(m) = IF m.tv = "FPAL" THEN 576 ELSE 480
    BY <1>3 DEF Step, Lines
  <2>2. /\ r0.serrate = TRUE /\ r0.origin = 4 /\ r0.step = st /\ r0.offset = off
        /\ r0.top = b - Height(m) - 2 /\ r0.end = b - Height(m) - 2 + Height(m)
    BY <1>3 DEF Field, High
  <2>3. /\ r1.serrate = TRUE /\ r1.origin = 8 /\ r1.step = st /\ r1.offset = off
        /\ r1.top = b - Height(m) /\ r1.end = b - Height(m) + Height(m)
    BY <1>3 DEF Field, High
  <2>4. off \in {0, 2}
    OBVIOUS
  <2> HIDE DEF off
  <2> QED  BY <1>1, <2>1, <2>2, <2>3, <2>4 DEF FitsAtScale, Shown, LastLine
<1> QED  BY <1>1, <1>2, <1>3

(* Whatever mode of the table is on display, with whatever scale, no field *)
(* scans past the frame buffer, and the second field of an interlaced mode *)
(* shows the lines between those of the first (vitbl.c, osViSetYScale).    *)
THEOREM ViScansInFrame == ViSpec => []ScanInFrame
<1>1. ASSUME ViInv PROVE ScanInFrame
  <2> DEFINE c == Curr_
             r0 == Programmed(c, 0).regs
             r1 == Programmed(c, 1).regs
             st == IF c.shrunk THEN Step(c.mode) \div 2 ELSE Step(c.mode)
  <2>1. c \in Contexts
    BY <1>1 DEF ViInv, Curr_
  <2>2. c.mode \in Modes /\ c.shrunk \in BOOLEAN
    BY <2>1 DEF Contexts
  <2>3. PICK b \in Int : \A f \in {0, 1} :
          FieldRegs(c.mode, f) = IF c.mode.res = "L" THEN Low(c.mode, f, b, Height(c.mode))
                                 ELSE High(c.mode, f, b, Height(c.mode))
    BY <2>2, FieldsOfMode
  <2>4. \A f \in {0, 1} : Programmed(c, f).regs = Field(c.mode, f, b, st)
    <3> SUFFICES ASSUME NEW f \in {0, 1} PROVE Programmed(c, f).regs = Field(c.mode, f, b, st)
      OBVIOUS
    <3>1. Programmed(c, f).regs = IF c.shrunk THEN [FieldRegs(c.mode, f) EXCEPT !.step = @ \div 2]
                                  ELSE FieldRegs(c.mode, f)
      BY DEF Programmed
    <3> HIDE DEF c
    <3> DEFINE q == FieldRegs(c.mode, f)
    <3>2. Field(c.mode, f, b, st) = [q EXCEPT !.step = st]
      BY <2>3 DEF Field
    <3>3. q.step = Step(c.mode) /\ q = [q EXCEPT !.step = Step(c.mode)]
      <4>1. CASE c.mode.res = "L"
        BY <2>3, <4>1 DEF Step, Low
      <4>2. CASE c.mode.res # "L"
        BY <2>3, <4>2 DEF Step, High
      <4> QED  BY <4>1, <4>2
    <3> HIDE DEF q
    <3> QED  BY <3>1, <3>2, <3>3 DEF q
  <2>5. st \in {Step(c.mode), Step(c.mode) \div 2} /\ (~c.shrunk => st = Step(c.mode))
    OBVIOUS
  <2>6. r0 = Field(c.mode, 0, b, st) /\ r1 = Field(c.mode, 1, b, st)
    BY <2>4
  <2> HIDE DEF c, r0, r1, st
  <2>7. /\ FitsAtScale(r0, c.mode) /\ FitsAtScale(r1, c.mode)
        /\ r1.end - r1.top = r0.end - r0.top
        /\ r0.serrate /\ ~c.shrunk =>
              2 * (Shown(r1, 0) - Shown(r0, 0)) = r0.step /\ r1.top = r0.top + 2
        /\ ~r0.serrate => r1 = r0
    <3>1. r0.serrate /\ st = Step(c.mode) =>
            2 * (Shown(r1, 0) - Shown(r0, 0)) = r0.step /\ r1.top = r0.top + 2
      BY <2>2, <2>5, <2>6, FieldsFit
    <3> QED  BY <2>2, <2>5, <2>6, <3>1, FieldsFit
  <2> QED  BY <2>7 DEF ScanInFrame, FitsAtScale, c, r0, r1
<1> QED  BY <1>1, ViInitInv, ViStepInv, PTL DEF ViSpec


-----------------------------------------------------------------------------
(* The buffer of n frames ago, of three that take turns.                   *)
Before(n) == (taskCount + 3 - n) % 3

AudEntries == [buf : 0 .. 3, left : Int]

(* What plays or waits to is a silence, or one of the last two frames the  *)
(* RSP has finished; the older one only while it plays and the other waits.*)
AudFifo ==
  /\ aiFifo \in Seq(AudEntries) /\ Len(aiFifo) <= 2
  /\ \A i \in DOMAIN aiFifo :
       /\ aiFifo[i].buf \in {Silence, Before(2), Before(3)}
       /\ aiFifo[i].buf = Before(3) => i = 1 /\ Len(aiFifo) = 2
       /\ lastTask = NoBuffer => aiFifo[i].buf = Silence

AudTurns ==
  /\ taskCount \in 0 .. 2 /\ lastTask \in {NoBuffer} \cup 0 .. 2 /\ rspBuf \in {NoBuffer} \cup 0 .. 2
  /\ player \in BOOLEAN /\ commands \in BOOLEAN /\ onlyOne \in BOOLEAN
  /\ lastTask # NoBuffer => lastTask = Before(1) /\ player /\ commands
  /\ rspBuf # NoBuffer => rspBuf = lastTask

AudSizes == frameSamples \in [0 .. 2 -> Int] /\ \A i \in 0 .. 2 : frameSamples[i] <= Allocated

AudIInv == AudFifo /\ AudTurns /\ AudSizes

(* A buffer is allocated for a frame with all its corrections.             *)
LEMMA AudBudget == Nominal \in Nat /\ ExtraSamples \in Nat /\ NSamples \in Nat \ {0}
<1>1. NSamples \in Nat \ {0} /\ Calc \in Nat \ {0} /\ ExtraRate \in Nat
  BY AudAssumption DEF AudAssumption
<1>2. Calc \div NSamples \in Nat
  BY <1>1
<1>3. \A a, b \in Nat : a * b \in Nat
  OBVIOUS
<1>4. Nominal \in Nat
  BY <1>1, <1>2, <1>3 DEF Nominal
<1>5. Nominal * ExtraRate \in Nat
  BY <1>1, <1>3, <1>4
<1>6. \A a \in Nat : a \div 100 \in Nat
  OBVIOUS
<1> QED  BY <1>1, <1>4, <1>5, <1>6 DEF ExtraSamples

LEMMA AudInitInv == AudInit => AudIInv
<1> SUFFICES ASSUME AudInit PROVE AudIInv
  OBVIOUS
<1>1. AudFifo
  BY DEF AudInit, AudFifo
<1>2. AudTurns
  BY 0 \in 0 .. 2 DEF AudInit, AudTurns
<1>3. 0 <= Allocated
  BY AudBudget DEF Allocated
<1> QED  BY <1>1, <1>2, <1>3 DEF AudInit, AudSizes, AudIInv

LEMMA AudPlays == ASSUME AudIInv, AudRetrace PROVE AudIInv'
<1> USE DEF AudIInv
<1>1. PICK r \in {Calc - 1, Calc} : aiFifo' = Played(r)
  BY DEF AudRetrace
<1>2. UNCHANGED <<taskCount, lastTask, frameSamples, player, commands, onlyOne, paused, rspBuf>>
  BY DEF AudRetrace
<1>3. r \in Int
  BY AudAssumption DEF AudAssumption
<1>4. AudFifo'
  <2>1. CASE aiFifo' = <<>>
    BY <2>1, <1>2 DEF AudFifo
  <2>2. CASE aiFifo # <<>> /\ aiFifo' = [aiFifo EXCEPT ![1].left = @ - r]
    <3>1. aiFifo[1] \in AudEntries /\ 1 \in DOMAIN aiFifo
      BY <2>2 DEF AudFifo
    <3>2. [aiFifo[1] EXCEPT !.left = @ - r] \in AudEntries
          /\ [aiFifo[1] EXCEPT !.left = @ - r].buf = aiFifo[1].buf
      BY <3>1, <1>3 DEF AudEntries
    <3> DEFINE e == [aiFifo[1] EXCEPT !.left = @ - r]
    <3>3. aiFifo' = [aiFifo EXCEPT ![1] = e]
      BY <2>2
    <3> HIDE DEF e
    <3> QED  BY <3>1, <3>2, <3>3, <1>2 DEF AudFifo, Before, e
  <2>3. CASE FifoFull /\ aiFifo' = <<[aiFifo[2] EXCEPT !.left = @ - (r - aiFifo[1].left)]>>
    <3>1. aiFifo[1] \in AudEntries /\ aiFifo[2] \in AudEntries
      BY <2>3 DEF AudFifo, FifoFull
    <3> DEFINE e == [aiFifo[2] EXCEPT !.left = @ - (r - aiFifo[1].left)]
    <3>2. e \in AudEntries /\ e.buf = aiFifo[2].buf
      BY <3>1, <1>3 DEF AudEntries
    <3>3. aiFifo' = <<e>>
      BY <2>3
    <3> HIDE DEF e
    <3> QED  BY <2>3, <3>1, <3>2, <3>3, <1>2 DEF AudFifo, Before, FifoFull
  <2> QED  BY <1>1, <2>1, <2>2, <2>3 DEF Played
<1>5. AudTurns' /\ AudSizes'
  BY <1>2 DEF AudTurns, AudSizes, Before, Allocated
<1> QED  BY <1>4, <1>5

LEMMA AudMade == ASSUME AudIInv, FrameMade PROVE AudIInv'
<1> USE DEF AudIInv
<1>1. AudSizes'
  <2>1. SamplesCurrent(AiGetLength) \in Int /\ SamplesCurrent(AiGetLength) <= Allocated
    BY AudBudget DEF SamplesCurrent, Allocated
  <2> QED  BY <2>1 DEF FrameMade, AudSizes, AudTurns, Allocated
<1>2. AudTurns'
  BY AudAssumption DEF AudAssumption, AudTurns, FrameMade, NextTask, Before, InBand
<1>3. Len(aiFifo) \in {0, 1} /\ NoBuffer \notin 0 .. 3
  <2>1. Len(aiFifo) # 2 /\ Len(aiFifo) <= 2 /\ Len(aiFifo) \in Nat
    BY DEF AudFifo, FrameMade, FifoFull
  <2>2. \A n \in Nat : n <= 2 /\ n # 2 => n \in {0, 1}
    OBVIOUS
  <2>3. NoBuffer \notin 0 .. 3
    BY AudAssumption DEF AudAssumption
  <2> QED  BY <2>1, <2>2, <2>3
<1>4. Before(3)' = Before(2) /\ Before(2)' = Before(1) /\ Before(2) # Before(1) /\ Before(1) # Before(3)
      /\ Before(1) \in 0 .. 2 /\ Before(2) \in 0 .. 2 /\ Before(2) # Before(3)
  BY DEF AudTurns, FrameMade, NextTask, Before
<1>5. AudFifo'
  <2>1. CASE lastTask # NoBuffer
    <3> DEFINE e == [buf |-> lastTask, left |-> frameSamples[lastTask]]
    <3>1. aiFifo' = Append(aiFifo, e)
      BY <2>1, <1>3 DEF FrameMade, AudTurns, AiSetNextBuffer, FifoFull
    <3>2. e \in AudEntries /\ e.buf = Before(1)
      BY <2>1 DEF AudEntries, AudTurns, AudSizes
    <3>3. lastTask' # NoBuffer
      BY <2>1, <1>3 DEF FrameMade, AudTurns
    <3>4. \A i \in DOMAIN aiFifo : i = 1 /\ aiFifo[1].buf \in {Silence, Before(2)} /\ aiFifo'[1] = aiFifo[1]
      BY <1>3, <3>1 DEF AudFifo
    <3>5. aiFifo'[Len(aiFifo) + 1] = e
      BY <3>1, <1>3 DEF AudFifo
    <3>6. Len(aiFifo') = Len(aiFifo) + 1 /\ aiFifo' \in Seq(AudEntries)
      BY <3>1, <3>2 DEF AudFifo
    <3> HIDE DEF e
    <3>7. ASSUME NEW i \in DOMAIN aiFifo'
          PROVE  /\ aiFifo'[i].buf \in {Silence, Before(2)', Before(3)'}
                 /\ aiFifo'[i].buf = Before(3)' => i = 1 /\ Len(aiFifo') = 2
      <4>1. CASE i \in DOMAIN aiFifo
        BY <4>1, <3>4, <3>6, <1>4, <1>3 DEF AudFifo, Silence
      <4>2. CASE i = Len(aiFifo) + 1
        BY <4>2, <3>5, <3>2, <1>4, <1>3 DEF Silence
      <4> QED  BY <4>1, <4>2, <3>6, <1>3 DEF AudFifo
    <3> QED  BY <3>3, <3>6, <3>7, <1>3 DEF AudFifo, Silence
  <2>2. CASE lastTask = NoBuffer
    BY <2>2, <1>3, <1>4 DEF FrameMade, AudFifo, Silence, AudTurns
  <2> QED  BY <2>1, <2>2
<1> QED  BY <1>1, <1>2, <1>5

LEMMA AudPauses == ASSUME AudIInv, FramePaused, SilenceSize \in Int PROVE AudIInv'
<1> USE DEF AudIInv
<1>1. AudTurns' /\ AudSizes'
  BY DEF FramePaused, AudTurns, AudSizes, Before, Allocated
<1>2. CASE FifoFull
  BY <1>1, <1>2 DEF FramePaused, AiSetNextBuffer, AudFifo, Before
<1>3. CASE ~FifoFull
  <2> DEFINE e == [buf |-> Silence, left |-> SilenceSize]
  <2>1. aiFifo' = Append(aiFifo, e) /\ e \in AudEntries /\ e.buf = Silence
    BY <1>3 DEF AudEntries, FramePaused, AiSetNextBuffer, Silence
  <2> HIDE DEF e
  <2>4. \A n \in Nat : n <= 2 /\ n # 2 => n \in {0, 1}
    OBVIOUS
  <2>5. Len(aiFifo) \in {0, 1}
    <3>1. Len(aiFifo) # 2 /\ Len(aiFifo) <= 2 /\ Len(aiFifo) \in Nat
      BY <1>3 DEF AudFifo, FifoFull
    <3> QED  BY <3>1, <2>4
  <2>2. Len(aiFifo) \in {0, 1} /\ aiFifo' \in Seq(AudEntries) /\ Len(aiFifo') = Len(aiFifo) + 1
    BY <2>1, <2>5 DEF AudFifo
  <2>3. Before(2)' = Before(2) /\ Before(3)' = Before(3) /\ lastTask' = lastTask /\ Before(2) \in 0 .. 2 /\ Before(3) \in 0 .. 2
    BY DEF FramePaused, Before, AudTurns
  <2>6. ASSUME NEW i \in DOMAIN aiFifo' PROVE aiFifo'[i] = e \/ (i \in DOMAIN aiFifo /\ aiFifo'[i] = aiFifo[i] /\ Len(aiFifo) = 1)
    BY <2>1, <2>2 DEF AudFifo
  <2> QED  BY <1>1, <2>1, <2>2, <2>3, <2>6 DEF AudFifo, Silence
<1> QED  BY <1>2, <1>3

LEMMA AudNextInv == AudIInv /\ [AudNext]_audVars => AudIInv'
<1> SUFFICES ASSUME AudIInv, [AudNext]_audVars PROVE AudIInv'
  OBVIOUS
<1>1. SilenceSize \in Int
  BY AudAssumption DEF AudAssumption
<1>2. CASE FrameSkipped \/ AudTaskDone \/ AudPause \/ AddPlayer \/ UNCHANGED audVars
  BY <1>2 DEF AudIInv, AudFifo, AudTurns, AudSizes, Before, Allocated, FrameSkipped, AudTaskDone, AudPause,
     AddPlayer, audVars
<1> QED  BY <1>1, <1>2, AudPlays, AudMade, AudPauses DEF AudNext

(* The samples the RSP is about to write go where the AI plays nothing     *)
(* from, and has nothing to play from next.                                *)
THEOREM AudFilledUnheard == AudSpec => []FilledUnheard
<1>1. AudIInv => FilledUnheard
  BY AudAssumption DEF AudAssumption, AudIInv, AudFifo, AudTurns, AudSizes, FilledUnheard, Before, Silence
<1> QED  BY <1>1, AudInitInv, AudNextInv, PTL DEF AudSpec

-----------------------------------------------------------------------------
(* What the AI has left where a short frame follows, with the error of two *)
(* rounded frames more, is less than a frame: it has come to the short     *)
(* frame at the next retrace, and no frame is skipped then.                *)
RateFits == NSamples + ExtraSamples + 2 * (Nominal - Calc) + 3 <= Calc

(* The samples of the last frame, which the AI does not have yet.          *)
Pending == frameSamples[lastTask]

Left(i) == aiFifo[i].left

Full == /\ Pending = Nominal /\ Left(1) >= 1
        /\ onlyOne => InBand(Left(1))
        /\ Left(2) = Nominal

(* A short frame is made when more than the band is left, and the one      *)
(* after it is not.                                                        *)
ShortPends == /\ Pending = Nominal - NSamples /\ ~onlyOne /\ Left(2) = Nominal
              /\ Left(1) > NSamples + ExtraSamples /\ Left(1) <= NSamples + ExtraSamples + Nominal - Calc + 1
ShortWaits == /\ Pending = Nominal /\ ~onlyOne /\ Left(2) = Nominal - NSamples
              /\ Left(1) > NSamples + ExtraSamples /\ Left(1) < Calc

Silent == aiFifo = <<>> /\ (lastTask # NoBuffer => Pending \in {Nominal, Nominal + NSamples}
                                                   /\ (onlyOne => ExtraSamples = 0))

(* From the frame to the retrace.                                          *)
AfterFrame ==
  \/ Silent
  \/ /\ Len(aiFifo) = 1 /\ lastTask # NoBuffer
     /\ Left(1) \in {Nominal, Nominal + NSamples} /\ Pending = Nominal /\ (onlyOne => ExtraSamples = 0)
  \/ FifoFull /\ lastTask # NoBuffer /\ (Full \/ ShortPends \/ ShortWaits)

(* From the retrace to the frame.                                          *)
AfterRetrace ==
  \/ Silent
  \/ /\ Len(aiFifo) = 1 /\ lastTask # NoBuffer
     /\ \/ /\ Pending = Nominal /\ Left(1) >= 1
           /\ onlyOne => Left(1) >= ExtraSamples /\ Left(1) <= NSamples + ExtraSamples + Nominal - Calc + 1
        \/ /\ Pending = Nominal - NSamples /\ ~onlyOne
           /\ Left(1) > NSamples + ExtraSamples /\ Left(1) < Calc
  \/ FifoFull /\ lastTask # NoBuffer /\ Full /\ ~onlyOne

AudPace ==
  smooth => ~dry /\ ((frameMsgs = 0 /\ AfterFrame) \/ (frameMsgs = 1 /\ AfterRetrace))

LEMMA AudRate ==
  ASSUME RateFits
  PROVE  /\ Nominal \in Int /\ ExtraSamples \in Int /\ NSamples \in Int /\ Calc \in Int
         /\ Nominal > Calc /\ ExtraSamples >= 0 /\ NSamples >= 1
         /\ NSamples + ExtraSamples + 2 * (Nominal - Calc) + 3 <= Calc
<1>1. NSamples \in Nat \ {0} /\ Calc \in Nat \ {0}
  BY AudAssumption DEF AudAssumption
<1>2. PICK q \in Int, m \in Int : q = Calc \div NSamples /\ m = Calc % NSamples
  BY <1>1
<1>3. Calc = NSamples * q + m /\ m < NSamples
  BY <1>1, <1>2
<1>4. (q + 1) * NSamples = NSamples * q + NSamples
  BY <1>1
<1>5. Nominal > Calc
  BY <1>1, <1>2, <1>3, <1>4 DEF Nominal
<1> QED  BY <1>1, <1>5, AudBudget DEF RateFits

LEMMA AudShape ==
  ASSUME AudFifo
  PROVE  /\ Len(aiFifo) \in {0, 1, 2} /\ (aiFifo = <<>> <=> Len(aiFifo) = 0)
         /\ \A i \in DOMAIN aiFifo : aiFifo[i] \in AudEntries /\ aiFifo[i].left \in Int
         /\ Len(aiFifo) # 0 => 1 \in DOMAIN aiFifo
         /\ FifoFull => 1 \in DOMAIN aiFifo /\ 2 \in DOMAIN aiFifo
<1>1. aiFifo \in Seq(AudEntries) /\ Len(aiFifo) <= 2
  BY DEF AudFifo
<1>2. aiFifo = <<>> <=> Len(aiFifo) = 0
  BY <1>1, EmptySeq
<1>3. Len(aiFifo) \in Nat /\ DOMAIN aiFifo = 1 .. Len(aiFifo)
  BY <1>1
<1>4. \A i \in DOMAIN aiFifo : aiFifo[i] \in AudEntries
  BY <1>1, <1>3
<1>5. \A e \in AudEntries : e.left \in Int
  BY DEF AudEntries
<1>6. Len(aiFifo) \in {0, 1, 2}
  BY <1>1, <1>3
<1> QED  BY <1>2, <1>3, <1>4, <1>5, <1>6 DEF FifoFull

(* The AI has played r samples.                                            *)
LEMMA AudPlayed ==
  ASSUME AudFifo, NEW r \in Int
  PROVE  /\ aiFifo = <<>> => Played(r) = <<>>
         /\ Len(aiFifo) = 1 /\ Left(1) > r =>
              Len(Played(r)) = 1 /\ Played(r)[1].left = Left(1) - r
         /\ FifoFull /\ Left(1) > r =>
              Len(Played(r)) = 2 /\ Played(r)[1].left = Left(1) - r /\ Played(r)[2].left = Left(2)
         /\ FifoFull /\ Left(1) <= r /\ Left(2) > r - Left(1) =>
              Len(Played(r)) = 1 /\ Played(r)[1].left = Left(2) - (r - Left(1))
<1>1. aiFifo \in Seq(AudEntries) /\ (aiFifo # <<>> => aiFifo[1] \in AudEntries)
  BY AudShape DEF AudFifo
<1>2. ASSUME aiFifo # <<>>, Left(1) > r
      PROVE  /\ Len(Played(r)) = Len(aiFifo) /\ Played(r)[1].left = Left(1) - r
             /\ FifoFull => Played(r)[2].left = Left(2)
  <2> DEFINE e == [aiFifo[1] EXCEPT !.left = @ - r]
  <2>1. e.left = Left(1) - r
    BY <1>1, <1>2 DEF AudEntries, Left
  <2>2. Played(r) = [aiFifo EXCEPT ![1] = e]
    BY <1>2 DEF Played, Left
  <2> HIDE DEF e
  <2> QED  BY <1>1, <1>2, <2>1, <2>2 DEF FifoFull, Left
<1>3. ASSUME FifoFull, Left(1) <= r, Left(2) > r - Left(1)
      PROVE  Len(Played(r)) = 1 /\ Played(r)[1].left = Left(2) - (r - Left(1))
  <2> DEFINE e == [aiFifo[2] EXCEPT !.left = @ - (r - aiFifo[1].left)]
  <2>1. aiFifo # <<>> /\ aiFifo[2] \in AudEntries /\ aiFifo[1].left \in Int
    BY <1>3, AudShape DEF FifoFull
  <2>2. e.left = Left(2) - (r - Left(1))
    BY <2>1 DEF AudEntries, Left
  <2>3. Played(r) = <<e>>
    BY <1>3, <2>1 DEF Played, Left
  <2> HIDE DEF e
  <2> QED  BY <2>2, <2>3
<1>4. FifoFull => aiFifo # <<>>
  BY AudShape DEF FifoFull
<1>5. Len(aiFifo) = 1 => aiFifo # <<>>
  BY AudShape
<1> QED  BY <1>2, <1>3, <1>4, <1>5 DEF Played, FifoFull

LEMMA AudPaceRetrace == ASSUME RateFits, AudIInv, AudPace, AudRetrace PROVE AudPace'
<1> SUFFICES ASSUME smooth' PROVE ~dry' /\ frameMsgs' = 1 /\ AfterRetrace'
  BY DEF AudPace
<1>1. PICK r \in {Calc - 1, Calc} :
        aiFifo' = Played(r) /\ dry' = (dry \/ (aiFifo # <<>> /\ Played(r) = <<>>))
  BY DEF AudRetrace
<1>2. frameMsgs = 0 /\ AfterFrame /\ ~dry /\ frameMsgs' = 1
  <2>1. smooth /\ frameMsgs = 0
    BY DEF AudRetrace
  <2>2. QueueSize # 0
    BY AudAssumption DEF AudAssumption
  <2>3. frameMsgs' = 1
    BY <2>1, <2>2 DEF AudRetrace
  <2>4. ~dry /\ ((frameMsgs = 0 /\ AfterFrame) \/ (frameMsgs = 1 /\ AfterRetrace))
    BY <2>1 DEF AudPace
  <2> QED  BY <2>1, <2>3, <2>4
<1>3. onlyOne' = onlyOne /\ lastTask' = lastTask /\ Pending' = Pending
  BY DEF AudRetrace, Pending
<1>4. /\ Nominal \in Int /\ ExtraSamples \in Int /\ NSamples \in Int /\ Calc \in Int /\ r \in Int
      /\ Nominal > Calc /\ ExtraSamples >= 0 /\ NSamples >= 1 /\ r >= Calc - 1 /\ r <= Calc
      /\ NSamples + ExtraSamples + 2 * (Nominal - Calc) + 3 <= Calc
  BY AudRate
<1>5. AudFifo /\ \A i \in DOMAIN aiFifo : Left(i) \in Int
  BY AudShape DEF AudIInv, Left
<1>6. CASE Silent
  <2>1. aiFifo' = <<>> /\ ~dry'
    BY <1>1, <1>2, <1>4, <1>5, <1>6, AudPlayed DEF Silent
  <2> QED  BY <1>2, <1>3, <1>6, <2>1 DEF Silent, AfterRetrace
<1>7. CASE /\ Len(aiFifo) = 1 /\ lastTask # NoBuffer
           /\ Left(1) \in {Nominal, Nominal + NSamples} /\ Pending = Nominal /\ (onlyOne => ExtraSamples = 0)
  <2>1. PICK l \in Int : l = Left(1)
    BY <1>5, <1>7
  <2>2. Len(aiFifo') = 1 /\ Left(1)' = l - r
    BY <1>1, <1>4, <1>5, <1>7, <2>1, AudPlayed DEF Left
  <2>3. ~dry'
    <3>1. Played(r) # <<>>
      BY <1>1, <2>2
    <3> QED  BY <1>1, <1>2, <3>1
  <2>4. l - r >= 1 /\ (ExtraSamples = 0 => l - r >= ExtraSamples)
        /\ l - r <= NSamples + ExtraSamples + Nominal - Calc + 1
    BY <1>4, <1>7, <2>1
  <2> QED  BY <1>2, <1>3, <1>7, <2>2, <2>3, <2>4 DEF AfterRetrace
<1>8. CASE FifoFull /\ lastTask # NoBuffer /\ (Full \/ ShortPends \/ ShortWaits)
  <2>1. PICK l1 \in Int, l2 \in Int : l1 = Left(1) /\ l2 = Left(2)
    BY <1>5, <1>8 DEF FifoFull
  <2>2. l1 > r => Len(aiFifo') = 2 /\ Left(1)' = l1 - r /\ Left(2)' = l2
    BY <1>1, <1>4, <1>5, <1>8, <2>1, AudPlayed DEF Left
  <2>3. l1 <= r /\ l2 > r - l1 => Len(aiFifo') = 1 /\ Left(1)' = l2 - (r - l1)
    BY <1>1, <1>4, <1>5, <1>8, <2>1, AudPlayed DEF Left
  <2>4. l1 > r \/ (l1 <= r /\ l2 > r - l1) => ~dry'
    <3>1. l1 > r \/ (l1 <= r /\ l2 > r - l1) => Played(r) # <<>>
      BY <1>1, <2>2, <2>3
    <3> QED  BY <1>1, <1>2, <3>1
  <2>5. CASE Full /\ l1 > r
    <3>1. ~onlyOne
      BY <1>4, <2>1, <2>5 DEF Full, InBand
    <3>2. l1 - r >= 1
      BY <1>4, <2>5
    <3> QED  BY <1>2, <1>3, <1>8, <2>1, <2>2, <2>4, <2>5, <3>1, <3>2 DEF AfterRetrace, Full, FifoFull
  <2>6. CASE Full /\ l1 <= r
    <3>1. l2 = Nominal /\ l1 >= 1 /\ Pending = Nominal
          /\ (onlyOne => l1 >= ExtraSamples /\ l1 <= NSamples + ExtraSamples)
      BY <1>4, <2>1, <2>6 DEF Full, InBand
    <3>2. /\ l2 > r - l1 /\ l2 - (r - l1) >= 1
          /\ l1 >= ExtraSamples => l2 - (r - l1) >= ExtraSamples
          /\ l1 <= NSamples + ExtraSamples =>
               l2 - (r - l1) <= NSamples + ExtraSamples + Nominal - Calc + 1
      BY <1>4, <3>1
    <3> QED  BY <1>2, <1>3, <1>8, <2>3, <2>4, <2>6, <3>1, <3>2 DEF AfterRetrace
  <2>7. CASE ShortPends
    <3>1. /\ l2 = Nominal /\ l1 > NSamples + ExtraSamples
          /\ l1 <= NSamples + ExtraSamples + Nominal - Calc + 1
          /\ Pending = Nominal - NSamples /\ ~onlyOne
      BY <2>1, <2>7 DEF ShortPends
    <3>2. /\ l1 <= r /\ l2 > r - l1
          /\ l2 - (r - l1) > NSamples + ExtraSamples /\ l2 - (r - l1) < Calc
      BY <1>4, <3>1
    <3> QED  BY <1>2, <1>3, <1>8, <2>3, <2>4, <3>1, <3>2 DEF AfterRetrace
  <2>8. CASE ShortWaits
    <3>1. /\ l2 = Nominal - NSamples /\ l1 > NSamples + ExtraSamples /\ l1 < Calc
          /\ Pending = Nominal /\ ~onlyOne
      BY <2>1, <2>8 DEF ShortWaits
    <3>2. l1 <= r /\ l2 > r - l1 /\ l2 - (r - l1) >= 1
      BY <1>4, <3>1
    <3> QED  BY <1>2, <1>3, <1>8, <2>3, <2>4, <3>1, <3>2 DEF AfterRetrace
  <2> QED  BY <1>8, <1>4, <2>1, <2>5, <2>6, <2>7, <2>8
<1> QED  BY <1>2, <1>6, <1>7, <1>8 DEF AfterFrame

LEMMA AudPaceMade == ASSUME RateFits, AudIInv, AudPace, FrameMade PROVE AudPace'
<1> SUFFICES ASSUME smooth PROVE ~dry' /\ frameMsgs' = 0 /\ AfterFrame'
  BY DEF AudPace, FrameMade
<1>1. frameMsgs = 1 /\ AfterRetrace /\ ~dry' /\ frameMsgs' = 0
  BY DEF AudPace, FrameMade, WaitFrame
<1>2. /\ Nominal \in Int /\ ExtraSamples \in Int /\ NSamples \in Int /\ Calc \in Int
      /\ Nominal > Calc /\ ExtraSamples >= 0 /\ NSamples >= 1
      /\ NSamples + ExtraSamples + 2 * (Nominal - Calc) + 3 <= Calc
  BY AudRate
<1>3. PICK n \in Int : n = AiGetLength
  BY AudShape DEF AiGetLength, AudIInv
<1>4. onlyOne' = InBand(n)
  BY <1>3 DEF FrameMade
<1>5. player => lastTask' = taskCount /\ lastTask' # NoBuffer /\ Pending' = SamplesCurrent(n)
  BY <1>3, AudAssumption DEF AudAssumption, FrameMade, AudIInv, AudTurns, AudSizes, Pending
<1>6. /\ ~onlyOne => SamplesCurrent(n) = Nominal
      /\ onlyOne /\ n > NSamples + ExtraSamples => SamplesCurrent(n) = Nominal - NSamples
      /\ onlyOne /\ n < ExtraSamples => SamplesCurrent(n) = Nominal + NSamples
      /\ n >= ExtraSamples /\ n <= NSamples + ExtraSamples => SamplesCurrent(n) = Nominal
  BY <1>2 DEF SamplesCurrent
<1>7. InBand(n) <=> n >= ExtraSamples /\ n <= NSamples + ExtraSamples
  BY <1>2 DEF InBand
<1>8. lastTask # NoBuffer => player /\ commands
  BY DEF AudIInv, AudTurns
<1>9. CASE Silent
  <2>1. n = 0
    BY <1>3, <1>9 DEF Silent, AiGetLength
  <2>2. onlyOne' => ExtraSamples = 0
    BY <1>2, <1>4, <1>7, <2>1
  <2>3. CASE lastTask = NoBuffer
    <3>1. aiFifo' = <<>>
      BY <1>9, <2>3 DEF Silent, FrameMade
    <3>2. SamplesCurrent(n) \in {Nominal, Nominal + NSamples}
      BY <1>2, <1>6, <2>1
    <3>3. ~player => lastTask' = NoBuffer
      BY <2>3 DEF FrameMade
    <3>4. player \in BOOLEAN
      BY DEF AudIInv, AudTurns
    <3> QED  BY <1>1, <1>5, <2>2, <3>1, <3>2, <3>3, <3>4 DEF Silent, AfterFrame
  <2>4. CASE lastTask # NoBuffer
    <3>1. aiFifo' = <<[buf |-> lastTask, left |-> Pending]>>
      BY <1>8, <1>9, <2>4 DEF Silent, FrameMade, AiSetNextBuffer, FifoFull, Pending
    <3>2. Len(aiFifo') = 1 /\ Left(1)' = Pending
      BY <3>1 DEF Left
    <3>3. SamplesCurrent(n) = Nominal /\ Pending \in {Nominal, Nominal + NSamples}
      BY <1>2, <1>6, <1>9, <2>1, <2>4 DEF Silent
    <3> QED  BY <1>1, <1>5, <1>8, <2>2, <2>4, <3>2, <3>3 DEF AfterFrame
  <2> QED  BY <2>3, <2>4
<1>10. CASE Len(aiFifo) = 1 /\ lastTask # NoBuffer
  <2>1. n = Left(1)
    BY <1>3, <1>10, AudShape DEF AiGetLength, Left, AudIInv
  <2> DEFINE e == [buf |-> lastTask, left |-> Pending]
  <2>2. aiFifo' = Append(aiFifo, e) /\ e.left = Pending
    BY <1>8, <1>10 DEF FrameMade, AiSetNextBuffer, FifoFull, Pending
  <2> HIDE DEF e
  <2>3. FifoFull' /\ Left(1)' = n /\ Left(2)' = Pending
    <3>1. aiFifo \in Seq(AudEntries) /\ Len(aiFifo) = 1
      BY <1>10 DEF AudIInv, AudFifo
    <3>2. e \in AudEntries
      BY <1>2, <1>10, <2>1 DEF e, AudEntries, AudIInv, AudTurns, AudSizes, Pending
    <3>3. Len(aiFifo') = 2 /\ aiFifo'[1] = aiFifo[1] /\ aiFifo'[2] = e
      <4>1. /\ Len(Append(aiFifo, e)) = Len(aiFifo) + 1
            /\ \A i \in 1 .. Len(aiFifo) : Append(aiFifo, e)[i] = aiFifo[i]
            /\ Append(aiFifo, e)[Len(aiFifo) + 1] = e
        BY <3>1, <3>2, AppendProperties
      <4>2. Len(aiFifo) + 1 = 2 /\ 1 \in 1 .. Len(aiFifo)
        BY <3>1
      <4>3. aiFifo' = Append(aiFifo, e)
        BY <2>2
      <4> QED  BY <4>1, <4>2, <4>3
    <3> QED  BY <2>1, <2>2, <3>3 DEF FifoFull, Left
  <2>4. lastTask' # NoBuffer /\ Pending' = SamplesCurrent(n)
    BY <1>5, <1>8, <1>10
  <2>5. CASE /\ Pending = Nominal /\ n >= 1
             /\ onlyOne => n >= ExtraSamples /\ n <= NSamples + ExtraSamples + Nominal - Calc + 1
    <3>1. CASE ~onlyOne \/ n <= NSamples + ExtraSamples
      <4>1. Pending' = Nominal
        BY <1>6, <2>4, <2>5, <3>1
      <4> QED  BY <1>1, <1>4, <2>3, <2>4, <2>5, <4>1 DEF Full, AfterFrame
    <3>2. CASE onlyOne /\ n > NSamples + ExtraSamples
      <4>1. Pending' = Nominal - NSamples /\ ~onlyOne'
        BY <1>2, <1>4, <1>6, <1>7, <2>4, <3>2
      <4> QED  BY <1>1, <2>3, <2>4, <2>5, <3>2, <4>1 DEF ShortPends, AfterFrame
    <3> QED  BY <1>2, <3>1, <3>2
  <2>6. CASE /\ Pending = Nominal - NSamples /\ ~onlyOne
             /\ n > NSamples + ExtraSamples /\ n < Calc
    <3>1. Pending' = Nominal /\ ~onlyOne'
      BY <1>2, <1>4, <1>6, <1>7, <2>4, <2>6
    <3> QED  BY <1>1, <2>3, <2>4, <2>6, <3>1 DEF ShortWaits, AfterFrame
  <2> QED  BY <1>1, <1>10, <2>1, <2>5, <2>6 DEF AfterRetrace, Silent, FifoFull
<1> QED  BY <1>1, <1>9, <1>10 DEF AfterRetrace, FrameMade

LEMMA AudPaceSkipped == ASSUME AudPace, FrameSkipped PROVE AudPace'
<1> SUFFICES ASSUME smooth PROVE ~dry' /\ frameMsgs' = 0 /\ AfterFrame'
  BY DEF AudPace, FrameSkipped
<1>1. frameMsgs = 1 /\ AfterRetrace /\ ~dry' /\ frameMsgs' = 0 /\ FifoFull
  BY DEF AudPace, FrameSkipped, WaitFrame
<1>2. lastTask # NoBuffer /\ Full
  BY <1>1 DEF AfterRetrace, Silent, FifoFull
<1>3. FifoFull' /\ lastTask' # NoBuffer /\ Full'
  BY <1>1, <1>2 DEF FrameSkipped, FifoFull, Full, Left, Pending, InBand
<1> QED  BY <1>1, <1>3 DEF AfterFrame

LEMMA AudPaceNext == RateFits /\ AudIInv /\ AudPace /\ [AudNext]_audVars => AudPace'
<1> SUFFICES ASSUME RateFits, AudIInv, AudPace, [AudNext]_audVars PROVE AudPace'
  OBVIOUS
<1>1. CASE FramePaused
  BY <1>1 DEF FramePaused, AudPace
<1>2. CASE AudTaskDone \/ AudPause \/ AddPlayer \/ UNCHANGED audVars
  <2>1. UNCHANGED <<aiFifo, lastTask, frameSamples, onlyOne, frameMsgs, smooth, dry>>
    BY <1>2 DEF AudTaskDone, AudPause, AddPlayer, audVars
  <2> QED  BY <2>1 DEF AudPace, AfterFrame, AfterRetrace, Silent, Full, ShortPends, ShortWaits, FifoFull, Left,
             Pending, InBand
<1> QED  BY <1>1, <1>2, AudPaceRetrace, AudPaceMade, AudPaceSkipped DEF AudNext

(* At a rate that fits, the AI never runs out of samples while no frame is *)
(* late or paused: a frame is only skipped while one that is not short     *)
(* waits, and a short one is only made, by osAiGetLength, when what is     *)
(* left carries the AI over the next retrace.                              *)
THEOREM AudKeepsPlaying == RateFits => (AudSpec => []AudInv)
<1> SUFFICES ASSUME RateFits PROVE AudSpec => []AudInv
  OBVIOUS
<1>1. AudInit => AudPace
  BY DEF AudInit, AudPace, AfterFrame, Silent
<1>2. AudPace => NeverDry
  BY DEF AudPace, NeverDry
<1>3. AudIInv => FilledUnheard
  BY AudAssumption DEF AudAssumption, AudIInv, AudFifo, AudTurns, AudSizes, FilledUnheard, Before, Silence
<1> QED  BY <1>1, <1>2, <1>3, AudInitInv, AudNextInv, AudPaceNext, PTL DEF AudSpec, AudInv

-----------------------------------------------------------------------------
AppFields == {"pc", "op", "arg", "got", "trigger", "saved"}
RmbFields == {"state", "mode", "pause", "found", "type", "counter", "freq", "frame"}
Ops == {"none", "retrace", "read", "readNW", "query", "stop", "force", "park", "check", "start"} \cup RmbModes
ContMesgs == [from : ContApps \cup {Nobody}, op : Ops]
InGetEx == {"copy", "trigger", "open"}

ContTypes ==
  /\ DOMAIN app = ContApps
  /\ \A a \in ContApps : /\ DOMAIN app[a] = AppFields /\ app[a].op \in Ops
                         /\ app[a].pc = "mode" => app[a].op \in RmbModes
  /\ DOMAIN rmb = RmbFields
  /\ siMesgQ \in Seq(ContMesgs)

(* Whoever has closed the pad buffer is inside nuContDataGetEx, nobody else*)
(* is, and what it has read so far is what is in the buffer.               *)
OneInside ==
  /\ mutex \in ContApps \cup {Nobody}
  /\ \A a \in ContApps :
       /\ app[a].pc \in InGetEx <=> mutex = a
       /\ app[a].pc = "trigger" => app[a].got = pad
       /\ app[a].pc = "open" => app[a].trigger = app[a].got

(* A request, queued or in the manager's hands, has its sender waiting, who*)
(* has no other.                                                           *)
SendersWait ==
  /\ siMesg.from # Nobody => siMesg.from \in ContApps /\ app[siMesg.from].pc = "wait"
  /\ \A i \in DOMAIN siMesgQ :
       siMesgQ[i].from # Nobody => /\ app[siMesgQ[i].from].pc = "wait" /\ siMesgQ[i].from # siMesg.from
                                   /\ \A j \in DOMAIN siMesgQ : siMesgQ[j].from = siMesgQ[i].from => i = j

(* The key is not turned under a manager that waits to copy a retrace's    *)
(* reading.                                                                *)
LockHolds == LockFreezes /\ (siPc = "close" /\ siMesg = Retrace => ~key)

(* A motor that runs was initialised last, unless that was garbled; and a  *)
(* motor is only being started in a state, and a mode, that will stop it.  *)
AskedFor == rmb.mode = "disable" => "disable" \in RmbModes
MotorFollows ==
  /\ MotorKnown
  /\ motor \in {"none", "new", "off", "on"} /\ (pulled => motor \in {"none", "new"})
  /\ motor = "on" => inited \/ garbled
  /\ siPc = "motor" => /\ siMesg.op \in {"start", "stop", "force", "search", "check"}
                       /\ siMesg.op \in {"start", "stop"} => inited
                       /\ siMesg.op = "start" => rmb.state = "run" /\ rmb.frame > 0 /\ AskedFor

ContIInv == ContTypes /\ OneInside /\ SendersWait /\ LockHolds /\ MotorFollows /\ pif = lastCmd

-----------------------------------------------------------------------------
LEMMA ThreadsArePositive == Nobody \notin ContApps /\ 1 \in ContApps /\ ContApps \subseteq Nat
  BY ContAssumption DEF ContAssumption, Nobody

LEMMA CalmIs == DOMAIN Calm = AppFields /\ Calm.op = "none" /\ Calm.pc = "idle" /\ "none" \in Ops
<1>1. DOMAIN Calm = AppFields
  BY DEF Calm, AppFields
<1>2. Calm.op = "none" /\ Calm.pc = "idle"
  BY DEF Calm
<1>3. "none" \in Ops
  BY DEF Ops
<1> QED  BY <1>1, <1>2, <1>3

LEMMA QueueIs ==
  ASSUME NEW q \in Seq(ContMesgs)
  PROVE  /\ Len(q) \in Nat /\ DOMAIN q = 1 .. Len(q)
         /\ \A i \in DOMAIN q : q[i] \in ContMesgs /\ (q[i].from # Nobody => q[i].from \in ContApps)
<1>1. Len(q) \in Nat /\ DOMAIN q = 1 .. Len(q)
  BY LenProperties
<1>2. \A i \in DOMAIN q : q[i] \in ContMesgs
  BY <1>1, ElementOfSeq
<1> QED  BY <1>1, <1>2 DEF ContMesgs

LEMMA ContInitOk == ContInit => ContIInv
<1> SUFFICES ASSUME ContInit PROVE ContIInv
  OBVIOUS
<1>1. /\ siMesgQ = <<>> /\ siPc = "recv" /\ siMesg = NoMesg /\ lastCmd = "status" /\ pif = "status"
      /\ mutex = Nobody /\ motor = "none" /\ app = [a \in ContApps |-> Calm]
      /\ rmb = [state |-> "stopped", mode |-> "disable", pause |-> FALSE, found |-> FALSE, type |-> FALSE,
                counter |-> 0, freq |-> 0, frame |-> 0]
  BY DEF ContInit
<1>2. ~key /\ ~pulled /\ ~inited /\ ~garbled
  BY Zenon DEF ContInit
<1>3. ContTypes
  <2>1. DOMAIN app = ContApps /\ \A a \in ContApps : DOMAIN app[a] = AppFields /\ app[a].op \in Ops
    <3>2. DOMAIN app = ContApps /\ \A a \in ContApps : app[a] = Calm
      BY <1>1
    <3> QED  BY <3>2, CalmIs
  <2>4. \A a \in ContApps : app[a].pc # "mode"
    BY <1>1, CalmIs
  <2>2. DOMAIN rmb = RmbFields
    BY <1>1 DEF RmbFields
  <2>3. siMesgQ \in Seq(ContMesgs)
    BY <1>1, EmptySeq
  <2> QED  BY <2>1, <2>2, <2>3, <2>4 DEF ContTypes
<1>4. OneInside /\ SendersWait
  BY <1>1, ThreadsArePositive DEF OneInside, SendersWait, Calm, InGetEx, NoMesg, Mesg
<1>5. LockHolds /\ MotorFollows
  BY <1>1, <1>2 DEF LockHolds, LockFreezes, MotorFollows, MotorKnown, AskedFor
<1> QED  BY <1>1, <1>3, <1>4, <1>5 DEF ContIInv

-----------------------------------------------------------------------------
(* The steps of a thread, and what each leaves alone.                      *)

GetEx == \E a \in ContApps : GetExCall(a) \/ GetExClose(a) \/ GetExCopy(a) \/ GetExTrigger(a) \/ GetExOpen(a)
Asks(a) == \/ \E op \in {"read", "readNW", "query", "check", "stop", "force", "park"} : RequestCall(a, op)
           \/ \E p \in RmbProfiles : RmbStartCall(a, p)
           \/ \E mode \in RmbModes : ModeSetCall(a, mode)

(* A thread that is outside nuContDataGetEx and not waiting goes on to a   *)
(* place that is neither.                                                  *)
Elsewhere(a) ==
  /\ app[a].pc \notin InGetEx \cup {"wait"}
  /\ DOMAIN app' = DOMAIN app /\ \A b \in ContApps : b # a => app'[b] = app[b]
  /\ DOMAIN app'[a] = AppFields /\ app'[a].op \in Ops /\ app'[a].pc \notin InGetEx \cup {"wait"}
  /\ app'[a].pc = "mode" => app'[a].op \in RmbModes

LEMMA AsksIs ==
  ASSUME ContTypes, NEW a \in ContApps, Asks(a)
  PROVE  /\ Elsewhere(a)
         /\ UNCHANGED <<siMesgQ, siPc, siMesg, siLeft, lastCmd, pif, key, mutex, pad, frozen, rmb, motor, pulled, lastAccess>>
<1>1. CASE \E op \in {"read", "readNW", "query", "check", "stop", "force", "park"} : RequestCall(a, op)
  BY <1>1 DEF RequestCall, SiRequest, Elsewhere, ContTypes, AppFields, Ops, InGetEx, SiSame, padState, rmbState
<1>2. CASE \E p \in RmbProfiles : RmbStartCall(a, p)
  BY <1>2 DEF RmbStartCall, SiRequest, Elsewhere, ContTypes, AppFields, Ops, InGetEx, SiSame, padState, rmbState
<1>3. CASE \E mode \in RmbModes : ModeSetCall(a, mode)
  BY <1>3 DEF ModeSetCall, Elsewhere, ContTypes, AppFields, Ops, InGetEx, SiSame, padState, rmbState
<1> QED  BY <1>1, <1>2, <1>3 DEF Asks

LEMMA ElsewhereOk ==
  ASSUME ContTypes, OneInside, SendersWait, NEW a \in ContApps, Elsewhere(a),
         UNCHANGED <<siMesgQ, siMesg, mutex, pad>>, DOMAIN rmb' = RmbFields
  PROVE  ContTypes' /\ OneInside' /\ SendersWait'
<1>1. ContTypes'
  BY DEF ContTypes, Elsewhere
<1>2. OneInside'
  BY DEF OneInside, Elsewhere, InGetEx
<1>3. \A b \in ContApps : app[b].pc = "wait" => b # a /\ app'[b] = app[b]
  BY DEF Elsewhere
<1>4. \A i \in DOMAIN siMesgQ : siMesgQ[i].from # Nobody => siMesgQ[i].from \in ContApps
  BY QueueIs DEF ContTypes
<1>5. SendersWait'
  BY <1>3, <1>4 DEF SendersWait
<1> QED  BY <1>1, <1>2, <1>5

(* A thread that is answered was waiting, and goes on outside.             *)
Answered(a) ==
  /\ DOMAIN app' = DOMAIN app /\ \A b \in ContApps : b # a => app'[b] = app[b]
  /\ a \in ContApps => /\ DOMAIN app'[a] = AppFields /\ app'[a].op \in Ops
                       /\ app'[a].pc \notin InGetEx \cup {"wait", "mode"}

LEMMA AnsweredOk ==
  ASSUME ContTypes, OneInside, NEW a, Answered(a), a # Nobody => a \in ContApps /\ app[a].pc = "wait",
         mutex' = mutex, pad' = pad \/ mutex = Nobody, DOMAIN rmb' = RmbFields, siMesgQ' \in Seq(ContMesgs)
  PROVE  ContTypes' /\ OneInside'
<1>1. ContTypes'
  BY DEF ContTypes, Answered
<1>2. a \in ContApps => app[a].pc \notin InGetEx
  BY ThreadsArePositive DEF InGetEx
<1>3. OneInside'
  <2>1. mutex = Nobody => \A b \in ContApps : app[b].pc \notin InGetEx
    BY ThreadsArePositive DEF OneInside
  <2>2. \A b \in ContApps : app'[b].pc \in InGetEx => app[b].pc \in InGetEx /\ app'[b] = app[b]
    BY DEF Answered, InGetEx
  <2>3. \A b \in ContApps : app[b].pc \in InGetEx => app'[b] = app[b]
    BY <1>2 DEF Answered
  <2> QED  BY <2>1, <2>2, <2>3 DEF OneInside, InGetEx
<1> QED  BY <1>1, <1>3

-----------------------------------------------------------------------------
LEMMA GetExOk ==
  ASSUME ContTypes, OneInside, SendersWait, GetEx
  PROVE  /\ ContTypes' /\ OneInside' /\ SendersWait'
         /\ UNCHANGED <<siMesgQ, siPc, siMesg, siLeft, lastCmd, pif, key, pad, frozen, rmb, motor, pulled, lastAccess>>
<1>1. PICK a \in ContApps : GetExCall(a) \/ GetExClose(a) \/ GetExCopy(a) \/ GetExTrigger(a) \/ GetExOpen(a)
  BY DEF GetEx
<1>2. UNCHANGED <<siMesgQ, siPc, siMesg, siLeft, lastCmd, pif, key, pad, frozen, rmb, motor, pulled, lastAccess>>
  BY <1>1 DEF GetExCall, GetExClose, GetExCopy, GetExTrigger, GetExOpen, SiSame, padState, rmbState
<1>3. /\ app[a].pc # "wait" /\ DOMAIN app' = ContApps /\ \A b \in ContApps : b # a => app'[b] = app[b]
      /\ DOMAIN app'[a] = AppFields /\ app'[a].op \in Ops /\ app'[a].pc \notin {"wait", "mode"}
  <2> QED  BY <1>1, CalmIs DEF GetExCall, GetExClose, GetExCopy, GetExTrigger, GetExOpen, AppTo, ContTypes, AppFields
<1>4. ContTypes'
  BY <1>2, <1>3 DEF ContTypes
<1>5. SendersWait'
  <2>1. \A b \in ContApps : app[b].pc = "wait" => app'[b].pc = "wait"
    BY <1>3
  <2> QED  BY <2>1, <1>2, QueueIs DEF SendersWait, ContTypes
<1>6. OneInside'
  <2>1. CASE GetExCall(a)
    BY <2>1, <1>2, <1>3 DEF GetExCall, AppTo, OneInside, InGetEx, ContTypes, AppFields, padState
  <2>2. CASE GetExClose(a)
    BY <2>2, <1>2, <1>3, ThreadsArePositive DEF GetExClose, AppTo, OneInside, InGetEx, ContTypes, AppFields
  <2>3. CASE GetExCopy(a)
    BY <2>3, <1>2, <1>3 DEF GetExCopy, OneInside, InGetEx, ContTypes, AppFields, padState
  <2>4. CASE GetExTrigger(a)
    BY <2>4, <1>2, <1>3 DEF GetExTrigger, OneInside, InGetEx, ContTypes, AppFields, padState
  <2>5. CASE GetExOpen(a)
    BY <2>5, <1>2, <1>3, ThreadsArePositive DEF GetExOpen, OneInside, InGetEx, ContTypes, Calm
  <2> QED  BY <1>1, <2>1, <2>2, <2>3, <2>4, <2>5
<1> QED  BY <1>2, <1>4, <1>5, <1>6

LEMMA SendOk ==
  ASSUME ContTypes, OneInside, SendersWait, NEW a \in ContApps, SiSend(a)
  PROVE  /\ ContTypes' /\ OneInside' /\ SendersWait'
         /\ UNCHANGED <<siPc, siMesg, siLeft, lastCmd, pif, key, pad, frozen, rmb, motor, pulled, lastAccess>>
<1> DEFINE m == Mesg(a, app[a].op)
<1>1. /\ app[a].pc = "send" /\ siMesgQ' = Append(siMesgQ, m) /\ app' = [app EXCEPT ![a].pc = "wait"]
      /\ UNCHANGED <<siPc, siMesg, siLeft, lastCmd, pif, key, mutex, pad, frozen, rmb, motor, pulled, lastAccess>>
  BY DEF SiSend, AppTo, SiSame, padState, rmbState
<1>2. m \in ContMesgs /\ m.from = a
  BY DEF ContTypes, ContMesgs, Mesg
<1>3. siMesgQ \in Seq(ContMesgs)
  BY DEF ContTypes
<1> HIDE DEF m
<1>4. /\ siMesgQ' \in Seq(ContMesgs) /\ Len(siMesgQ') = Len(siMesgQ) + 1 /\ siMesgQ'[Len(siMesgQ) + 1] = m
      /\ \A i \in 1 .. Len(siMesgQ) : siMesgQ'[i] = siMesgQ[i]
  BY <1>1, <1>2, <1>3, AppendProperties
<1>5. /\ DOMAIN app' = ContApps /\ app'[a].pc = "wait" /\ DOMAIN app'[a] = AppFields /\ app'[a].op \in Ops
      /\ \A b \in ContApps : b # a => app'[b] = app[b]
  BY <1>1 DEF ContTypes, AppFields
<1>6. ContTypes'
  BY <1>1, <1>4, <1>5 DEF ContTypes
<1>7. OneInside'
  BY <1>1, <1>5 DEF OneInside, InGetEx
<1>8. SendersWait'
  <2>1. \A b \in ContApps : app[b].pc = "wait" => b # a /\ app'[b].pc = "wait"
    BY <1>1, <1>5
  <2>2. siMesg.from # Nobody => siMesg.from \in ContApps /\ app'[siMesg.from].pc = "wait" /\ siMesg.from # a
    BY <2>1 DEF SendersWait
  <2>3. /\ Len(siMesgQ) \in Nat /\ DOMAIN siMesgQ = 1 .. Len(siMesgQ) /\ DOMAIN siMesgQ' = 1 .. Len(siMesgQ) + 1
    BY <1>3, <1>4, QueueIs
  <2>4. \A i \in DOMAIN siMesgQ : siMesgQ[i].from # Nobody =>
          siMesgQ[i].from \in ContApps /\ app[siMesgQ[i].from].pc = "wait"
    BY <1>3, QueueIs DEF SendersWait
  <2>5. \A i \in DOMAIN siMesgQ : /\ siMesgQ[i].from # a
                                  /\ siMesgQ[i].from # Nobody => app'[siMesgQ[i].from].pc = "wait"
    BY <2>1, <2>4, ThreadsArePositive
  <2>6. \A i \in DOMAIN siMesgQ' : (i \in DOMAIN siMesgQ /\ siMesgQ'[i] = siMesgQ[i])
                                   \/ (i = Len(siMesgQ) + 1 /\ siMesgQ'[i].from = a)
    BY <2>3, <1>2, <1>4
  <2> HIDE DEF Nobody
  <2> QED  BY <2>2, <2>5, <2>6, <1>1, <1>5 DEF SendersWait
<1> QED  BY <1>1, <1>6, <1>7, <1>8

(* The other messages: a retrace has no sender, and what is taken from the *)
(* queue had the only message of its own.                                  *)
LEMMA QueueRetrace ==
  ASSUME SendersWait, siMesgQ \in Seq(ContMesgs), siMesgQ' = Append(siMesgQ, Retrace), UNCHANGED <<app, siMesg>>
  PROVE  SendersWait' /\ siMesgQ' \in Seq(ContMesgs)
<1>1. Retrace \in ContMesgs /\ Retrace.from = Nobody
  <2>1. "retrace" \in Ops
    BY DEF Ops
  <2> QED  BY <2>1 DEF Retrace, Mesg, ContMesgs
<1> HIDE DEF Retrace
<1>2. /\ siMesgQ' \in Seq(ContMesgs) /\ Len(siMesgQ') = Len(siMesgQ) + 1 /\ siMesgQ'[Len(siMesgQ) + 1] = Retrace
      /\ \A i \in 1 .. Len(siMesgQ) : siMesgQ'[i] = siMesgQ[i]
  BY <1>1, AppendProperties
<1>3. /\ Len(siMesgQ) \in Nat /\ DOMAIN siMesgQ = 1 .. Len(siMesgQ) /\ DOMAIN siMesgQ' = 1 .. Len(siMesgQ) + 1
  BY <1>2, QueueIs
<1>4. \A i \in DOMAIN siMesgQ' : (i \in DOMAIN siMesgQ /\ siMesgQ'[i] = siMesgQ[i])
                                 \/ (i = Len(siMesgQ) + 1 /\ siMesgQ'[i].from = Nobody)
  BY <1>1, <1>2, <1>3
<1> HIDE DEF Nobody
<1> QED  BY <1>2, <1>4 DEF SendersWait

LEMMA TakeHead ==
  ASSUME SendersWait, siMesgQ \in Seq(ContMesgs), SiRecv
  PROVE  /\ siPc = "recv" /\ siMesgQ' \in Seq(ContMesgs) /\ Head(siMesgQ) \in ContMesgs
         /\ Head(siMesgQ).from # Nobody => /\ Head(siMesgQ).from \in ContApps
                                           /\ app[Head(siMesgQ).from].pc = "wait"
         /\ \A i \in DOMAIN siMesgQ' :
              siMesgQ'[i].from # Nobody => /\ siMesgQ'[i].from \in ContApps /\ app[siMesgQ'[i].from].pc = "wait"
                                           /\ siMesgQ'[i].from # Head(siMesgQ).from
                                           /\ \A j \in DOMAIN siMesgQ' : siMesgQ'[j].from = siMesgQ'[i].from => i = j
<1>1. siPc = "recv" /\ siMesgQ # <<>> /\ siMesgQ' = Tail(siMesgQ)
  BY DEF SiRecv
<1>2. /\ siMesgQ' \in Seq(ContMesgs) /\ Len(siMesgQ') = Len(siMesgQ) - 1 /\ Head(siMesgQ) = siMesgQ[1]
      /\ \A i \in 1 .. Len(siMesgQ') : siMesgQ'[i] = siMesgQ[i + 1]
      /\ Len(siMesgQ) \in Nat /\ Len(siMesgQ) >= 1
  <2>1. Len(siMesgQ) \in Nat /\ Len(siMesgQ) # 0
    BY <1>1, LenProperties, EmptySeq
  <2>2. Tail(siMesgQ) \in Seq(ContMesgs) /\ Len(Tail(siMesgQ)) = Len(siMesgQ) - 1 /\ Head(siMesgQ) = siMesgQ[1]
        /\ \A i \in 1 .. Len(Tail(siMesgQ)) : Tail(siMesgQ)[i] = siMesgQ[i + 1]
    BY <1>1, HeadTailProperties
  <2> QED  BY <1>1, <2>1, <2>2
<1>3. DOMAIN siMesgQ = 1 .. Len(siMesgQ) /\ DOMAIN siMesgQ' = 1 .. Len(siMesgQ) - 1
  BY <1>2, QueueIs
<1>4. \A i \in DOMAIN siMesgQ' : i + 1 \in DOMAIN siMesgQ /\ i + 1 # 1 /\ siMesgQ'[i] = siMesgQ[i + 1]
  BY <1>2, <1>3
<1>5. \A i, j \in DOMAIN siMesgQ' : i + 1 = j + 1 => i = j
  BY <1>2, <1>3
<1>6. 1 \in DOMAIN siMesgQ
  BY <1>2, <1>3
<1>7. \A i \in DOMAIN siMesgQ : siMesgQ[i] \in ContMesgs /\ (siMesgQ[i].from # Nobody => siMesgQ[i].from \in ContApps)
  BY QueueIs
<1> HIDE DEF Nobody
<1> QED  BY <1>1, <1>2, <1>4, <1>5, <1>6, <1>7 DEF SendersWait

-----------------------------------------------------------------------------
(* The manager answers a, if anybody, and has what is left of the queue.   *)
LEMMA ReplyOk ==
  ASSUME ContTypes, OneInside, NEW a, Answered(a), a # Nobody => a \in ContApps /\ app[a].pc = "wait",
         mutex' = mutex, pad' = pad \/ mutex = Nobody, DOMAIN rmb' = RmbFields, siMesgQ' \in Seq(ContMesgs),
         siMesg'.from # Nobody => siMesg'.from # a /\ siMesg'.from \in ContApps /\ app[siMesg'.from].pc = "wait",
         \A i \in DOMAIN siMesgQ' :
            siMesgQ'[i].from # Nobody => /\ siMesgQ'[i].from \in ContApps /\ app[siMesgQ'[i].from].pc = "wait"
                                         /\ siMesgQ'[i].from # a /\ siMesgQ'[i].from # siMesg'.from
                                         /\ \A j \in DOMAIN siMesgQ' : siMesgQ'[j].from = siMesgQ'[i].from => i = j
  PROVE  ContTypes' /\ OneInside' /\ SendersWait'
<1>1. \A b \in ContApps : b # a => app'[b] = app[b]
  BY DEF Answered
<1> HIDE DEF Nobody
<1>2. SendersWait'
  BY <1>1 DEF SendersWait
<1> QED  BY <1>2, AnsweredOk

(* It takes a message and answers it, keeps it, or turns to something of   *)
(* its own.                                                                *)
LEMMA RecvOk ==
  ASSUME ContTypes, OneInside, SendersWait, SiRecv, mutex' = mutex, pad' = pad, DOMAIN rmb' = RmbFields,
         \/ app' = app /\ (siMesg' = Head(siMesgQ) \/ siMesg'.from = Nobody)
         \/ app' = [app EXCEPT ![Head(siMesgQ).from] = Calm] /\ siMesg'.from = Nobody
  PROVE  ContTypes' /\ OneInside' /\ SendersWait'
<1>1. siMesgQ \in Seq(ContMesgs)
  BY DEF ContTypes
<1>2. CASE app' = app
  <2>1. Answered(Nobody)
    BY <1>2, ThreadsArePositive DEF Answered
  <2> HIDE DEF Nobody
  <2> QED  BY <1>1, <1>2, <2>1, TakeHead, ReplyOk
<1>3. CASE app' = [app EXCEPT ![Head(siMesgQ).from] = Calm] /\ siMesg'.from = Nobody
  <2>1. Answered(Head(siMesgQ).from)
    BY <1>3, CalmIs DEF Answered, ContTypes, InGetEx
  <2> HIDE DEF Nobody
  <2> QED  BY <1>1, <1>3, <2>1, TakeHead, ReplyOk
<1> QED  BY <1>2, <1>3

(* What it had in hand is over.                                            *)
LEMMA OverOk ==
  ASSUME ContTypes, OneInside, SendersWait, siMesgQ' = siMesgQ, mutex' = mutex, pad' = pad \/ mutex = Nobody,
         DOMAIN rmb' = RmbFields, siMesg'.from = Nobody, app' = app \/ Answered(siMesg.from)
  PROVE  ContTypes' /\ OneInside' /\ SendersWait'
<1>1. siMesgQ \in Seq(ContMesgs)
  BY DEF ContTypes
<1>2. \A i \in DOMAIN siMesgQ : siMesgQ[i].from # Nobody => siMesgQ[i].from \in ContApps
  BY <1>1, QueueIs
<1>3. CASE app' = app
  <2>1. Answered(Nobody)
    BY <1>3, ThreadsArePositive DEF Answered
  <2> HIDE DEF Nobody
  <2> QED  BY <1>1, <1>2, <2>1, ReplyOk DEF SendersWait
<1>4. CASE Answered(siMesg.from)
  <2> HIDE DEF Nobody
  <2> QED  BY <1>1, <1>2, <1>4, ReplyOk DEF SendersWait
<1> QED  BY <1>3, <1>4

-----------------------------------------------------------------------------
(* The motor.                                                              *)

LEMMA ControlledFields ==
  ASSUME NEW c, DOMAIN c = RmbFields, NEW mode, NEW ok \in BOOLEAN
  PROVE  DOMAIN Concluded(c, mode, ok) = RmbFields
<1>1. CASE ok
  <2>1. Concluded(c, mode, ok) = Controlled(c, TRUE)
    BY <1>1 DEF Concluded
  <2>2. DOMAIN Controlled(c, TRUE) = RmbFields
    BY DEF Controlled
  <2> QED  BY <2>1, <2>2
<1>2. CASE ~ok
  <2> DEFINE d == Controlled(c, FALSE)
  <2>1. Concluded(c, mode, ok) = Failed(d, mode)
    BY <1>2 DEF Concluded
  <2>2. DOMAIN d = RmbFields
    BY DEF Controlled
  <2> HIDE DEF d
  <2>3. DOMAIN Failed(d, mode) = RmbFields
    BY <2>2 DEF Failed
  <2> QED  BY <2>1, <2>3
<1> QED  BY <1>1, <1>2

LEMMA RmbRetraceOk ==
  ASSUME ContTypes, MotorFollows, pif = lastCmd, RmbRetrace
  PROVE  /\ siMesg'.from = Nobody /\ DOMAIN rmb' = RmbFields /\ siPc' # "close"
         /\ MotorFollows' /\ pif' = lastCmd'
<1>1. DOMAIN rmb = RmbFields
  BY DEF ContTypes
<1> DEFINE atOnce == RetraceOp = "none" \/ (~Inits(RetraceOp) /\ ~inited)
<1>2. CASE atOnce
  <2>1. /\ siPc' = "recv" /\ siMesg' = NoMesg /\ UNCHANGED <<lastCmd, pif, motor, pulled, inited, garbled>>
        /\ rmb' = IF Searches THEN [rmb EXCEPT !.counter = (@ + 1) % SearchTime]
                  ELSE IF rmb.mode # "disable" /\ Stepped THEN Concluded(rmb, ModeNow, RetraceOp = "none") ELSE rmb
    BY <1>2 DEF RmbRetrace, lastAccess
  <2>2. DOMAIN rmb' = RmbFields
    BY <2>1, <1>1, ControlledFields
  <2>3. MotorKnown' => MotorFollows' /\ siMesg'.from = Nobody
    BY <2>1 DEF MotorFollows, NoMesg, Mesg
  <2>4. CASE Searches
    <3>1. rmb'.state = rmb.state /\ rmb'.mode = rmb.mode
      BY <2>1, <2>4, <1>1 DEF RmbFields
    <3> QED  BY <2>1, <2>2, <2>3, <3>1 DEF MotorFollows, MotorKnown, AskedFor
  <2>5. CASE ~Searches /\ rmb.mode # "disable" /\ Stepped
    <3>1. CASE RetraceOp = "none"
      <4>1. Control = "none"
        BY <3>1, <2>5 DEF RetraceOp
      <4>2. rmb.state \notin {"run", "forcestop"}
        BY <4>1 DEF Control
      <4> QED  BY <2>1, <2>2, <2>3, <4>2 DEF MotorFollows, MotorKnown, AskedFor
    <3>2. CASE ~inited
      <4>1. motor' = "on" => garbled'
        BY <3>2, <2>1 DEF MotorFollows
      <4> QED  BY <2>1, <2>2, <2>3, <4>1 DEF MotorKnown
    <3> QED  BY <3>1, <3>2, <1>2
  <2>6. CASE ~Searches /\ ~(rmb.mode # "disable" /\ Stepped)
    <3>1. rmb' = rmb
      BY <2>1, <2>6
    <3> QED  BY <2>1, <2>2, <2>3, <3>1 DEF MotorFollows, MotorKnown, AskedFor
  <2> QED  BY <2>4, <2>5, <2>6
<1>3. CASE ~atOnce
  <2>1. /\ siPc' = "motor" /\ siMesg'.from = Nobody /\ siMesg'.op = RetraceOp
        /\ UNCHANGED <<rmb, motor, inited, garbled>>
        /\ pif' = "other" /\ lastCmd' = "other"
    BY <1>3 DEF RmbRetrace, StartMotor, lastAccess
  <2>2. ~pulled'
    BY <1>3, Zenon DEF RmbRetrace, StartMotor
  <2>3. RetraceOp = "search" \/ (RetraceOp = Control /\ rmb.mode # "disable")
    BY <1>3 DEF RetraceOp
  <2>4. Control \in {"start", "stop", "force", "none"} /\ (Control = "start" => rmb.state = "run" /\ rmb.frame > 0)
    BY DEF Control
  <2>5. RetraceOp \in {"start", "stop"} => inited
    BY <1>3 DEF Inits
  <2>6. RetraceOp \in {"start", "stop", "force", "search"}
    BY <2>3, <2>4, <1>3
  <2>7. RetraceOp = "start" => rmb.state = "run" /\ rmb.frame > 0 /\ AskedFor
    BY <2>3, <2>4 DEF AskedFor
  <2>8. MotorFollows'
    BY <2>1, <2>2, <2>5, <2>6, <2>7 DEF MotorFollows, MotorKnown, AskedFor
  <2> QED  BY <2>1, <2>8, <1>1
<1> QED  BY <1>2, <1>3

(* What an access does to the motor: it runs only if it is started, or ran,*)
(* and the manager knows, or if an answer was garbled.                     *)
LEMMA MotorAfter ==
  ASSUME MotorFollows, NEW ok \in BOOLEAN, NEW lost \in BOOLEAN, MotorAnswered(ok, lost)
  PROVE  /\ motor' \in {"none", "new", "off", "on"} /\ ~pulled'
         /\ motor' = "on" => inited' \/ garbled'
         /\ motor' = "on" /\ ~garbled' => /\ ok
                                         /\ \/ siMesg.op = "start"
                                            \/ siMesg.op \in {"search", "check"} /\ motor = "on" /\ ~garbled
<1> DEFINE op == siMesg.op
<1>1. siPc = "motor" /\ Answers(op, ok, lost) /\ motor' \in Effects(op, ok, lost)
  BY DEF MotorAnswered
<1>2. ~pulled' /\ (inited' <=> IF Inits(op) THEN ok ELSE inited)
  BY Zenon DEF MotorAnswered
<1>3. garbled' <=> (motor' = "on" /\ (lost \/ (garbled /\ op # "start")))
  BY Zenon DEF MotorAnswered
<1>4. op \in {"start", "stop", "force", "search", "check"} /\ (op \in {"start", "stop"} => inited)
  BY <1>1 DEF MotorFollows
<1>5. motor \in {"none", "new", "off", "on"} /\ (pulled => motor \in {"none", "new"})
  BY DEF MotorFollows
<1>6. Present(op) <=> motor \in {"off", "on"} \/ (op \in {"search", "check", "force"} /\ motor = "new")
  BY DEF Present, Inits
<1>7. /\ ok /\ ~Present(op) => pulled
      /\ ~ok /\ Present(op) => pulled \/ lost
      /\ lost => Present(op) /\ (ok => op = "force")
  BY <1>1 DEF Answers
<1>8. Effects(op, ok, lost) \subseteq {motor, "off", Done(op)} /\ Done(op) \in {motor, "on", "off"}
  BY <1>4 DEF Effects, Done
<1>9. motor' \in {"none", "new", "off", "on"}
  BY <1>1, <1>5, <1>8
<1>10. ASSUME motor' = "on", ~lost
       PROVE  ok /\ ~pulled /\ Present(op) /\ (op = "start" \/ (op \in {"search", "check"} /\ motor = "on"))
  <2>1. ~pulled
    <3>1. SUFFICES ASSUME pulled PROVE FALSE
      OBVIOUS
    <3>2. motor \in {"none", "new"}
      BY <3>1, <1>5
    <3>3. CASE Present(op)
      <4>1. op \in {"search", "check", "force"} /\ motor = "new"
        BY <3>2, <3>3, <1>6
      <4>2. Done(op) = "off"
        BY <4>1 DEF Done
      <4> QED  BY <4>1, <4>2, <1>1, <1>8, <1>10
    <3>4. CASE ~Present(op)
      BY <3>2, <3>4, <1>1, <1>10 DEF Effects
    <3> QED  BY <3>3, <3>4
  <2>2. ok \/ ~Present(op)
    BY <2>1, <1>7, <1>10
  <2>3. Present(op)
    <3>1. CASE motor = "on"
      BY <3>1, <1>6
    <3>2. CASE ~Present(op) /\ motor # "on"
      BY <3>2, <1>1, <1>10 DEF Effects
    <3> QED  BY <3>1, <3>2
  <2>4. motor' = Done(op)
    BY <2>1, <2>2, <2>3, <1>1, <1>10 DEF Effects
  <2> QED  BY <2>1, <2>2, <2>3, <2>4, <1>4, <1>10 DEF Done
<1>11. motor' = "on" => inited' \/ garbled'
  <2>1. CASE motor' = "on" /\ ~lost
    <3>1. ok /\ (op = "start" \/ op \in {"search", "check"})
      BY <2>1, <1>10
    <3> QED  BY <3>1, <1>2, <1>4 DEF Inits
  <2>2. CASE motor' = "on" /\ lost
    BY <2>2, <1>3
  <2> QED  BY <2>1, <2>2
<1>12. ASSUME motor' = "on", ~garbled'
       PROVE  ok /\ (op = "start" \/ (op \in {"search", "check"} /\ motor = "on" /\ ~garbled))
  <2>1. ~lost /\ (garbled => op = "start")
    BY <1>3, <1>12
  <2> QED  BY <2>1, <1>10, <1>12
<1> QED  BY <1>2, <1>9, <1>11, <1>12

LEMMA MotorAnsweredOk ==
  ASSUME ContTypes, OneInside, SendersWait, MotorFollows, NEW ok \in BOOLEAN, NEW lost \in BOOLEAN,
         MotorAnswered(ok, lost)
  PROVE  /\ ContTypes' /\ OneInside' /\ SendersWait' /\ MotorFollows'
         /\ UNCHANGED <<lastCmd, pif, key, pad, frozen>> /\ siPc' = "recv"
<1> DEFINE op == siMesg.op
<1>1. /\ siPc = "motor" /\ siPc' = "recv" /\ siMesg' = NoMesg
      /\ UNCHANGED <<siMesgQ, lastCmd, pif, key, mutex, pad, frozen>>
  BY DEF MotorAnswered, padState
<1>2. /\ motor' \in {"none", "new", "off", "on"} /\ ~pulled'
      /\ motor' = "on" => inited' \/ garbled'
      /\ motor' = "on" /\ ~garbled' => ok /\ (op = "start" \/ (op \in {"search", "check"} /\ motor = "on" /\ ~garbled))
  BY MotorAfter
<1>3. MotorKnown' => MotorFollows'
  BY <1>1, <1>2 DEF MotorFollows
<1>4. op \in {"start", "stop", "force", "search", "check"}
  BY <1>1 DEF MotorFollows
<1>5. DOMAIN rmb = RmbFields
  BY DEF ContTypes
<1>6. siMesg'.from = Nobody
  BY <1>1 DEF NoMesg, Mesg
<1>7. CASE op = "check"
  <2>1. rmb' = rmb /\ app' = [app EXCEPT ![siMesg.from].pc = "checked", ![siMesg.from].saved = ok]
    BY <1>7 DEF MotorAnswered
  <2>2. Answered(siMesg.from)
    BY <2>1 DEF Answered, ContTypes, AppFields, InGetEx
  <2>3. ContTypes' /\ OneInside' /\ SendersWait'
    BY <1>1, <1>5, <1>6, <2>1, <2>2, OverOk
  <2>4. MotorKnown'
    BY <1>2, <1>7, <2>1 DEF MotorFollows, MotorKnown, AskedFor
  <2> QED  BY <1>1, <1>3, <2>3, <2>4
<1>8. CASE op = "search"
  <2>1. /\ app' = app
        /\ rmb' = [rmb EXCEPT !.counter = (@ + 1) % SearchTime, !.found = @ \/ ok, !.type = @ \/ ok]
    BY <1>8 DEF MotorAnswered
  <2>2. DOMAIN rmb' = RmbFields /\ rmb'.state = rmb.state /\ rmb'.mode = rmb.mode
    BY <2>1, <1>5 DEF RmbFields
  <2>3. ContTypes' /\ OneInside' /\ SendersWait'
    BY <1>1, <1>6, <2>1, <2>2, OverOk
  <2>4. MotorKnown'
    BY <1>2, <1>8, <2>2 DEF MotorFollows, MotorKnown, AskedFor
  <2> QED  BY <1>1, <1>3, <2>3, <2>4
<1>9. CASE op \notin {"check", "search"}
  <2>1. app' = app /\ rmb' = Concluded(rmb, siMesg.mode, ok)
    BY <1>9 DEF MotorAnswered
  <2>2. DOMAIN rmb' = RmbFields
    BY <2>1, <1>5, ControlledFields
  <2>3. ContTypes' /\ OneInside' /\ SendersWait'
    BY <1>1, <1>6, <2>1, <2>2, OverOk
  <2>4. ASSUME motor' = "on", ~garbled' PROVE rmb'.state \in {"run", "forcestop"} /\ AskedFor'
    <3>1. ok /\ op = "start"
      BY <1>2, <1>9, <2>4
    <3>2. rmb.state = "run" /\ rmb.frame > 0 /\ AskedFor
      BY <1>1, <3>1 DEF MotorFollows
    <3>3. rmb' = [rmb EXCEPT !.counter = (@ + rmb.freq) % 256, !.frame = @ - 1]
      BY <2>1, <3>1, <3>2 DEF Concluded, Controlled
    <3>4. rmb'.state = "run" /\ rmb'.mode = rmb.mode
      BY <3>2, <3>3, <1>5 DEF RmbFields
    <3> QED  BY <3>2, <3>4 DEF AskedFor
  <2>5. MotorKnown'
    BY <2>4 DEF MotorKnown, AskedFor
  <2> QED  BY <1>1, <1>3, <2>3, <2>5
<1> QED  BY <1>7, <1>8, <1>9

-----------------------------------------------------------------------------
LEMMA ContIInvNext == ContIInv /\ [ContNext]_contVars => ContIInv'
<1> SUFFICES ASSUME ContIInv, [ContNext]_contVars PROVE ContIInv'
  OBVIOUS
<1>1. ContTypes /\ OneInside /\ SendersWait /\ LockHolds /\ MotorFollows /\ pif = lastCmd /\ DOMAIN rmb = RmbFields
      /\ siMesgQ \in Seq(ContMesgs)
  BY DEF ContIInv, ContTypes
<1>2. CASE UNCHANGED contVars
  <2>1. UNCHANGED <<siMesgQ, siPc, siMesg, siLeft, lastCmd, pif, key, mutex, waitToken, pad, frozen, rmb, motor,
                    pulled, lastAccess, app, contLeft>>
    BY <1>2 DEF contVars, lastAccess
  <2> QED  BY <1>1, <2>1 DEF ContIInv, ContTypes, OneInside, SendersWait, LockHolds, LockFreezes, MotorFollows,
              MotorKnown, AskedFor, lastAccess
<1>3. CASE GetEx
  <2>1. /\ ContTypes' /\ OneInside' /\ SendersWait'
        /\ UNCHANGED <<siMesgQ, siPc, siMesg, siLeft, lastCmd, pif, key, pad, frozen, rmb, motor, pulled, lastAccess>>
    BY <1>1, <1>3, GetExOk
  <2> QED  BY <1>1, <2>1 DEF ContIInv, LockHolds, LockFreezes, MotorFollows, MotorKnown, AskedFor, lastAccess
<1>4. CASE \E a \in ContApps : Asks(a)
  <2>1. PICK a \in ContApps : Asks(a)
    BY <1>4
  <2>2. /\ Elsewhere(a)
        /\ UNCHANGED <<siMesgQ, siPc, siMesg, siLeft, lastCmd, pif, key, mutex, pad, frozen, rmb, motor, pulled, lastAccess>>
    BY <2>1, <1>1, AsksIs
  <2>3. ContTypes' /\ OneInside' /\ SendersWait'
    BY <2>2, <1>1, ElsewhereOk
  <2> QED  BY <1>1, <2>2, <2>3 DEF ContIInv, LockHolds, LockFreezes, MotorFollows, MotorKnown, AskedFor, lastAccess
<1>5. CASE DataLock
  <2>1. /\ Runs(1) /\ app[1].pc = "idle" /\ frozen' = (IF key THEN 0 ELSE pad)
        /\ UNCHANGED <<siMesgQ, siPc, siMesg, siLeft, lastCmd, pif, mutex, pad, rmb, motor, pulled, lastAccess, app>>
    BY <1>5 DEF DataLock, SiSame, rmbState
  <2>2. key' <=> ~key
    BY <1>5, Zenon DEF DataLock
  <2>3. ~(siPc = "close" /\ siMesg = Retrace)
    <3>1. SUFFICES ASSUME siPc = "close" PROVE FALSE
      OBVIOUS
    <3>2. mutex \in ContApps
      BY <3>1, <2>1, <1>1 DEF Runs, SiMgrBlocked, OneInside
    <3>3. app[mutex].pc \in InGetEx
      BY <3>2, <1>1 DEF OneInside
    <3>4. mutex > 1
      BY <2>1, <3>2, <3>3, ThreadsArePositive DEF InGetEx, Nobody
    <3>5. app[mutex].pc = "idle" \/ ~AppReady(mutex)
      BY <2>1, <3>2, <3>4 DEF Runs
    <3> QED  BY <3>3, <3>5 DEF AppReady, InGetEx
  <2>4. LockHolds'
    BY <2>1, <2>2, <2>3, <1>1 DEF LockHolds, LockFreezes
  <2> QED  BY <1>1, <2>1, <2>4 DEF ContIInv, ContTypes, OneInside, SendersWait, MotorFollows, MotorKnown, AskedFor, lastAccess
<1>6. CASE Unplug \/ Plug
  <2>1. /\ UNCHANGED <<siMesgQ, siPc, siMesg, siLeft, lastCmd, pif, key, mutex, pad, frozen, rmb, app>>
        /\ motor' \in {"none", "new"} /\ inited' = inited
    BY <1>6 DEF Unplug, Plug, SiSame, padState, lastAccess
  <2> QED  BY <1>1, <2>1 DEF ContIInv, ContTypes, OneInside, SendersWait, LockHolds, LockFreezes, MotorFollows,
              MotorKnown, AskedFor, lastAccess
<1>7. CASE \E a \in ContApps : SiSend(a)
  <2>1. /\ ContTypes' /\ OneInside' /\ SendersWait'
        /\ UNCHANGED <<siPc, siMesg, siLeft, lastCmd, pif, key, pad, frozen, rmb, motor, pulled, lastAccess>>
    BY <1>1, <1>7, SendOk
  <2> QED  BY <1>1, <2>1 DEF ContIInv, LockHolds, LockFreezes, MotorFollows, MotorKnown, AskedFor, lastAccess
<1>8. CASE \E a \in ContApps : CheckReturn(a) \/ ModeSet(a)
  <2>1. PICK a \in ContApps : CheckReturn(a) \/ ModeSet(a)
    BY <1>8
  <2>2. /\ UNCHANGED <<siMesgQ, siPc, siMesg, siLeft, lastCmd, pif, key, mutex, pad, frozen, motor, pulled, lastAccess>>
        /\ app[a].pc \in {"checked", "mode"} /\ app' = [app EXCEPT ![a] = Calm]
    BY <2>1 DEF CheckReturn, ModeSet, SiSame, padState
  <2>3. /\ DOMAIN rmb' = RmbFields /\ rmb'.state = rmb.state /\ rmb'.frame = rmb.frame
        /\ AskedFor => AskedFor'
    <3>1. CASE CheckReturn(a)
      BY <3>1, <1>1 DEF CheckReturn, RmbFields, AskedFor
    <3>2. CASE ModeSet(a)
      <4>1. app[a].op \in RmbModes
        BY <3>2, <1>1 DEF ModeSet, ContTypes
      <4>2. rmb' = rmb \/ rmb' = [rmb EXCEPT !.mode = app[a].op, !.pause = app[a].saved,
                                           !.found = IF app[a].op = "autorun" THEN rmb.type ELSE @]
        BY <3>2 DEF ModeSet
      <4>3. (rmb' = rmb \/ rmb'.mode = app[a].op) /\ DOMAIN rmb' = RmbFields
        BY <4>2, <1>1 DEF RmbFields
      <4>4. rmb'.state = rmb.state /\ rmb'.frame = rmb.frame
        BY <4>2, <1>1 DEF RmbFields
      <4>5. AskedFor => AskedFor'
        BY <4>1, <4>3 DEF AskedFor
      <4> QED  BY <4>3, <4>4, <4>5
    <3> QED  BY <2>1, <3>1, <3>2
  <2>4. Elsewhere(a)
    BY <2>2, <1>1, CalmIs DEF Elsewhere, ContTypes, InGetEx
  <2>5. ContTypes' /\ OneInside' /\ SendersWait'
    BY <2>2, <2>3, <2>4, <1>1, ElsewhereOk
  <2> QED  BY <1>1, <2>2, <2>3, <2>5 DEF ContIInv, LockHolds, LockFreezes, MotorFollows, MotorKnown, AskedFor, lastAccess
<1>9. CASE (\E a \in ContApps : SiRestart(a)) \/ SiWritten
  <2>1. /\ UNCHANGED <<siMesgQ, siMesg, lastCmd, pif, key, mutex, pad, frozen, rmb, motor, pulled, lastAccess, app>>
        /\ siPc' = siPc \/ siPc' = "recv"
    BY <1>9 DEF SiRestart, SiWritten, padState, rmbState
  <2> QED  BY <1>1, <2>1 DEF ContIInv, ContTypes, OneInside, SendersWait, LockHolds, LockFreezes, MotorFollows,
              MotorKnown, AskedFor, lastAccess
<1>10. CASE ContRetraceMesg
  <2>1. /\ siMesgQ' = Append(siMesgQ, Retrace)
        /\ UNCHANGED <<siPc, siMesg, siLeft, lastCmd, pif, key, mutex, pad, frozen, rmb, motor, pulled, lastAccess, app>>
    BY <1>10 DEF ContRetraceMesg, SiSame, padState, rmbState
  <2>2. SendersWait' /\ siMesgQ' \in Seq(ContMesgs)
    BY <1>1, <2>1, QueueRetrace
  <2> QED  BY <1>1, <2>1, <2>2 DEF ContIInv, ContTypes, OneInside, LockHolds, LockFreezes, MotorFollows, MotorKnown, AskedFor, lastAccess
<1>11. CASE SiRetrace
  <2>1. SiRecv /\ UNCHANGED <<key, mutex, pad, frozen, app>>
    BY <1>11 DEF SiRetrace
  <2>2. CASE key
    <3>1. RmbRetrace
      BY <1>11, <2>2 DEF SiRetrace
    <3>2. siMesg'.from = Nobody /\ DOMAIN rmb' = RmbFields /\ siPc' # "close" /\ MotorFollows' /\ pif' = lastCmd'
      BY <3>1, <1>1, RmbRetraceOk
    <3>3. ContTypes' /\ OneInside' /\ SendersWait'
      BY <1>1, <2>1, <3>2, RecvOk
    <3> QED  BY <1>1, <2>1, <3>2, <3>3 DEF ContIInv, LockHolds, LockFreezes
  <2>3. CASE ~key
    <3>1. siPc' = "dma" /\ siMesg' = Retrace /\ pif' = lastCmd' /\ UNCHANGED <<rmb, motor, pulled, lastAccess>>
      BY <1>11, <2>3, <1>1 DEF SiRetrace, Exchange, rmbState
    <3>2. siMesg'.from = Nobody
      BY <3>1 DEF Retrace, Mesg
    <3>3. ContTypes' /\ OneInside' /\ SendersWait'
      BY <1>1, <2>1, <3>1, <3>2, RecvOk
    <3> QED  BY <1>1, <2>1, <3>1, <3>3 DEF ContIInv, LockHolds, LockFreezes, MotorFollows, MotorKnown, AskedFor, lastAccess
  <2> QED  BY <2>2, <2>3
<1>12. CASE SiRead \/ SiCheck
  <2>1. /\ SiRecv /\ UNCHANGED <<key, mutex, pad, frozen, app, rmb, motor, lastAccess>> /\ siMesg' = Head(siMesgQ)
        /\ (siPc' = "dma" /\ pulled' = pulled) \/ (siPc' = "motor" /\ ~pulled' /\ siMesg'.op = "check")
    <3>1. /\ SiRecv /\ UNCHANGED <<key, mutex, pad, frozen, app, rmb, motor, lastAccess>> /\ siMesg' = Head(siMesgQ)
          /\ (SiRead => siPc' = "dma" /\ pulled' = pulled) /\ (SiCheck => siPc' = "motor" /\ siMesg'.op = "check")
      BY <1>12 DEF SiRead, SiCheck, Exchange, StartMotor, padState, rmbState
    <3>2. SiCheck => ~pulled'
      BY Zenon DEF SiCheck, StartMotor
    <3> QED  BY <3>1, <3>2, <1>12
  <2>2. pif' = lastCmd'
    BY <1>12, <1>1 DEF SiRead, SiCheck, Exchange, StartMotor
  <2>3. ContTypes' /\ OneInside' /\ SendersWait'
    BY <1>1, <2>1, RecvOk
  <2> QED  BY <1>1, <2>1, <2>2, <2>3 DEF ContIInv, LockHolds, LockFreezes, MotorFollows, MotorKnown, AskedFor, lastAccess
<1>13. CASE SiRumble \/ SiStop
  <2>1. /\ SiRecv /\ UNCHANGED <<key, mutex, pad, frozen, lastCmd, pif, motor, pulled, lastAccess>> /\ siMesg' = NoMesg
        /\ app' = [app EXCEPT ![Head(siMesgQ).from] = Calm] /\ siPc' \in {"recv", "parked"}
    BY <1>13 DEF SiRumble, SiStop, SiReply, padState, rmbState
  <2>2. DOMAIN rmb' = RmbFields /\ (rmb'.state = rmb.state \/ rmb'.state \in {"run", "forcestop"})
        /\ rmb'.mode = rmb.mode
    <3>1. CASE SiRumble
      BY <3>1, <1>1 DEF SiRumble, RmbFields
    <3>2. CASE SiStop
      BY <3>2, <1>1 DEF SiStop, rmbState
    <3> QED  BY <1>13, <3>1, <3>2
  <2>3. siMesg'.from = Nobody
    BY <2>1 DEF NoMesg, Mesg
  <2>4. ContTypes' /\ OneInside' /\ SendersWait'
    BY <1>1, <2>1, <2>2, <2>3, RecvOk
  <2> QED  BY <1>1, <2>1, <2>2, <2>4 DEF ContIInv, LockHolds, LockFreezes, MotorFollows, MotorKnown, AskedFor, lastAccess
<1>14. CASE SiAnswered \/ SiClose
  <2>1. siMesgQ' = siMesgQ /\ siPc \in {"dma", "close"}
    BY <1>14 DEF SiAnswered, SiClose
  <2>2. CASE AfterRead(siMesg)
    <3>1. /\ mutex' = mutex /\ key' = key /\ (pad' = pad \/ mutex = Nobody)
          /\ LockFreezes'
      <4>1. CASE SiClose
        BY <4>1, <1>1 DEF SiClose, Copied, LockHolds, LockFreezes
      <4>2. CASE SiAnswered /\ siMesg.op = "query"
        BY <4>2, <1>1 DEF SiAnswered, LockHolds, LockFreezes
      <4>3. CASE SiAnswered /\ siMesg.op # "query" /\ Locked(siMesg)
        BY <4>3, <1>1 DEF SiAnswered, LockHolds, LockFreezes
      <4>4. CASE SiAnswered /\ siMesg.op # "query" /\ ~Locked(siMesg) /\ mutex = Nobody
        <5>1. /\ mutex' = mutex /\ key' = key /\ frozen' = (IF key /\ siMesg # Retrace THEN pad' ELSE frozen)
          BY <4>4 DEF SiAnswered, Copied
        <5>2. key => siMesg # Retrace
          BY <4>4, Zenon DEF Locked
        <5> QED  BY <5>1, <5>2, <4>4 DEF LockFreezes
      <4>5. CASE SiAnswered /\ siMesg.op # "query" /\ ~Locked(siMesg) /\ mutex # Nobody
        BY <4>5, <1>1 DEF SiAnswered, padState, LockHolds, LockFreezes
      <4> QED  BY <1>14, <4>1, <4>2, <4>3, <4>4, <4>5
    <3>2. /\ siMesg'.from = Nobody /\ DOMAIN rmb' = RmbFields /\ siPc' # "close" /\ MotorFollows' /\ pif' = lastCmd'
          /\ app' = app \/ app' = [app EXCEPT ![siMesg.from] = Calm]
      <4>1. CASE siMesg = Retrace
        BY <4>1, <2>2, <1>1, RmbRetraceOk DEF AfterRead
      <4>2. CASE siMesg # Retrace
        <5>1. /\ app' = [app EXCEPT ![siMesg.from] = Calm] /\ siPc' = "recv" /\ siMesg' = NoMesg
              /\ UNCHANGED <<lastCmd, pif, rmb, motor, pulled, lastAccess>>
          BY <4>2, <2>2 DEF AfterRead, SiReply, rmbState
        <5> QED  BY <5>1, <1>1 DEF NoMesg, Mesg, MotorFollows, MotorKnown, AskedFor, lastAccess
      <4> QED  BY <4>1, <4>2
    <3>3. app' = app \/ Answered(siMesg.from)
      BY <3>2, <1>1, CalmIs DEF Answered, ContTypes, InGetEx
    <3>4. ContTypes' /\ OneInside' /\ SendersWait'
      BY <1>1, <2>1, <3>1, <3>2, <3>3, OverOk
    <3> QED  BY <3>1, <3>2, <3>4 DEF ContIInv, LockHolds
  <2>3. CASE ~AfterRead(siMesg)
    <3>1. /\ siPc = "dma" /\ siMesg.op # "query" /\ ~Locked(siMesg) /\ siPc' = "close"
          /\ UNCHANGED <<siMesg, lastCmd, pif, key, mutex, pad, frozen, rmb, motor, pulled, lastAccess, app>>
      BY <1>14, <2>3 DEF SiAnswered, SiClose, padState, rmbState
    <3> QED  BY <1>1, <2>1, <3>1 DEF ContIInv, ContTypes, OneInside, SendersWait, LockHolds, LockFreezes, Locked,
                MotorFollows, MotorKnown, AskedFor, lastAccess
  <2> QED  BY <2>2, <2>3
<1>15. CASE \E ok, lost \in BOOLEAN : MotorAnswered(ok, lost)
  <2>1. /\ ContTypes' /\ OneInside' /\ SendersWait' /\ MotorFollows'
        /\ UNCHANGED <<lastCmd, pif, key, pad, frozen>> /\ siPc' = "recv"
    BY <1>1, <1>15, MotorAnsweredOk
  <2> QED  BY <1>1, <2>1 DEF ContIInv, LockHolds, LockFreezes
<1>16. CASE ContNext
  <2>1. CASE AppCalls
    BY <2>1, <1>3, <1>4, <1>5, Zenon DEF AppCalls, GetEx, Asks
  <2>2. CASE Mishaps
    BY <2>2, <1>6, <1>15, Zenon DEF Mishaps
  <2>3. CASE \E a \in ContApps : AppSteps(a) \/ SiRestart(a)
    BY <2>3, <1>3, <1>7, <1>8, <1>9, Zenon DEF AppSteps, GetEx
  <2>4. CASE SiStep
    BY <2>4, <1>9, <1>11, <1>12, <1>13, <1>14, <1>15, Zenon DEF SiStep
  <2> QED  BY <1>16, <1>6, <1>10, <2>1, <2>2, <2>3, <2>4, Zenon DEF ContNext
<1> QED  BY <1>2, <1>16

(* A copy of the pad data is of one reading; locked data stays; the SI     *)
(* answers the command last written; no motor that runs is forgotten, but  *)
(* for one whose last access had its answer garbled.                       *)
THEOREM ContAlways == ContSpec => []ContInv
<1>1. ContIInv => ContInv
  BY DEF ContIInv, ContInv, OneInside, OneReading, LockHolds, AnswersCommand, MotorFollows
<1> QED  BY <1>1, ContInitOk, ContIInvNext, PTL DEF ContSpec

-----------------------------------------------------------------------------
(* libultra's scheduler.                                                   *)

Flags == {"SP", "DP", "YIELD", "YIELDED"}
Running == OscTasks \cup {OscNone}
Xbus == {t \in OscGfxTasks : oscType[t] = "xbus"}
InList(list) == {list[i] : i \in DOMAIN list}

OnceOn(list, set) == \A i, j \in DOMAIN list : list[i] = list[j] /\ list[i] \in set => i = j

(* What the scheduler takes for running on a unit is what it runs, or what *)
(* the scheduler has still to be told the end of, once.                    *)
UnitKnown(cur, task, event, queue) ==
  /\ OnceOn(queue, {event})
  /\ IF cur # OscNone THEN (task = cur /\ event \notin InList(queue)) \/ (task = OscNone /\ event \in InList(queue))
     ELSE task = OscNone /\ event \notin InList(queue)

Scheds ==
  [gfx : Seq(OscGfxTasks), audio : Seq(OscAudio), doAudio : BOOLEAN, curRSP : Running, curRDP : Running,
   state : [Running -> SUBSET Flags], fb : [curr : OscBuffers, next : OscBuffers], busy : SUBSET OscTasks,
   sp : Running, dp : Running, avail : SUBSET {"SP", "DP"}]

(* A flag for audio means a task to run.                                   *)
Sound(s) == s \in Scheds /\ (s.doAudio => s.audio # <<>>)

(* A pass gives a unit to a task only while it is free; the RDP also to the*)
(* task that has it.                                                       *)
UnitsOf(s) ==
  /\ "SP" \in s.avail => s.curRSP = OscNone /\ s.sp = OscNone
  /\ s.sp # OscNone => s.curRSP = OscNone
  /\ "DP" \in s.avail => s.curRDP = OscNone /\ s.dp = OscNone
  /\ s.dp # OscNone => s.curRDP \in {OscNone, s.dp}

(* A task on both units is in the list or on the RSP, and is then not      *)
(* submitted again; one that the RDP still has to work for, yielded or not,*)
(* is the one the RDP works for.                                           *)
Listed(s, t, waiting) ==
  /\ "SP" \in s.state[t] /\ t \in s.busy \ waiting
  /\ IF "DP" \in s.state[t] THEN ("YIELDED" \in s.state[t]) <=> (s.curRDP = t) ELSE "YIELDED" \in s.state[t]
  /\ t \notin {s.curRSP, s.sp, s.dp}
Placed(s, t, waiting) ==
  /\ "SP" \in s.state[t] /\ t \in s.busy \ waiting
  /\ "DP" \in s.state[t] => t \in {s.curRDP, s.dp}
Drawing(s, t, waiting) == "DP" \in s.state[t] /\ t \in s.busy \ waiting
Orderly(s, waiting) ==
  /\ OnceOn(s.gfx, Xbus) /\ waiting \cap Xbus \subseteq s.busy
  /\ \A t \in Xbus : /\ t \in InList(s.gfx) => Listed(s, t, waiting)
                     /\ t \in {s.curRSP, s.sp} => Placed(s, t, waiting)
                     /\ t \in {s.curRDP, s.dp} => Drawing(s, t, waiting)

Ordered(s, queue) == OnceOn(queue, Xbus) /\ Orderly(s, InList(queue))

(* The exception: with OS_SC_PARALLEL_TASK such a task is started on the   *)
(* RSP alone as long as audio waits, and starts over whenever it ends.     *)
Parallel(s) == s.doAudio /\ s.gfx # <<>> /\ Head(s.gfx) \in Xbus /\ Gfx(Head(s.gfx)).parallel
Jammed(s) == Parallel(s) /\ Head(s.gfx) \in {s.curRSP, s.sp}

OscTypesOK ==
  /\ oscType \in [OscGfxTasks -> {"xbus", "dram"}] /\ oscAt \in DOMAIN OscGraphics
  /\ cmdQ \in Seq(OscTasks)
  /\ interruptQ \in Seq({"VIDEO", "RSP", "RDP"})
  /\ Sound(Now)
  /\ rsp \in [task : Running, asked : BOOLEAN, yielded : BOOLEAN] /\ rdp \in Running
  /\ \A t \in OscAudio : "YIELD" \notin state[t]

OscIInv ==
  /\ OscTypesOK
  /\ UnitKnown(curRSP, rsp.task, "RSP", interruptQ)
  /\ UnitKnown(curRDP, rdp, "RDP", interruptQ)
  /\ Ordered(Now, cmdQ) \/ Jammed(Now)

-----------------------------------------------------------------------------
(* Lists.                                                                  *)

LEMMA InAppend ==
  ASSUME NEW S, NEW list \in Seq(S), NEW x \in S, NEW set
  PROVE  /\ Append(list, x) \in Seq(S) /\ InList(Append(list, x)) = InList(list) \cup {x}
         /\ OnceOn(list, set) /\ (x \in set => x \notin InList(list)) => OnceOn(Append(list, x), set)
<1> DEFINE l == Append(list, x)
<1>1. l \in Seq(S) /\ Len(l) = Len(list) + 1 /\ DOMAIN l = 1 .. Len(list) + 1 /\ DOMAIN list = 1 .. Len(list)
      /\ Len(list) \in Nat /\ l[Len(list) + 1] = x /\ \A i \in 1 .. Len(list) : l[i] = list[i]
  OBVIOUS
<1> HIDE DEF l
<1>2. InList(l) = InList(list) \cup {x}
  <2>1. ASSUME NEW y \in InList(l) PROVE y \in InList(list) \cup {x}
    <3>1. PICK i \in 1 .. Len(list) + 1 : y = l[i]
      BY <1>1 DEF InList
    <3>2. CASE i = Len(list) + 1
      BY <1>1, <3>1, <3>2
    <3>3. CASE i \in 1 .. Len(list)
      BY <1>1, <3>1, <3>3 DEF InList
    <3> QED BY <1>1, <3>1, <3>2, <3>3
  <2>2. x \in InList(l)
    BY <1>1 DEF InList
  <2>3. \A y \in InList(list) : y \in InList(l)
    BY <1>1 DEF InList
  <2> QED BY <2>1, <2>2, <2>3
<1>3. ASSUME OnceOn(list, set), x \in set => x \notin InList(list) PROVE OnceOn(l, set)
  <2> SUFFICES ASSUME NEW i \in 1 .. Len(list) + 1, NEW j \in 1 .. Len(list) + 1, l[i] = l[j], l[i] \in set
               PROVE  i = j
    BY <1>1 DEF OnceOn
  <2>1. CASE i \in 1 .. Len(list) /\ j \in 1 .. Len(list)
    BY <1>1, <1>3, <2>1 DEF OnceOn
  <2>2. CASE i = Len(list) + 1 /\ j \in 1 .. Len(list)
    BY <1>1, <1>3, <2>2 DEF InList
  <2>3. CASE j = Len(list) + 1 /\ i \in 1 .. Len(list)
    BY <1>1, <1>3, <2>3 DEF InList
  <2> QED BY <1>1, <2>1, <2>2, <2>3
<1> QED BY <1>1, <1>2, <1>3 DEF l

Kept(list, kind) ==
  CHOOSE kept : kept = [i \in 0 .. Len(list) |->
                          IF i = 0 THEN <<>>
                          ELSE IF list[i] \in kind THEN Append(kept[i - 1], list[i]) ELSE kept[i - 1]]

(* What OfKind leaves of a list.                                           *)
LEMMA OfKindIs ==
  ASSUME NEW S, NEW kind, NEW list \in Seq(S), NEW set
  PROVE  /\ OfKind(list, kind) \in Seq(kind)
         /\ InList(OfKind(list, kind)) = InList(list) \cap kind
         /\ OnceOn(list, set) => OnceOn(OfKind(list, kind), set)
<1> DEFINE N == Len(list)
           D == [n \in 1 .. N |-> [x \in Seq(kind) |-> IF list[n] \in kind THEN Append(x, list[n]) ELSE x]]
           IsKept(f) == f = [i \in 0 .. N |-> IF i = 0 THEN <<>>
                                              ELSE IF list[i] \in kind THEN Append(f[i - 1], list[i]) ELSE f[i - 1]]
<1>1. N \in Nat /\ DOMAIN list = 1 .. N
  OBVIOUS
<1>2. D \in [1 .. N -> [Seq(kind) -> Seq(kind)]]
  OBVIOUS
<1>3. PICK g : Recursive(g, N, Seq(kind), <<>>, D)
  <2>1. <<>> \in Seq(kind)
    OBVIOUS
  <2> HIDE DEF D, N
  <2> QED BY <1>1, <1>2, <2>1, Recursion
<1>4. g \in [0 .. N -> Seq(kind)] /\ g[0] = <<>> /\ \A n \in 1 .. N : g[n] = D[n][g[n - 1]]
  BY <1>3 DEF Recursive
<1>5. \A n \in 1 .. N : g[n - 1] \in Seq(kind)
                         /\ g[n] = IF list[n] \in kind THEN Append(g[n - 1], list[n]) ELSE g[n - 1]
  <2> SUFFICES ASSUME NEW n \in 1 .. N
               PROVE  g[n - 1] \in Seq(kind)
                      /\ g[n] = IF list[n] \in kind THEN Append(g[n - 1], list[n]) ELSE g[n - 1]
    OBVIOUS
  <2>1. n - 1 \in 0 .. N
    BY <1>1
  <2>2. g[n - 1] \in Seq(kind)
    BY <1>4, <2>1
  <2>3. D[n] = [x \in Seq(kind) |-> IF list[n] \in kind THEN Append(x, list[n]) ELSE x]
    OBVIOUS
  <2> HIDE DEF D
  <2> QED BY <1>4, <2>2, <2>3
<1> HIDE DEF N
<1>6. IsKept(g)
  <2>1. g = [n \in 0 .. N |-> g[n]]
    BY <1>4
  <2>2. \A n \in 0 .. N : g[n] = IF n = 0 THEN <<>>
                                  ELSE IF list[n] \in kind THEN Append(g[n - 1], list[n]) ELSE g[n - 1]
    <3>1. \A n \in 0 .. N : n # 0 => n \in 1 .. N
      BY <1>1
    <3> QED BY <1>4, <1>5, <3>1
  <2> QED BY ONLY <2>1, <2>2
<1>7. IsKept(Kept(list, kind))
  <2>1. Kept(list, kind) = CHOOSE f : IsKept(f)
    BY DEF Kept, N
  <2> HIDE DEF IsKept
  <2> QED BY <1>6, <2>1
<1> DEFINE f == Kept(list, kind)
<1>8. f[0] = <<>> /\ \A n \in 1 .. N : f[n] = IF list[n] \in kind THEN Append(f[n - 1], list[n]) ELSE f[n - 1]
  <2>1. IsKept(f)
    BY <1>7
  <2> HIDE DEF f
  <2>2. \A n \in 0 .. N : f[n] = IF n = 0 THEN <<>>
                                  ELSE IF list[n] \in kind THEN Append(f[n - 1], list[n]) ELSE f[n - 1]
    BY ONLY <2>1
  <2>3. 0 \in 0 .. N /\ \A n \in 1 .. N : n \in 0 .. N /\ n # 0
    BY <1>1
  <2> QED BY <2>2, <2>3
<1> HIDE DEF f
<1> DEFINE First(n) == {list[i] : i \in 1 .. n}
           Good(n) == /\ f[n] \in Seq(kind) /\ InList(f[n]) = First(n) \cap kind
                      /\ OnceOn(list, set) => OnceOn(f[n], set)
           T == {n \in Nat : n <= N => Good(n)}
<1>9. 0 \in T
  <2>1. InList(<<>>) = {} /\ OnceOn(<<>>, set)
    BY DEF InList, OnceOn
  <2>2. First(0) = {}
    OBVIOUS
  <2>3. f[0] \in Seq(kind)
    BY <1>8
  <2> HIDE DEF First
  <2>4. Good(0)
    BY <1>8, <2>1, <2>2, <2>3
  <2> HIDE DEF Good
  <2> QED BY <2>4
<1>10. ASSUME NEW n \in Nat, n \in T PROVE n + 1 \in T
  <2> SUFFICES ASSUME n + 1 <= N PROVE Good(n + 1)
    OBVIOUS
  <2>1. /\ f[n] \in Seq(kind) /\ InList(f[n]) = First(n) \cap kind
        /\ OnceOn(list, set) => OnceOn(f[n], set)
    BY <1>1, <1>10
  <2>2. n + 1 \in 1 .. N /\ (n + 1) - 1 = n /\ 1 .. n \subseteq 1 .. N
    BY <1>1
  <2>3. f[n + 1] = IF list[n + 1] \in kind THEN Append(f[n], list[n + 1]) ELSE f[n]
    BY <1>8, <2>2
  <2>4. First(n + 1) = First(n) \cup {list[n + 1]}
    <3>1. \A i \in 1 .. n + 1 : i \in 1 .. n \/ i = n + 1
      OBVIOUS
    <3>2. 1 .. n \subseteq 1 .. n + 1 /\ n + 1 \in 1 .. n + 1
      OBVIOUS
    <3> QED BY ONLY <3>1, <3>2
  <2>5. ASSUME OnceOn(list, set), list[n + 1] \in set PROVE list[n + 1] \notin InList(f[n])
    <3> SUFFICES ASSUME list[n + 1] \in First(n) PROVE FALSE
      BY <2>1
    <3>1. PICK i \in 1 .. n : list[i] = list[n + 1]
      OBVIOUS
    <3>2. i \in 1 .. N /\ i # n + 1
      BY <2>2
    <3> QED BY <1>1, <2>2, <2>5, <3>1, <3>2 DEF OnceOn
  <2> HIDE DEF First
  <2>6. CASE list[n + 1] \in kind
    BY <2>1, <2>3, <2>4, <2>5, <2>6, InAppend
  <2>7. CASE list[n + 1] \notin kind
    BY <2>1, <2>3, <2>4, <2>7
  <2> QED BY <2>6, <2>7
<1>11. \A n \in Nat : n \in T
  <2> HIDE DEF T
  <2> QED BY <1>9, <1>10, NatSetInduction
<1>12. OfKind(list, kind) = f[N]
  BY DEF OfKind, Kept, f, N
<1>13. First(N) = InList(list)
  BY <1>1 DEF InList
<1> QED BY <1>1, <1>11, <1>12, <1>13

LEMMA InTail ==
  ASSUME NEW S, NEW list \in Seq(S), list # <<>>, NEW set
  PROVE  /\ Tail(list) \in Seq(S) /\ Head(list) \in S /\ Head(list) \in InList(list)
         /\ InList(list) = InList(Tail(list)) \cup {Head(list)}
         /\ OnceOn(list, set) => /\ OnceOn(Tail(list), set)
                                 /\ Head(list) \in set => Head(list) \notin InList(Tail(list))
<1> DEFINE l == Tail(list)
<1>1. /\ l \in Seq(S) /\ Len(list) \in Nat \ {0} /\ Len(l) = Len(list) - 1 /\ DOMAIN list = 1 .. Len(list)
      /\ DOMAIN l = 1 .. Len(list) - 1 /\ \A i \in 1 .. Len(list) - 1 : l[i] = list[i + 1]
  OBVIOUS
<1>2. Head(list) = list[1] /\ list[1] \in S
  OBVIOUS
<1> HIDE DEF l
<1>3. InList(list) = InList(l) \cup {list[1]}
  <2>1. ASSUME NEW y \in InList(list) PROVE y \in InList(l) \cup {list[1]}
    <3>1. PICK i \in 1 .. Len(list) : y = list[i]
      BY <1>1 DEF InList
    <3>2. CASE i = 1
      BY <3>1, <3>2
    <3>3. CASE i # 1
      <4>1. i - 1 \in 1 .. Len(list) - 1 /\ l[i - 1] = list[(i - 1) + 1] /\ (i - 1) + 1 = i
        BY <1>1, <3>3
      <4> QED BY <1>1, <3>1, <4>1 DEF InList
    <3> QED BY <3>2, <3>3
  <2>2. ASSUME NEW y \in InList(l) PROVE y \in InList(list)
    <3>1. PICK i \in 1 .. Len(list) - 1 : y = l[i]
      BY <1>1, <2>2 DEF InList
    <3>2. i + 1 \in 1 .. Len(list) /\ y = list[i + 1]
      BY <1>1, <3>1
    <3> QED BY <1>1, <3>2 DEF InList
  <2>3. list[1] \in InList(list)
    BY <1>1 DEF InList
  <2> QED BY <2>1, <2>2, <2>3
<1>4. ASSUME OnceOn(list, set) PROVE OnceOn(l, set) /\ (list[1] \in set => list[1] \notin InList(l))
  <2>1. ASSUME NEW i \in 1 .. Len(list) - 1, NEW j \in 1 .. Len(list) - 1, l[i] = l[j], l[i] \in set PROVE i = j
    <3>1. i + 1 \in 1 .. Len(list) /\ j + 1 \in 1 .. Len(list) /\ list[i + 1] = list[j + 1] /\ list[i + 1] \in set
      BY <1>1, <2>1
    <3>2. i + 1 = j + 1
      BY <1>1, <1>4, <3>1 DEF OnceOn
    <3> QED BY <3>2
  <2>2. ASSUME list[1] \in set, list[1] \in InList(l) PROVE FALSE
    <3>1. PICK i \in 1 .. Len(list) - 1 : list[1] = l[i]
      BY <1>1, <2>2 DEF InList
    <3>2. i + 1 \in 1 .. Len(list) /\ 1 \in 1 .. Len(list) /\ list[i + 1] = list[1] /\ i + 1 # 1
      BY <1>1, <3>1
    <3> QED BY <1>1, <1>4, <2>2, <3>2 DEF OnceOn
  <2> QED BY <1>1, <2>1, <2>2 DEF OnceOn
<1> QED BY <1>1, <1>2, <1>3, <1>4 DEF l

LEMMA InBoth ==
  ASSUME NEW S, NEW a \in Seq(S), NEW b \in Seq(S), NEW set
  PROVE  /\ a \o b \in Seq(S) /\ InList(a \o b) = InList(a) \cup InList(b)
         /\ a # <<>> => a \o b # <<>> /\ Head(a \o b) = Head(a)
         /\ b # <<>> => a \o b # <<>>
         /\ OnceOn(a, set) /\ OnceOn(b, set) /\ InList(a) \cap InList(b) \cap set = {} => OnceOn(a \o b, set)
<1> DEFINE l == a \o b
<1>1. /\ l \in Seq(S) /\ Len(a) \in Nat /\ Len(b) \in Nat /\ Len(l) = Len(a) + Len(b)
      /\ DOMAIN a = 1 .. Len(a) /\ DOMAIN b = 1 .. Len(b) /\ DOMAIN l = 1 .. Len(a) + Len(b)
      /\ \A i \in 1 .. Len(a) : l[i] = a[i]
      /\ \A i \in 1 .. Len(a) + Len(b) : i > Len(a) => l[i] = b[i - Len(a)]
  OBVIOUS
<1>2. /\ a # <<>> => l # <<>> /\ Head(l) = Head(a)
      /\ b # <<>> => l # <<>>
  OBVIOUS
<1> HIDE DEF l
<1>3. \A i \in 1 .. Len(a) + Len(b) : \/ i \in 1 .. Len(a)
                                      \/ i > Len(a) /\ i - Len(a) \in 1 .. Len(b)
  BY <1>1
<1>4. InList(l) = InList(a) \cup InList(b)
  <2>1. ASSUME NEW y \in InList(l) PROVE y \in InList(a) \cup InList(b)
    <3>1. PICK i \in 1 .. Len(a) + Len(b) : y = l[i]
      BY <1>1 DEF InList
    <3> QED BY <1>1, <1>3, <3>1 DEF InList
  <2>2. ASSUME NEW y \in InList(a) PROVE y \in InList(l)
    <3>1. PICK i \in 1 .. Len(a) : y = a[i]
      BY <1>1, <2>2 DEF InList
    <3>2. i \in 1 .. Len(a) + Len(b)
      BY <1>1
    <3> QED BY <1>1, <3>1, <3>2 DEF InList
  <2>3. ASSUME NEW y \in InList(b) PROVE y \in InList(l)
    <3>1. PICK i \in 1 .. Len(b) : y = b[i]
      BY <1>1, <2>3 DEF InList
    <3>2. i + Len(a) \in 1 .. Len(a) + Len(b) /\ i + Len(a) > Len(a) /\ (i + Len(a)) - Len(a) = i
      BY <1>1
    <3>3. l[i + Len(a)] = y
      BY <1>1, <3>1, <3>2
    <3> QED BY <1>1, <3>2, <3>3 DEF InList
  <2> QED BY <2>1, <2>2, <2>3
<1>5. ASSUME OnceOn(a, set), OnceOn(b, set), InList(a) \cap InList(b) \cap set = {} PROVE OnceOn(l, set)
  <2> SUFFICES ASSUME NEW i \in 1 .. Len(a) + Len(b), NEW j \in 1 .. Len(a) + Len(b), l[i] = l[j], l[i] \in set
               PROVE  i = j
    BY <1>1 DEF OnceOn
  <2>1. CASE i \in 1 .. Len(a) /\ j \in 1 .. Len(a)
    BY <1>1, <1>5, <2>1 DEF OnceOn
  <2>2. CASE i > Len(a) /\ j > Len(a)
    <3>1. i - Len(a) \in 1 .. Len(b) /\ j - Len(a) \in 1 .. Len(b) /\ b[i - Len(a)] = b[j - Len(a)]
          /\ b[i - Len(a)] \in set
      BY <1>1, <2>2
    <3>2. i - Len(a) = j - Len(a)
      BY <1>1, <1>5, <3>1 DEF OnceOn
    <3> QED BY <1>1, <3>2
  <2>3. ASSUME NEW m \in 1 .. Len(a), NEW n \in 1 .. Len(a) + Len(b), n > Len(a), l[m] = l[n], l[m] \in set PROVE FALSE
    <3>1. l[m] \in InList(a)
      BY <1>1 DEF InList
    <3>2. n - Len(a) \in 1 .. Len(b) /\ l[n] = b[n - Len(a)]
      BY <1>1, <2>3
    <3>3. l[n] \in InList(b)
      BY <1>1, <3>2 DEF InList
    <3> QED BY <1>5, <2>3, <3>1, <3>3
  <2> QED BY <1>1, <1>3, <2>1, <2>2, <2>3
<1> QED BY <1>1, <1>2, <1>4, <1>5 DEF l

-----------------------------------------------------------------------------
(* A pass of __scSchedule.                                                 *)

Same(s, q) == q.curRSP = s.curRSP /\ q.curRDP = s.curRDP /\ q.state = s.state /\ q.fb = s.fb /\ q.busy = s.busy
Alongside(s, q) ==
  /\ s.doAudio /\ s.gfx # <<>> /\ Gfx(Head(s.gfx)).parallel /\ "SP" \in s.avail
  /\ q.sp = Head(s.gfx) /\ q.dp = s.dp /\ q.avail = s.avail \ {"SP"} /\ q.gfx = s.gfx /\ q.doAudio
AudioPlaced(s, q) ==
  /\ "SP" \in s.avail /\ ~Parallel(s)
  /\ q.sp \in OscAudio /\ q.dp = s.dp /\ q.avail = s.avail \ {"SP"} /\ q.gfx = s.gfx
Resumed(s, q) ==
  /\ "SP" \in s.avail /\ ~s.doAudio /\ s.gfx # <<>> /\ Head(s.gfx) \in Xbus /\ "YIELDED" \in s.state[Head(s.gfx)]
  /\ q.sp = Head(s.gfx) /\ q.dp = (IF "DP" \in s.state[Head(s.gfx)] THEN Head(s.gfx) ELSE s.dp)
  /\ q.avail = s.avail \ ((s.state[Head(s.gfx)] \cap {"SP", "DP"}) \cup {"SP"}) /\ q.gfx = Tail(s.gfx)
Begins(s, q) ==
  /\ s.avail = {"SP", "DP"} /\ ~s.doAudio /\ s.gfx # <<>> /\ Head(s.gfx) \in Xbus /\ "YIELDED" \notin s.state[Head(s.gfx)]
  /\ q.sp = Head(s.gfx) /\ q.dp = Head(s.gfx) /\ q.avail = {} /\ q.gfx = Tail(s.gfx)
RspPlaced(s, q) ==
  /\ "SP" \in s.avail /\ ~s.doAudio /\ s.gfx # <<>> /\ Head(s.gfx) \notin Xbus
  /\ q.sp = Head(s.gfx) /\ q.dp = s.dp /\ q.avail = s.avail \ {"SP"} /\ q.gfx = s.gfx
RdpPlaced(s, q) ==
  /\ "DP" \in s.avail /\ s.gfx # <<>> /\ Head(s.gfx) \notin Xbus
  /\ q.dp = Head(s.gfx) /\ q.sp = s.sp /\ q.avail = s.avail \ {"DP"} /\ q.gfx = Tail(s.gfx)

LEMMA HeadIs ==
  ASSUME NEW list \in Seq(OscGfxTasks)
  PROVE  /\ list = <<>> => HeadOf(list) = OscNone
         /\ list # <<>> => HeadOf(list) = Head(list) /\ HeadOf(list) \in OscGfxTasks /\ HeadOf(list) # OscNone
                          /\ Tail(list) \in Seq(OscGfxTasks)
BY OscAssumption DEF HeadOf, OscAssumption, OscTasks

(* What a pass may find to place.                                          *)
LEMMA PlaceIs ==
  ASSUME NEW s, Sound(s), oscType \in [OscGfxTasks -> {"xbus", "dram"}]
  PROVE  /\ Sound(Place(s)) /\ Same(s, Place(s))
         /\ \/ Place(s) = s /\ ~(Parallel(s) /\ "SP" \in s.avail)
            \/ Alongside(s, Place(s)) \/ AudioPlaced(s, Place(s)) \/ Resumed(s, Place(s)) \/ Begins(s, Place(s))
            \/ RspPlaced(s, Place(s)) \/ RdpPlaced(s, Place(s))
<1> DEFINE h == HeadOf(s.gfx)
           units == s.state[h] \cap {"SP", "DP"}
           Goal(q) == /\ Sound(q) /\ Same(s, q)
                      /\ \/ q = s /\ ~(Parallel(s) /\ "SP" \in s.avail)
                         \/ Alongside(s, q) \/ AudioPlaced(s, q) \/ Resumed(s, q) \/ Begins(s, q)
                         \/ RspPlaced(s, q) \/ RdpPlaced(s, q)
<1>1. s \in Scheds /\ (s.doAudio => s.audio # <<>>)
  BY DEF Sound
<1>2. /\ s.gfx \in Seq(OscGfxTasks) /\ s.audio \in Seq(OscAudio) /\ s.doAudio \in BOOLEAN /\ s.avail \in SUBSET {"SP", "DP"}
      /\ s.state \in [Running -> SUBSET Flags] /\ s.sp \in Running /\ s.dp \in Running
  BY <1>1 DEF Scheds
<1>3. /\ h = OscNone => s.gfx = <<>>
      /\ h # OscNone => s.gfx # <<>> /\ h = Head(s.gfx) /\ h \in OscGfxTasks /\ Tail(s.gfx) \in Seq(OscGfxTasks)
      /\ h \in Running /\ OscGfxTasks \subseteq Running /\ OscAudio \subseteq Running
      /\ (h # OscNone => oscType[h] \in {"xbus", "dram"} /\ (h \in Xbus <=> oscType[h] = "xbus"))
  BY <1>2, HeadIs DEF Running, OscTasks, Xbus
<1> HIDE DEF h
<1>4. CASE s.doAudio /\ "SP" \in s.avail
  <2>1. CASE h # OscNone /\ Gfx(h).parallel
    <3> DEFINE q == [s EXCEPT !.sp = h, !.avail = @ \ {"SP"}]
    <3>1. Place(s) = q
      BY <1>4, <2>1 DEF Place, h
    <3>2. /\ q \in Scheds /\ q.sp = h /\ q.dp = s.dp /\ q.avail = s.avail \ {"SP"} /\ q.gfx = s.gfx
          /\ q.doAudio = s.doAudio /\ q.audio = s.audio /\ Same(s, q)
      BY <1>1, <1>2, <1>3 DEF Scheds, Same
    <3> HIDE DEF q
    <3>3. Goal(q)
      BY <1>1, <1>3, <1>4, <2>1, <3>2 DEF Alongside, Sound
    <3> QED BY <3>1, <3>3
  <2>2. CASE ~(h # OscNone /\ Gfx(h).parallel)
    <3> DEFINE q == [s EXCEPT !.sp = HeadOf(s.audio), !.avail = @ \ {"SP"}, !.doAudio = FALSE, !.audio = Tail(@)]
    <3>1. Place(s) = q
      BY <1>4, <2>2 DEF Place, h
    <3>2. HeadOf(s.audio) \in OscAudio /\ Tail(s.audio) \in Seq(OscAudio)
      BY <1>1, <1>2, <1>4 DEF HeadOf
    <3>3. /\ q \in Scheds /\ q.sp = HeadOf(s.audio) /\ q.dp = s.dp /\ q.avail = s.avail \ {"SP"} /\ q.gfx = s.gfx
          /\ q.doAudio = FALSE /\ Same(s, q)
      BY <1>1, <1>2, <1>3, <3>2 DEF Scheds, Same
    <3> HIDE DEF q
    <3>4. ~Parallel(s)
      BY <1>3, <2>2 DEF Parallel
    <3>5. Goal(q)
      BY <1>4, <3>2, <3>3, <3>4 DEF AudioPlaced, Sound
    <3> QED BY <3>1, <3>5
  <2> QED BY <2>1, <2>2
<1>5. CASE ~(s.doAudio /\ "SP" \in s.avail)
  <2>0. ~(Parallel(s) /\ "SP" \in s.avail)
    BY <1>5 DEF Parallel
  <2>1. CASE ~TaskReady(h, s.fb)
    <3>1. Place(s) = s
      BY <1>5, <2>1 DEF Place, h
    <3> QED BY <2>0, <3>1 DEF Same
  <2>2. CASE TaskReady(h, s.fb)
    <3>0. h # OscNone
      BY <2>2 DEF TaskReady
    <3>1. CASE oscType[h] = "xbus" /\ "YIELDED" \in s.state[h] /\ "SP" \in s.avail
      <4> DEFINE q == [s EXCEPT !.sp = h, !.dp = IF "DP" \in units THEN h ELSE @,
                                !.avail = @ \ (units \cup {"SP"}), !.gfx = Tail(@)]
      <4>1. Place(s) = q
        BY <1>5, <2>2, <3>1 DEF Place, h
      <4>2. /\ q \in Scheds /\ q.sp = h /\ q.dp = (IF "DP" \in s.state[h] THEN h ELSE s.dp)
            /\ q.avail = s.avail \ (units \cup {"SP"}) /\ q.gfx = Tail(s.gfx)
            /\ q.doAudio = s.doAudio /\ q.audio = s.audio /\ Same(s, q)
        BY <1>1, <1>2, <1>3, <3>0 DEF Scheds, Same
      <4> HIDE DEF q
      <4>3. Resumed(s, q)
        BY <1>3, <1>5, <3>0, <3>1, <4>2 DEF Resumed
      <4>4. Goal(q)
        BY <1>1, <4>2, <4>3 DEF Sound
      <4> QED BY <4>1, <4>4
    <3>2. CASE oscType[h] = "xbus" /\ "YIELDED" \notin s.state[h] /\ s.avail = {"SP", "DP"}
      <4> DEFINE q == [s EXCEPT !.sp = h, !.dp = h, !.avail = {}, !.gfx = Tail(@)]
      <4>1. Place(s) = q
        BY <1>5, <2>2, <3>2 DEF Place, h
      <4>2. /\ q \in Scheds /\ q.sp = h /\ q.dp = h /\ q.avail = {} /\ q.gfx = Tail(s.gfx)
            /\ q.doAudio = s.doAudio /\ q.audio = s.audio /\ Same(s, q)
        BY <1>1, <1>2, <1>3, <3>0 DEF Scheds, Same
      <4> HIDE DEF q
      <4>3. Begins(s, q)
        BY <1>3, <1>5, <3>0, <3>2, <4>2 DEF Begins
      <4>4. Goal(q)
        BY <1>1, <4>2, <4>3 DEF Sound
      <4> QED BY <4>1, <4>4
    <3>3. CASE oscType[h] = "dram" /\ "SP" \in units \cap s.avail
      <4> DEFINE q == [s EXCEPT !.sp = h, !.avail = @ \ {"SP"}]
      <4>1. Place(s) = q
        BY <1>5, <2>2, <3>3 DEF Place, h
      <4>2. /\ q \in Scheds /\ q.sp = h /\ q.dp = s.dp /\ q.avail = s.avail \ {"SP"} /\ q.gfx = s.gfx
            /\ q.doAudio = s.doAudio /\ q.audio = s.audio /\ Same(s, q)
        BY <1>1, <1>2, <1>3 DEF Scheds, Same
      <4> HIDE DEF q
      <4>3. RspPlaced(s, q)
        BY <1>3, <1>5, <3>0, <3>3, <4>2 DEF RspPlaced
      <4>4. Goal(q)
        BY <1>1, <4>2, <4>3 DEF Sound
      <4> QED BY <4>1, <4>4
    <3>4. CASE oscType[h] = "dram" /\ units = {"DP"} /\ "DP" \in s.avail
      <4> DEFINE q == [s EXCEPT !.dp = h, !.avail = @ \ {"DP"}, !.gfx = Tail(@)]
      <4>1. Place(s) = q
        BY <1>5, <2>2, <3>4 DEF Place, h
      <4>2. /\ q \in Scheds /\ q.dp = h /\ q.sp = s.sp /\ q.avail = s.avail \ {"DP"} /\ q.gfx = Tail(s.gfx)
            /\ q.doAudio = s.doAudio /\ q.audio = s.audio /\ Same(s, q)
        BY <1>1, <1>2, <1>3, <3>0 DEF Scheds, Same
      <4> HIDE DEF q
      <4>3. RdpPlaced(s, q)
        BY <1>3, <3>0, <3>4, <4>2 DEF RdpPlaced
      <4>4. Goal(q)
        BY <1>1, <4>2, <4>3 DEF Sound
      <4> QED BY <4>1, <4>4
    <3>5. CASE /\ ~(oscType[h] = "xbus" /\ "YIELDED" \in s.state[h] /\ "SP" \in s.avail)
               /\ ~(oscType[h] = "xbus" /\ "YIELDED" \notin s.state[h] /\ s.avail = {"SP", "DP"})
               /\ ~(oscType[h] = "dram" /\ "SP" \in units \cap s.avail)
               /\ ~(oscType[h] = "dram" /\ units = {"DP"} /\ "DP" \in s.avail)
      <4>1. Place(s) = s
        BY <1>5, <2>2, <3>5 DEF Place, h
      <4> QED BY <2>0, <4>1 DEF Same
    <3> QED BY <3>1, <3>2, <3>3, <3>4, <3>5
  <2> QED BY <2>1, <2>2
<1> QED BY <1>4, <1>5

LEMMA XbusAre == OscNone \notin Xbus /\ Xbus \subseteq OscGfxTasks /\ OscAudio \cap Xbus = {} /\ OscNone \notin OscTasks
BY OscAssumption DEF OscAssumption, Xbus, OscTasks

(* The order is kept by what takes the head off the list or leaves the list*)
(* as it is, when it places what may be placed.                            *)
LEMMA PlaceOrder ==
  ASSUME NEW s, NEW q, Sound(s), NEW waiting, Orderly(s, waiting), UnitsOf(s), Same(s, q),
         ~(Parallel(s) /\ "SP" \in s.avail),
         \/ Alongside(s, q) \/ AudioPlaced(s, q) \/ Resumed(s, q) \/ Begins(s, q)
         \/ RspPlaced(s, q) \/ RdpPlaced(s, q)
  PROVE  UnitsOf(q) /\ Orderly(q, waiting)
<1> DEFINE h == Head(s.gfx)
<1>1. s.gfx \in Seq(OscGfxTasks) /\ s.avail \subseteq {"SP", "DP"}
  BY DEF Sound, Scheds
<1>2. s.gfx # <<>> => /\ h \in OscGfxTasks /\ h \in InList(s.gfx) /\ h # OscNone
                      /\ InList(s.gfx) = InList(Tail(s.gfx)) \cup {h}
                      /\ OnceOn(Tail(s.gfx), Xbus) /\ (h \in Xbus => h \notin InList(Tail(s.gfx)))
  <2>1. OnceOn(s.gfx, Xbus)
    BY DEF Orderly
  <2>2. OscGfxTasks \subseteq OscTasks /\ OscNone \notin OscTasks
    BY XbusAre DEF OscTasks
  <2> SUFFICES ASSUME s.gfx # <<>>
               PROVE  /\ h \in OscGfxTasks /\ h \in InList(s.gfx) /\ h # OscNone
                      /\ InList(s.gfx) = InList(Tail(s.gfx)) \cup {h}
                      /\ OnceOn(Tail(s.gfx), Xbus) /\ (h \in Xbus => h \notin InList(Tail(s.gfx)))
    OBVIOUS
  <2>3. h \in OscGfxTasks /\ h \in InList(s.gfx) /\ InList(s.gfx) = InList(Tail(s.gfx)) \cup {h}
    BY <1>1, InTail
  <2>4. OnceOn(s.gfx, Xbus) => OnceOn(Tail(s.gfx), Xbus) /\ (h \in Xbus => h \notin InList(Tail(s.gfx)))
    BY <1>1, InTail
  <2> QED BY <2>1, <2>2, <2>3, <2>4
<1> HIDE DEF h
<1>3. UnitsOf(s)
  OBVIOUS
<1>4. OnceOn(s.gfx, Xbus) /\ waiting \cap Xbus \subseteq s.busy
  BY DEF Orderly
<1>5. ASSUME NEW t \in Xbus
      PROVE  /\ t \in InList(s.gfx) => Listed(s, t, waiting)
             /\ t \in {s.curRSP, s.sp} => Placed(s, t, waiting)
             /\ t \in {s.curRDP, s.dp} => Drawing(s, t, waiting)
  BY DEF Orderly
<1>6. CASE /\ "SP" \in s.avail /\ q.sp \notin Xbus /\ q.sp # OscNone
           /\ q.dp = s.dp /\ q.avail = s.avail \ {"SP"} /\ q.gfx = s.gfx
  <2>1. UnitsOf(q)
    BY <1>3, <1>6 DEF UnitsOf, Same
  <2>2. ASSUME NEW t \in Xbus
        PROVE  /\ t \in InList(q.gfx) => Listed(q, t, waiting)
               /\ t \in {q.curRSP, q.sp} => Placed(q, t, waiting)
               /\ t \in {q.curRDP, q.dp} => Drawing(q, t, waiting)
    BY <1>5, <1>6 DEF Listed, Placed, Drawing, Same
  <2> QED BY <1>4, <1>6, <2>1, <2>2 DEF Orderly, Same
<1>7. CASE Alongside(s, q)
  <2>1. q.sp = h /\ h \notin Xbus /\ h # OscNone
    BY <1>2, <1>7 DEF Alongside, Parallel, h
  <2> QED BY <1>6, <1>7, <2>1 DEF Alongside
<1>8. CASE AudioPlaced(s, q)
  <2>1. q.sp \notin Xbus /\ q.sp # OscNone
    BY <1>8, XbusAre DEF AudioPlaced, OscTasks
  <2> QED BY <1>6, <1>8, <2>1 DEF AudioPlaced
<1>9. CASE RspPlaced(s, q)
  <2>1. q.sp = h /\ h \notin Xbus /\ h # OscNone
    BY <1>2, <1>9 DEF RspPlaced, h
  <2> QED BY <1>6, <1>9, <2>1 DEF RspPlaced
<1>10. CASE RdpPlaced(s, q)
  <2>1. /\ "DP" \in s.avail /\ h \notin Xbus /\ s.gfx # <<>> /\ q.dp = h /\ q.sp = s.sp
        /\ q.avail = s.avail \ {"DP"} /\ q.gfx = Tail(s.gfx)
    BY <1>10 DEF RdpPlaced, h
  <2>2. UnitsOf(q)
    BY <1>2, <1>3, <2>1 DEF UnitsOf, Same
  <2>3. ASSUME NEW t \in Xbus
        PROVE  /\ t \in InList(q.gfx) => Listed(q, t, waiting)
               /\ t \in {q.curRSP, q.sp} => Placed(q, t, waiting)
               /\ t \in {q.curRDP, q.dp} => Drawing(q, t, waiting)
    <3>1. s.dp = OscNone /\ OscNone \notin Xbus
      BY <1>3, <2>1, XbusAre DEF UnitsOf
    <3> QED BY <1>2, <1>5, <2>1, <3>1 DEF Listed, Placed, Drawing, Same
  <2> QED BY <1>2, <1>4, <2>1, <2>2, <2>3 DEF Orderly, Same
<1>11. CASE Resumed(s, q) \/ Begins(s, q)
  <2>1. /\ "SP" \in s.avail /\ s.gfx # <<>> /\ h \in Xbus /\ q.sp = h /\ q.gfx = Tail(s.gfx) /\ "SP" \notin q.avail
        /\ "DP" \in s.state[h] \/ "YIELDED" \in s.state[h]
    <3>1. /\ "SP" \in s.avail /\ s.gfx # <<>> /\ h \in Xbus /\ q.sp = h /\ q.gfx = Tail(s.gfx) /\ "SP" \notin q.avail
      BY <1>11 DEF Resumed, Begins, h
    <3>2. Listed(s, h, waiting)
      BY <1>2, <1>5, <3>1
    <3> QED BY <3>1, <3>2 DEF Listed
  <2>2. Listed(s, h, waiting) /\ s.curRSP = OscNone /\ s.sp = OscNone /\ h # OscNone
    BY <1>2, <1>3, <1>5, <2>1 DEF UnitsOf
  <2>3. \/ "DP" \in s.state[h] /\ q.dp = h /\ "DP" \notin q.avail /\ s.curRDP \in {OscNone, h} /\ s.dp \in {OscNone, h}
        \/ "DP" \notin s.state[h] /\ q.dp = s.dp /\ ("DP" \in q.avail <=> "DP" \in s.avail)
    <3>1. CASE Begins(s, q)
      <4>1. "YIELDED" \notin s.state[h] /\ q.dp = h /\ q.avail = {} /\ s.avail = {"SP", "DP"}
        BY <3>1 DEF Begins, h
      <4>2. "DP" \in s.state[h]
        BY <2>1, <4>1
      <4>3. s.curRDP = OscNone /\ s.dp = OscNone
        BY <1>3, <4>1 DEF UnitsOf
      <4> QED BY <4>1, <4>2, <4>3
    <3>2. CASE Resumed(s, q)
      <4>1. /\ "YIELDED" \in s.state[h] /\ q.dp = (IF "DP" \in s.state[h] THEN h ELSE s.dp)
            /\ q.avail = s.avail \ ((s.state[h] \cap {"SP", "DP"}) \cup {"SP"})
        BY <3>2 DEF Resumed, h
      <4>2. "DP" \in s.state[h] => s.curRDP = h /\ s.dp \in {OscNone, h}
        BY <1>3, <2>2, <4>1 DEF Listed, UnitsOf
      <4> QED BY <4>1, <4>2
    <3> QED BY <1>11, <3>1, <3>2
  <2>4. UnitsOf(q)
    BY <1>3, <2>1, <2>2, <2>3 DEF UnitsOf, Same
  <2>5. ASSUME NEW t \in Xbus
        PROVE  /\ t \in InList(q.gfx) => Listed(q, t, waiting)
               /\ t \in {q.curRSP, q.sp} => Placed(q, t, waiting)
               /\ t \in {q.curRDP, q.dp} => Drawing(q, t, waiting)
    <3>1. CASE t = h
      <4>1. "SP" \in s.state[h] /\ h \in s.busy \ waiting /\ h \notin InList(q.gfx)
        BY <1>2, <2>1, <2>2 DEF Listed
      <4>2. t \in {q.curRDP, q.dp} => Drawing(q, t, waiting)
        BY <1>5, <2>3, <3>1, <4>1 DEF Drawing, Same
      <4> QED BY <2>3, <3>1, <4>1, <4>2 DEF Placed, Same
    <3>2. CASE t # h
      <4>1. t \notin {q.curRSP, q.sp}
        BY <2>1, <2>2, <3>2, XbusAre DEF Same
      <4>2. t \in InList(q.gfx) => Listed(q, t, waiting)
        BY <1>2, <1>5, <2>1, <2>3, <3>2, <4>1 DEF Listed, Same
      <4>3. t \in {q.curRDP, q.dp} => Drawing(q, t, waiting)
        BY <1>5, <2>3, <3>2 DEF Drawing, Same
      <4> QED BY <4>1, <4>2, <4>3
    <3> QED BY <3>1, <3>2
  <2> QED BY <1>2, <1>4, <2>1, <2>4, <2>5 DEF Orderly, Same
<1> QED BY <1>7, <1>8, <1>9, <1>10, <1>11

(* What holds between the passes of __scSchedule.                          *)
Fits(s, queue) == UnitsOf(s) /\ (Ordered(s, queue) \/ Jammed(s))

LEMMA PassStep ==
  ASSUME NEW s, Sound(s), oscType \in [OscGfxTasks -> {"xbus", "dram"}], NEW queue,
         UnitsOf(s), Ordered(s, queue) \/ Jammed(s) \/ (Parallel(s) /\ "SP" \in s.avail)
  PROVE  Sound(Place(s)) /\ Same(s, Place(s)) /\ Fits(Place(s), queue)
<1> DEFINE q == Place(s)
<1>1. /\ Sound(q) /\ Same(s, q)
      /\ \/ q = s /\ ~(Parallel(s) /\ "SP" \in s.avail)
         \/ Alongside(s, q) \/ AudioPlaced(s, q) \/ Resumed(s, q) \/ Begins(s, q)
         \/ RspPlaced(s, q) \/ RdpPlaced(s, q)
  BY PlaceIs
<1> HIDE DEF q
<1>2. CASE Parallel(s) /\ "SP" \in s.avail
  <2>1. Alongside(s, q)
    BY <1>1, <1>2 DEF Parallel, AudioPlaced, Resumed, Begins, RspPlaced, RdpPlaced
  <2>2. UnitsOf(q)
    BY <1>1, <2>1 DEF Alongside, UnitsOf, Same
  <2>3. Jammed(q)
    BY <1>2, <2>1 DEF Alongside, Jammed, Parallel
  <2> QED BY <1>1, <2>2, <2>3 DEF Fits, q
<1>3. CASE Jammed(s) /\ "SP" \notin s.avail
  <2>1. q = s
    BY <1>1, <1>3 DEF Jammed, Parallel, Alongside, AudioPlaced, Resumed, Begins, RspPlaced, RdpPlaced
  <2> QED BY <1>1, <1>3, <2>1 DEF Fits, q
<1>4. CASE Ordered(s, queue) /\ ~(Parallel(s) /\ "SP" \in s.avail)
  BY <1>1, <1>4, PlaceOrder DEF Fits, Ordered, q
<1> QED BY <1>2, <1>3, <1>4 DEF Jammed

-----------------------------------------------------------------------------
(* A handler: __scSchedule and __scExec.                                   *)

LEMMA Freed ==
  ASSUME NEW s, Sound(s), oscType \in [OscGfxTasks -> {"xbus", "dram"}], s.sp = OscNone, s.dp = OscNone, NEW queue,
         Ordered(s, queue) \/ Jammed(s) \/ (Parallel(s) /\ s.curRSP = OscNone)
  PROVE  LET p == [s EXCEPT !.avail = Free(s.curRSP, s.curRDP)]
         IN  /\ Sound(p) /\ Same(s, p) /\ UnitsOf(p)
             /\ Ordered(p, queue) \/ Jammed(p) \/ (Parallel(p) /\ "SP" \in p.avail)
<1> DEFINE p == [s EXCEPT !.avail = Free(s.curRSP, s.curRDP)]
<1>1. /\ p \in Scheds /\ Same(s, p) /\ p.gfx = s.gfx /\ p.audio = s.audio /\ p.doAudio = s.doAudio
      /\ p.sp = OscNone /\ p.dp = OscNone /\ p.avail = Free(s.curRSP, s.curRDP)
  BY DEF Sound, Scheds, Same, Free
<1> HIDE DEF p
<1>2. UnitsOf(p)
  BY <1>1 DEF UnitsOf, Free, Same
<1>3. Parallel(p) <=> Parallel(s)
  BY <1>1 DEF Parallel
<1>4. Jammed(s) => Jammed(p)
  BY <1>1, <1>3 DEF Jammed, Same
<1>5. Ordered(s, queue) => Ordered(p, queue)
  BY <1>1 DEF Ordered, Orderly, Listed, Placed, Drawing, Same
<1>6. s.curRSP = OscNone => "SP" \in p.avail
  BY <1>1 DEF Free
<1> QED BY <1>1, <1>2, <1>3, <1>4, <1>5, <1>6 DEF Sound, p

LEMMA LaunchIs ==
  ASSUME NEW s, Sound(s), oscType \in [OscGfxTasks -> {"xbus", "dram"}], s.sp = OscNone, s.dp = OscNone, NEW queue,
         Ordered(s, queue) \/ Jammed(s) \/ (Parallel(s) /\ s.curRSP = OscNone), Launch(s)
  PROVE  \E q : Sound(q) /\ Same(s, q) /\ Fits(q, queue) /\ Started(q)
<1>1. PICK p : p = [s EXCEPT !.avail = Free(s.curRSP, s.curRDP)]
  OBVIOUS
<1>2. /\ Sound(p) /\ Same(s, p) /\ UnitsOf(p)
      /\ Ordered(p, queue) \/ Jammed(p) \/ (Parallel(p) /\ "SP" \in p.avail)
  BY <1>1, Freed
<1>3. Started(Place(Place(p)))
  BY <1>1 DEF Launch, Schedule
<1>4. Sound(Place(p)) /\ Same(p, Place(p)) /\ Fits(Place(p), queue)
  BY <1>2, PassStep
<1>5. Sound(Place(Place(p))) /\ Same(Place(p), Place(Place(p))) /\ Fits(Place(Place(p)), queue)
  BY <1>4, PassStep DEF Fits
<1>6. Same(s, Place(Place(p)))
  BY <1>2, <1>4, <1>5 DEF Same
<1> QED BY <1>3, <1>5, <1>6

LEMMA NowNext ==
  ASSUME Xbus' = Xbus, NEW n, n = Now'
  PROVE  /\ Sound(n) => Sound(Now)'
         /\ Ordered(n, cmdQ') => Ordered(Now, cmdQ)'
         /\ Jammed(n) => Jammed(Now)'
<1>1. Sound(n) => Sound(Now)'
  BY DEF Sound, Scheds
<1>2. Ordered(n, cmdQ') => Ordered(Now, cmdQ)'
  BY DEF Ordered, Orderly, Listed, Placed, Drawing, OnceOn, InList
<1>3. Jammed(n) => Jammed(Now)'
  BY DEF Jammed, Parallel, Gfx
<1> QED BY <1>1, <1>2, <1>3

(* What is placed when __scSchedule is through gets its unit.              *)
LEMMA ExecStep ==
  ASSUME NEW s, Sound(s), NEW queue, Fits(s, queue), Exec(s), queue = cmdQ',
         \A t \in OscAudio : "YIELD" \notin s.state[t]
  PROVE  /\ UNCHANGED <<oscType, oscAt>> /\ interruptQ' = Tail(interruptQ)
         /\ Sound(Now)' /\ (Ordered(Now, cmdQ)' \/ Jammed(Now)')
         /\ \A t \in OscAudio : "YIELD" \notin state'[t]
<1>1. s \in Scheds /\ (s.doAudio => s.audio # <<>>)
  BY DEF Sound
<1>2. /\ s.gfx \in Seq(OscGfxTasks) /\ s.audio \in Seq(OscAudio) /\ s.doAudio \in BOOLEAN
      /\ s.curRSP \in Running /\ s.curRDP \in Running /\ s.sp \in Running /\ s.dp \in Running
      /\ s.state \in [Running -> SUBSET Flags] /\ s.fb \in [curr : OscBuffers, next : OscBuffers]
      /\ s.busy \in SUBSET OscTasks
  BY <1>1 DEF Scheds
<1>3. UNCHANGED <<oscType, oscAt>> /\ interruptQ' = Tail(interruptQ)
  BY DEF Exec, oscApp
<1>4. PICK n : n = Now'
  OBVIOUS
<1>5. /\ n.gfx = s.gfx /\ n.audio = s.audio /\ n.doAudio = s.doAudio /\ n.fb = s.fb /\ n.busy = s.busy
      /\ n.curRSP = (IF s.sp = OscNone THEN s.curRSP ELSE s.sp)
      /\ n.curRDP = (IF s.dp = OscNone THEN s.curRDP ELSE s.dp)
      /\ n.state = state' /\ n.sp = OscNone /\ n.dp = OscNone /\ n.avail = {}
  BY <1>4 DEF Exec, Now
<1>6. state' = IF s.sp = OscNone THEN s.state ELSE [s.state EXCEPT ![s.sp] = @ \ {"YIELD", "YIELDED"}]
  BY DEF Exec
<1>7. /\ state' \in [Running -> SUBSET Flags]
      /\ \A t \in Running : state'[t] = IF t = s.sp /\ s.sp # OscNone THEN s.state[t] \ {"YIELD", "YIELDED"} ELSE s.state[t]
  BY <1>2, <1>6
<1>8. n \in Scheds
  <2>1. n = [gfx |-> n.gfx, audio |-> n.audio, doAudio |-> n.doAudio, curRSP |-> n.curRSP, curRDP |-> n.curRDP,
             state |-> n.state, fb |-> n.fb, busy |-> n.busy, sp |-> n.sp, dp |-> n.dp, avail |-> n.avail]
    BY <1>4 DEF Now
  <2>2. OscNone \in Running
    BY DEF Running
  <2> QED BY <1>2, <1>5, <1>7, <2>1, <2>2 DEF Scheds
<1>9. Sound(n)
  BY <1>1, <1>5, <1>8 DEF Sound
<1>10. Ordered(s, queue) => Ordered(n, queue)
  <2> SUFFICES ASSUME Orderly(s, InList(queue)) PROVE Orderly(n, InList(queue))
    BY DEF Ordered
  <2>1. UnitsOf(s)
    BY DEF Fits
  <2>2. ASSUME NEW t \in Xbus
        PROVE  /\ t \in InList(n.gfx) => Listed(n, t, InList(queue))
               /\ t \in {n.curRSP, n.sp} => Placed(n, t, InList(queue))
               /\ t \in {n.curRDP, n.dp} => Drawing(n, t, InList(queue))
    <3>1. /\ t \in InList(s.gfx) => Listed(s, t, InList(queue))
          /\ t \in {s.curRSP, s.sp} => Placed(s, t, InList(queue))
          /\ t \in {s.curRDP, s.dp} => Drawing(s, t, InList(queue))
      BY DEF Orderly
    <3>2. /\ t # OscNone /\ t \in Running /\ ("SP" \in n.state[t] <=> "SP" \in s.state[t])
          /\ ("DP" \in n.state[t] <=> "DP" \in s.state[t])
          /\ (t # s.sp => n.state[t] = s.state[t])
      BY <1>5, <1>7, XbusAre DEF Running, OscTasks
    <3>3. s.dp # OscNone => s.curRDP \in {OscNone, s.dp}
      BY <2>1 DEF UnitsOf
    <3>4. t \in InList(n.gfx) => Listed(n, t, InList(queue))
      BY <1>5, <3>1, <3>2, <3>3 DEF Listed
    <3>5. t \in {n.curRSP, n.sp} => Placed(n, t, InList(queue))
      BY <1>5, <3>1, <3>2, <3>3 DEF Placed
    <3>6. t \in {n.curRDP, n.dp} => Drawing(n, t, InList(queue))
      BY <1>5, <3>1, <3>2, <3>3 DEF Drawing
    <3> QED BY <3>4, <3>5, <3>6
  <2> QED BY <1>5, <2>2 DEF Orderly
<1>11. Jammed(s) => Jammed(n)
  <2>1. UnitsOf(s)
    BY DEF Fits
  <2>2. Parallel(s) => Head(s.gfx) # OscNone
    BY XbusAre DEF Parallel
  <2> QED BY <1>5, <2>1, <2>2 DEF Jammed, Parallel, UnitsOf
<1>12. Sound(Now)' /\ (Ordered(Now, cmdQ)' \/ Jammed(Now)')
  <2>1. Xbus' = Xbus
    BY <1>3 DEF Xbus
  <2>2. Ordered(s, queue) \/ Jammed(s)
    BY DEF Fits
  <2> QED BY <1>4, <1>9, <1>10, <1>11, <2>1, <2>2, NowNext
<1>13. \A t \in OscAudio : "YIELD" \notin state'[t]
  BY <1>7 DEF Running, OscTasks
<1> QED BY <1>3, <1>12, <1>13

-----------------------------------------------------------------------------
(* The interrupts: each unit's end is told once.                           *)

LEMMA KnownTail ==
  ASSUME NEW S, NEW queue \in Seq(S), queue # <<>>, NEW cur, NEW task, NEW event, UnitKnown(cur, task, event, queue)
  PROVE  /\ Head(queue) # event => UnitKnown(cur, task, event, Tail(queue))
         /\ Head(queue) = event => cur # OscNone /\ UnitKnown(OscNone, task, event, Tail(queue))
<1>1. /\ InList(queue) = InList(Tail(queue)) \cup {Head(queue)} /\ Head(queue) \in InList(queue)
      /\ OnceOn(queue, {event}) => /\ OnceOn(Tail(queue), {event})
                                   /\ Head(queue) \in {event} => Head(queue) \notin InList(Tail(queue))
  BY InTail
<1>2. OnceOn(queue, {event})
  BY DEF UnitKnown
<1>3. CASE Head(queue) # event
  BY <1>1, <1>2, <1>3 DEF UnitKnown
<1>4. CASE Head(queue) = event
  BY <1>1, <1>2, <1>4 DEF UnitKnown
<1> QED BY <1>3, <1>4

LEMMA KnownAppend ==
  ASSUME NEW S, NEW queue \in Seq(S), NEW x \in S, NEW cur, NEW task, NEW event, UnitKnown(cur, task, event, queue)
  PROVE  /\ x # event => UnitKnown(cur, task, event, Append(queue, x))
         /\ x = event /\ task # OscNone => UnitKnown(cur, OscNone, event, Append(queue, x))
<1>1. /\ InList(Append(queue, x)) = InList(queue) \cup {x}
      /\ OnceOn(queue, {event}) /\ (x \in {event} => x \notin InList(queue)) => OnceOn(Append(queue, x), {event})
  BY InAppend
<1>2. CASE x # event
  BY <1>1, <1>2 DEF UnitKnown
<1>3. CASE x = event /\ task # OscNone
  BY <1>1, <1>3 DEF UnitKnown
<1> QED BY <1>2, <1>3

(* The units and the interrupts, as the state and as the next state has    *)
(* them.                                                                   *)
Units ==
  /\ interruptQ \in Seq({"VIDEO", "RSP", "RDP"})
  /\ rsp \in [task : Running, asked : BOOLEAN, yielded : BOOLEAN] /\ rdp \in Running
  /\ UnitKnown(curRSP, rsp.task, "RSP", interruptQ)
  /\ UnitKnown(curRDP, rdp, "RDP", interruptQ)

LEMMA UnitsNext ==
  ASSUME interruptQ' \in Seq({"VIDEO", "RSP", "RDP"}),
         rsp' \in [task : Running, asked : BOOLEAN, yielded : BOOLEAN], rdp' \in Running,
         UnitKnown(curRSP', rsp'.task, "RSP", interruptQ'), UnitKnown(curRDP', rdp', "RDP", interruptQ')
  PROVE  Units'
BY DEF Units, UnitKnown, OnceOn, InList, Running, OscTasks

(* Before a handler: what it will find on the units once it has taken its  *)
(* event.                                                                  *)
Known(s) ==
  /\ UnitKnown(s.curRSP, rsp.task, "RSP", Tail(interruptQ))
  /\ UnitKnown(s.curRDP, rdp, "RDP", Tail(interruptQ))

LEMMA StartedStep ==
  ASSUME NEW s, Sound(s), UnitsOf(s), Started(s), Units, interruptQ # <<>>, Known(s)
  PROVE  Units'
<1>1. s.sp \in Running /\ s.dp \in Running
  BY DEF Sound, Scheds
<1>2. interruptQ' = Tail(interruptQ) /\ Tail(interruptQ) \in Seq({"VIDEO", "RSP", "RDP"})
  BY InTail DEF Started, Exec, Units
<1>3. /\ curRSP' = (IF s.sp = OscNone THEN s.curRSP ELSE s.sp)
      /\ rsp' = IF s.sp = OscNone THEN rsp ELSE [task |-> s.sp, asked |-> FALSE, yielded |-> FALSE]
      /\ curRDP' = (IF s.dp = OscNone THEN s.curRDP ELSE s.dp)
      /\ rdp' = IF s.dp = OscNone \/ s.dp = s.curRDP THEN rdp ELSE s.dp
  BY DEF Started, Exec
<1>4. /\ rsp' \in [task : Running, asked : BOOLEAN, yielded : BOOLEAN]
      /\ rsp'.task = IF s.sp = OscNone THEN rsp.task ELSE s.sp
  <2>1. CASE s.sp = OscNone
    BY <1>3, <2>1 DEF Units
  <2>2. CASE s.sp # OscNone
    BY <1>1, <1>3, <2>2
  <2> QED BY <2>1, <2>2
<1>5. UnitKnown(curRSP', rsp'.task, "RSP", interruptQ')
  <2>1. UnitKnown(s.curRSP, rsp.task, "RSP", Tail(interruptQ)) /\ (s.sp # OscNone => s.curRSP = OscNone)
    BY DEF Known, UnitsOf
  <2>2. CASE s.sp = OscNone
    BY <1>2, <1>3, <1>4, <2>1, <2>2
  <2>3. CASE s.sp # OscNone
    BY <1>2, <1>3, <1>4, <2>1, <2>3 DEF UnitKnown
  <2> QED BY <2>2, <2>3
<1>6. rdp' \in Running /\ UnitKnown(curRDP', rdp', "RDP", interruptQ')
  <2>1. UnitKnown(s.curRDP, rdp, "RDP", Tail(interruptQ)) /\ (s.dp # OscNone => s.curRDP \in {OscNone, s.dp})
    BY DEF Known, UnitsOf
  <2>2. CASE s.dp = OscNone \/ s.dp = s.curRDP
    BY <1>2, <1>3, <2>1, <2>2 DEF Units
  <2>3. CASE s.dp # OscNone /\ s.dp # s.curRDP
    BY <1>1, <1>2, <1>3, <2>1, <2>3 DEF UnitKnown
  <2> QED BY <2>2, <2>3
<1> QED BY <1>2, <1>4, <1>5, <1>6, UnitsNext

Typing == oscType \in [OscGfxTasks -> {"xbus", "dram"}] /\ oscAt \in DOMAIN OscGraphics
NoAudioYields(s) == \A t \in OscAudio : "YIELD" \notin s.state[t]

(* The invariant in the parts that a step shows one by one.                *)
LEMMA Parts ==
  OscIInv <=> /\ Typing /\ cmdQ \in Seq(OscTasks) /\ Sound(Now) /\ NoAudioYields(Now)
              /\ Units /\ (Ordered(Now, cmdQ) \/ Jammed(Now))
<1>1. Now.state = state
  BY DEF Now
<1> QED BY <1>1 DEF OscIInv, OscTypesOK, Typing, Units, NoAudioYields

LEMMA PartsNext ==
  ASSUME Typing, UNCHANGED <<oscType, oscAt>>, cmdQ' \in Seq(OscTasks), Sound(Now)',
         \A t \in OscAudio : "YIELD" \notin state'[t], Units', Ordered(Now, cmdQ)' \/ Jammed(Now)'
  PROVE  OscIInv'
BY DEF OscIInv, OscTypesOK, Typing, Units, OscTasks, OscGfxTasks

LEMMA HandlerStep ==
  ASSUME NEW s, Sound(s), Typing, s.sp = OscNone, s.dp = OscNone, NoAudioYields(s), cmdQ' \in Seq(OscTasks),
         Units, interruptQ # <<>>, Known(s), Launch(s),
         Ordered(s, cmdQ') \/ Jammed(s) \/ (Parallel(s) /\ s.curRSP = OscNone)
  PROVE  OscIInv'
<1>1. PICK queue : queue = cmdQ'
  OBVIOUS
<1>2. PICK q : Sound(q) /\ Same(s, q) /\ Fits(q, queue) /\ Started(q)
  BY <1>1, LaunchIs DEF Typing
<1>3. Exec(q) /\ UnitsOf(q) /\ \A t \in OscAudio : "YIELD" \notin q.state[t]
  BY <1>2 DEF Started, Fits, Same, NoAudioYields
<1>4. /\ UNCHANGED <<oscType, oscAt>> /\ Sound(Now)' /\ (Ordered(Now, cmdQ)' \/ Jammed(Now)')
      /\ \A t \in OscAudio : "YIELD" \notin state'[t]
  BY <1>1, <1>2, <1>3, ExecStep
<1>5. Units'
  BY <1>2, <1>3, StartedStep DEF Known, Same
<1> QED BY <1>4, <1>5, PartsNext

-----------------------------------------------------------------------------
(* The completion of the RSP.                                              *)

(* A task that yielded is to be resumed.                                   *)
Yielded(n, t) ==
  [[n EXCEPT !.curRSP = OscNone]
   EXCEPT !.state[t] = @ \cup {"YIELDED"}, !.gfx = IF oscType[t] = "xbus" THEN <<t>> \o @ ELSE @]

YieldedTo(n, t, s) ==
  /\ s.curRSP = OscNone /\ s.curRDP = n.curRDP /\ s.sp = n.sp /\ s.dp = n.dp /\ s.busy = n.busy
  /\ s.doAudio = n.doAudio
  /\ \A u \in Running : s.state[u] = IF u = t THEN n.state[u] \cup {"YIELDED"} ELSE n.state[u]
  /\ t \in Xbus => /\ s.gfx # <<>> /\ Head(s.gfx) = t /\ InList(s.gfx) = {t} \cup InList(n.gfx)
                   /\ OnceOn(n.gfx, Xbus) /\ t \notin InList(n.gfx) => OnceOn(s.gfx, Xbus)
  /\ t \notin Xbus => s.gfx = n.gfx

LEMMA YieldedIs ==
  ASSUME NEW n, Sound(n), Typing, NEW t \in OscGfxTasks
  PROVE  Sound(Yielded(n, t)) /\ YieldedTo(n, t, Yielded(n, t))
<1>1. /\ n \in Scheds /\ n.gfx \in Seq(OscGfxTasks) /\ n.state \in [Running -> SUBSET Flags]
      /\ (n.doAudio => n.audio # <<>>)
  BY DEF Sound, Scheds
<1>2. t \in Running /\ OscNone \in Running /\ (t \in Xbus <=> oscType[t] = "xbus")
  BY DEF Running, OscTasks, Xbus
<1>3. PICK list : list = IF oscType[t] = "xbus" THEN <<t>> \o n.gfx ELSE n.gfx
  OBVIOUS
<1>4. /\ <<t>> \in Seq(OscGfxTasks) /\ <<t>> # <<>> /\ Head(<<t>>) = t /\ InList(<<t>>) = {t} /\ OnceOn(<<t>>, Xbus)
  <2>1. /\ DOMAIN <<t>> = {1} /\ <<t>>[1] = t
    OBVIOUS
  <2> QED BY <2>1 DEF InList, OnceOn
<1>5. /\ <<t>> \o n.gfx \in Seq(OscGfxTasks) /\ <<t>> \o n.gfx # <<>> /\ Head(<<t>> \o n.gfx) = t
      /\ InList(<<t>> \o n.gfx) = {t} \cup InList(n.gfx)
      /\ OnceOn(n.gfx, Xbus) /\ t \notin InList(n.gfx) => OnceOn(<<t>> \o n.gfx, Xbus)
  <2>1. /\ <<t>> \o n.gfx \in Seq(OscGfxTasks) /\ InList(<<t>> \o n.gfx) = InList(<<t>>) \cup InList(n.gfx)
        /\ <<t>> # <<>> => <<t>> \o n.gfx # <<>> /\ Head(<<t>> \o n.gfx) = Head(<<t>>)
        /\ OnceOn(<<t>>, Xbus) /\ OnceOn(n.gfx, Xbus) /\ InList(<<t>>) \cap InList(n.gfx) \cap Xbus = {}
             => OnceOn(<<t>> \o n.gfx, Xbus)
    BY <1>1, <1>4, InBoth
  <2> QED BY <1>4, <2>1
<1>6. /\ list \in Seq(OscGfxTasks)
      /\ t \in Xbus => /\ list # <<>> /\ Head(list) = t /\ InList(list) = {t} \cup InList(n.gfx)
                       /\ OnceOn(n.gfx, Xbus) /\ t \notin InList(n.gfx) => OnceOn(list, Xbus)
      /\ t \notin Xbus => list = n.gfx
  BY <1>1, <1>2, <1>3, <1>5
<1> DEFINE s == [[n EXCEPT !.curRSP = OscNone] EXCEPT !.state[t] = @ \cup {"YIELDED"}, !.gfx = list]
<1>7. Yielded(n, t) = s
  BY <1>1, <1>3 DEF Yielded, Scheds
<1>8. /\ s.gfx = list /\ s.curRSP = OscNone /\ s.curRDP = n.curRDP /\ s.sp = n.sp /\ s.dp = n.dp /\ s.busy = n.busy
      /\ s.doAudio = n.doAudio /\ s.audio = n.audio /\ s.state = [n.state EXCEPT ![t] = @ \cup {"YIELDED"}]
  BY <1>1 DEF Scheds
<1>9. s.state \in [Running -> SUBSET Flags]
      /\ \A u \in Running : s.state[u] = IF u = t THEN n.state[u] \cup {"YIELDED"} ELSE n.state[u]
  <2>1. n.state[t] \cup {"YIELDED"} \in SUBSET Flags
    BY <1>1, <1>2 DEF Flags
  <2> QED BY <1>1, <1>2, <1>8, <2>1
<1>10. s \in Scheds
  BY <1>1, <1>2, <1>6, <1>8, <1>9 DEF Scheds
<1> HIDE DEF s
<1>11. Sound(s)
  BY <1>1, <1>8, <1>10 DEF Sound
<1>12. YieldedTo(n, t, s)
  BY <1>6, <1>8, <1>9 DEF YieldedTo
<1> QED BY <1>7, <1>11, <1>12

LEMMA YieldedOrder ==
  ASSUME NEW n, Sound(n), Typing, NEW t \in OscGfxTasks, n.curRSP = t, n.sp = OscNone, n.dp = OscNone,
         NEW queue, Ordered(n, queue) \/ Jammed(n)
  PROVE  Ordered(Yielded(n, t), queue) \/ Parallel(Yielded(n, t))
<1>1. PICK s : s = Yielded(n, t)
  OBVIOUS
<1>2. /\ s.curRSP = OscNone /\ s.curRDP = n.curRDP /\ s.sp = OscNone /\ s.dp = OscNone /\ s.busy = n.busy
      /\ s.doAudio = n.doAudio
      /\ \A u \in Running : s.state[u] = IF u = t THEN n.state[u] \cup {"YIELDED"} ELSE n.state[u]
      /\ t \in Xbus => /\ s.gfx # <<>> /\ Head(s.gfx) = t /\ InList(s.gfx) = {t} \cup InList(n.gfx)
                       /\ OnceOn(n.gfx, Xbus) /\ t \notin InList(n.gfx) => OnceOn(s.gfx, Xbus)
      /\ t \notin Xbus => s.gfx = n.gfx
  <2>1. YieldedTo(n, t, s)
    BY <1>1, YieldedIs
  <2> QED BY <2>1 DEF YieldedTo
<1>3. Xbus \subseteq Running /\ OscNone \notin Xbus
  BY XbusAre DEF Running, OscTasks
<1>4. CASE Jammed(n)
  <2>1. Parallel(n) /\ Head(n.gfx) = t /\ t \in Xbus
    BY <1>3, <1>4 DEF Jammed, Parallel
  <2>2. Parallel(s)
    BY <1>2, <2>1 DEF Parallel
  <2> QED BY <1>1, <2>2
<1>5. CASE Ordered(n, queue)
  <2>1. OnceOn(n.gfx, Xbus) /\ InList(queue) \cap Xbus \subseteq n.busy /\ OnceOn(queue, Xbus)
    BY <1>5 DEF Ordered, Orderly
  <2>2. ASSUME NEW u \in Xbus
        PROVE  /\ u \in InList(n.gfx) => Listed(n, u, InList(queue))
               /\ u \in {n.curRSP, n.sp} => Placed(n, u, InList(queue))
               /\ u \in {n.curRDP, n.dp} => Drawing(n, u, InList(queue))
    BY <1>5 DEF Ordered, Orderly
  <2>3. t \in Xbus => t \notin InList(n.gfx) /\ Placed(n, t, InList(queue))
    BY <2>2 DEF Listed
  <2>4. OnceOn(s.gfx, Xbus)
    BY <1>2, <2>1, <2>3
  <2>5. ASSUME NEW u \in Xbus
        PROVE  /\ u \in InList(s.gfx) => Listed(s, u, InList(queue))
               /\ u \in {s.curRSP, s.sp} => Placed(s, u, InList(queue))
               /\ u \in {s.curRDP, s.dp} => Drawing(s, u, InList(queue))
    <3>1. u \in Running /\ u # OscNone
      BY <1>3
    <3>2. u \in {s.curRDP, s.dp} => Drawing(s, u, InList(queue))
      BY <1>2, <2>2, <3>1 DEF Drawing
    <3>3. CASE u = t
      <4>1. Placed(n, u, InList(queue)) /\ "YIELDED" \in s.state[u]
            /\ ("SP" \in s.state[u] <=> "SP" \in n.state[u]) /\ ("DP" \in s.state[u] <=> "DP" \in n.state[u])
        <5>1. s.state[u] = n.state[u] \cup {"YIELDED"}
          BY <1>2, <3>1, <3>3
        <5> QED BY <2>3, <3>3, <5>1
      <4>2. Listed(s, u, InList(queue))
        BY <1>2, <2>2, <3>1, <4>1 DEF Placed, Listed
      <4> QED BY <1>2, <3>1, <3>2, <4>2
    <3>4. CASE u # t
      <4>1. u \in InList(s.gfx) => u \in InList(n.gfx)
        BY <1>2, <3>4
      <4>2. u \in InList(s.gfx) => Listed(s, u, InList(queue))
        BY <1>2, <2>2, <3>1, <3>4, <4>1 DEF Listed
      <4> QED BY <1>2, <3>1, <3>2, <4>2
    <3> QED BY <3>3, <3>4
  <2>6. Ordered(s, queue)
    BY <1>2, <2>1, <2>4, <2>5 DEF Ordered, Orderly
  <2> QED BY <1>1, <2>6
<1> QED BY <1>4, <1>5

(* A task is done with a unit, and with both it is done.                   *)
DoneTo(n, t, unit, s) ==
  /\ s.gfx = n.gfx /\ s.doAudio = n.doAudio /\ s.sp = n.sp /\ s.dp = n.dp /\ Sound(s)
  /\ \A u \in Running : s.state[u] = IF u = t THEN n.state[u] \ {unit} ELSE n.state[u]
  /\ s.busy = IF (n.state[t] \ {unit}) \cap {"SP", "DP"} # {} THEN n.busy ELSE n.busy \ {t}

LEMMA CompletedIs ==
  ASSUME NEW n, Sound(n), NEW t \in OscTasks, NEW unit
  PROVE  LET s == Completed([n EXCEPT !.state[t] = @ \ {unit}], t)
         IN  DoneTo(n, t, unit, s) /\ s.curRSP = n.curRSP /\ s.curRDP = n.curRDP
<1> DEFINE p == [n EXCEPT !.state[t] = @ \ {unit}]
           q == [p EXCEPT !.busy = @ \ {t}, !.fb.next = IF t \in OscGfxTasks /\ Gfx(t).last THEN Gfx(t).buf ELSE @]
<1>1. /\ n \in Scheds /\ n.state \in [Running -> SUBSET Flags] /\ (n.doAudio => n.audio # <<>>)
  BY DEF Sound, Scheds
<1>2. t \in Running
  BY DEF Running
<1>3. /\ p \in Scheds /\ p.gfx = n.gfx /\ p.doAudio = n.doAudio /\ p.audio = n.audio /\ p.sp = n.sp /\ p.dp = n.dp
      /\ p.busy = n.busy /\ p.curRSP = n.curRSP /\ p.curRDP = n.curRDP /\ p.fb \in [curr : OscBuffers, next : OscBuffers]
      /\ p.state = [n.state EXCEPT ![t] = @ \ {unit}]
  <2>1. [n.state EXCEPT ![t] = @ \ {unit}] \in [Running -> SUBSET Flags]
    BY <1>1, <1>2
  <2> QED BY <1>1, <2>1 DEF Scheds
<1>4. /\ \A u \in Running : p.state[u] = IF u = t THEN n.state[u] \ {unit} ELSE n.state[u]
      /\ p.state[t] = n.state[t] \ {unit}
  BY <1>1, <1>2, <1>3
<1> HIDE DEF p
<1>5. CASE p.state[t] \cap {"SP", "DP"} # {}
  <2>1. Completed(p, t) = p
    BY <1>5 DEF Completed
  <2> QED BY <1>1, <1>3, <1>4, <1>5, <2>1 DEF DoneTo, Sound, p
<1>6. CASE p.state[t] \cap {"SP", "DP"} = {}
  <2>1. Completed(p, t) = q
    BY <1>6 DEF Completed
  <2>2. t \in OscGfxTasks => Gfx(t).buf \in OscBuffers
    <3>1. t \in OscGfxTasks => \E i \in DOMAIN OscGraphics : OscGraphics[i].name = t
      BY DEF OscGfxTasks
    <3>2. t \in OscGfxTasks => \E i \in DOMAIN OscGraphics : Gfx(t) = OscGraphics[i]
      BY <3>1 DEF Gfx
    <3> QED BY <3>2 DEF OscBuffers
  <2>3. PICK fb : fb = [p.fb EXCEPT !.next = IF t \in OscGfxTasks /\ Gfx(t).last THEN Gfx(t).buf ELSE @]
    OBVIOUS
  <2>4. fb \in [curr : OscBuffers, next : OscBuffers]
    BY <1>3, <2>2, <2>3
  <2>5. q = [p EXCEPT !.busy = @ \ {t}, !.fb = fb]
    BY <1>3, <2>3 DEF Scheds
  <2>6. /\ q.gfx = n.gfx /\ q.doAudio = n.doAudio /\ q.audio = n.audio /\ q.sp = n.sp /\ q.dp = n.dp
        /\ q.busy = n.busy \ {t} /\ q.state = p.state /\ q.curRSP = n.curRSP /\ q.curRDP = n.curRDP
        /\ q \in Scheds
    BY <1>3, <2>4, <2>5 DEF Scheds
  <2> HIDE DEF q
  <2> QED BY <1>1, <1>4, <1>6, <2>1, <2>6 DEF DoneTo, Sound, p
<1> QED BY <1>5, <1>6

LEMMA RspDoneOrder ==
  ASSUME NEW n, Sound(n), NEW t \in OscTasks, n.curRSP = t, n.sp = OscNone, n.dp = OscNone,
         NEW queue, Ordered(n, queue) \/ Jammed(n),
         NEW s, DoneTo(n, t, "SP", s), s.curRSP = OscNone, s.curRDP = n.curRDP
  PROVE  Ordered(s, queue) \/ Parallel(s)
<1>1. /\ s.gfx = n.gfx /\ s.doAudio = n.doAudio /\ s.sp = n.sp /\ s.dp = n.dp
      /\ \A u \in Running : s.state[u] = IF u = t THEN n.state[u] \ {"SP"} ELSE n.state[u]
      /\ s.busy = IF (n.state[t] \ {"SP"}) \cap {"SP", "DP"} # {} THEN n.busy ELSE n.busy \ {t}
  BY DEF DoneTo
<1>2. Xbus \subseteq Running /\ OscNone \notin Xbus
  BY XbusAre DEF Running, OscTasks
<1>3. CASE Jammed(n)
  BY <1>1, <1>3 DEF Jammed, Parallel
<1>4. CASE Ordered(n, queue)
  <2>1. OnceOn(n.gfx, Xbus) /\ InList(queue) \cap Xbus \subseteq n.busy /\ OnceOn(queue, Xbus)
    BY <1>4 DEF Ordered, Orderly
  <2>2. ASSUME NEW u \in Xbus
        PROVE  /\ u \in InList(n.gfx) => Listed(n, u, InList(queue))
               /\ u \in {n.curRSP, n.sp} => Placed(n, u, InList(queue))
               /\ u \in {n.curRDP, n.dp} => Drawing(n, u, InList(queue))
    BY <1>4 DEF Ordered, Orderly
  <2>3. InList(queue) \cap Xbus \subseteq s.busy
    <3>1. t \in Xbus => t \notin InList(queue)
      BY <2>2 DEF Placed
    <3> QED BY <1>1, <2>1, <3>1
  <2>4. ASSUME NEW u \in Xbus
        PROVE  /\ u \in InList(s.gfx) => Listed(s, u, InList(queue))
               /\ u \in {s.curRSP, s.sp} => Placed(s, u, InList(queue))
               /\ u \in {s.curRDP, s.dp} => Drawing(s, u, InList(queue))
    <3>1. u \in Running /\ u # OscNone
      BY <1>2
    <3>2. u \in InList(s.gfx) => Listed(s, u, InList(queue))
      <4> SUFFICES ASSUME u \in InList(n.gfx) PROVE Listed(s, u, InList(queue))
        BY <1>1
      <4>1. Listed(n, u, InList(queue)) /\ u # t
        BY <2>2 DEF Listed
      <4>2. s.state[u] = n.state[u] /\ (u \in n.busy => u \in s.busy)
        BY <1>1, <3>1, <4>1
      <4> QED BY <1>1, <3>1, <4>1, <4>2 DEF Listed
    <3>3. u \in {s.curRDP, s.dp} => Drawing(s, u, InList(queue))
      <4> SUFFICES ASSUME u = n.curRDP PROVE Drawing(s, u, InList(queue))
        BY <1>1, <3>1
      <4>1. Drawing(n, u, InList(queue))
        BY <2>2
      <4>2. "DP" \in s.state[u] /\ (u \in n.busy => u \in s.busy)
        <5>1. "DP" \in n.state[u]
          BY <4>1 DEF Drawing
        <5>2. CASE u = t
          BY <1>1, <3>1, <5>1, <5>2
        <5>3. CASE u # t
          BY <1>1, <3>1, <5>1, <5>3
        <5> QED BY <5>2, <5>3
      <4> QED BY <4>1, <4>2 DEF Drawing
    <3> QED BY <1>1, <3>1, <3>2, <3>3
  <2> QED BY <1>1, <2>1, <2>3, <2>4 DEF Ordered, Orderly
<1> QED BY <1>3, <1>4

LEMMA RdpDoneOrder ==
  ASSUME NEW n, Sound(n), NEW t \in OscTasks, n.curRDP = t, n.sp = OscNone, n.dp = OscNone,
         NEW queue, Ordered(n, queue) \/ Jammed(n),
         NEW s, DoneTo(n, t, "DP", s), s.curRDP = OscNone, s.curRSP = n.curRSP
  PROVE  Ordered(s, queue) \/ Jammed(s)
<1>1. /\ s.gfx = n.gfx /\ s.doAudio = n.doAudio /\ s.sp = n.sp /\ s.dp = n.dp
      /\ \A u \in Running : s.state[u] = IF u = t THEN n.state[u] \ {"DP"} ELSE n.state[u]
      /\ s.busy = IF (n.state[t] \ {"DP"}) \cap {"SP", "DP"} # {} THEN n.busy ELSE n.busy \ {t}
  BY DEF DoneTo
<1>2. Xbus \subseteq Running /\ OscNone \notin Xbus
  BY XbusAre DEF Running, OscTasks
<1>3. CASE Jammed(n)
  BY <1>1, <1>3 DEF Jammed, Parallel
<1>4. CASE Ordered(n, queue)
  <2>1. OnceOn(n.gfx, Xbus) /\ InList(queue) \cap Xbus \subseteq n.busy /\ OnceOn(queue, Xbus)
    BY <1>4 DEF Ordered, Orderly
  <2>2. ASSUME NEW u \in Xbus
        PROVE  /\ u \in InList(n.gfx) => Listed(n, u, InList(queue))
               /\ u \in {n.curRSP, n.sp} => Placed(n, u, InList(queue))
               /\ u \in {n.curRDP, n.dp} => Drawing(n, u, InList(queue))
    BY <1>4 DEF Ordered, Orderly
  <2>3. InList(queue) \cap Xbus \subseteq s.busy
    <3>1. t \in Xbus => t \notin InList(queue)
      BY <2>2 DEF Drawing
    <3> QED BY <1>1, <2>1, <3>1
  <2>4. ASSUME NEW u \in Xbus, u = t, "SP" \in n.state[u]
        PROVE  "SP" \in s.state[u] /\ "DP" \notin s.state[u] /\ s.busy = n.busy
               /\ ("YIELDED" \in s.state[u] <=> "YIELDED" \in n.state[u])
    <3>1. s.state[u] = n.state[u] \ {"DP"}
      BY <1>1, <1>2, <2>4
    <3> QED BY <1>1, <2>4, <3>1
  <2>5. ASSUME NEW u \in Xbus, u # t
        PROVE  s.state[u] = n.state[u] /\ (u \in n.busy => u \in s.busy)
    BY <1>1, <1>2, <2>5
  <2>6. ASSUME NEW u \in Xbus
        PROVE  /\ u \in InList(s.gfx) => Listed(s, u, InList(queue))
               /\ u \in {s.curRSP, s.sp} => Placed(s, u, InList(queue))
               /\ u \in {s.curRDP, s.dp} => Drawing(s, u, InList(queue))
    <3>1. u # OscNone
      BY <1>2
    <3>2. u \in InList(s.gfx) => Listed(s, u, InList(queue))
      <4> SUFFICES ASSUME u \in InList(n.gfx) PROVE Listed(s, u, InList(queue))
        BY <1>1
      <4>1. Listed(n, u, InList(queue))
        BY <2>2
      <4>2. CASE u = t
        <5>1. "YIELDED" \in n.state[u]
          BY <4>1, <4>2 DEF Listed
        <5> QED BY <1>1, <2>4, <3>1, <4>1, <4>2, <5>1 DEF Listed
      <4>3. CASE u # t
        BY <1>1, <2>5, <3>1, <4>1, <4>3 DEF Listed
      <4> QED BY <4>2, <4>3
    <3>3. u \in {s.curRSP, s.sp} => Placed(s, u, InList(queue))
      <4> SUFFICES ASSUME u = n.curRSP PROVE Placed(s, u, InList(queue))
        BY <1>1, <3>1
      <4>1. Placed(n, u, InList(queue))
        BY <2>2
      <4>2. CASE u = t
        BY <2>4, <4>1, <4>2 DEF Placed
      <4>3. CASE u # t
        BY <1>1, <2>5, <3>1, <4>1, <4>3 DEF Placed
      <4> QED BY <4>2, <4>3
    <3> QED BY <1>1, <3>1, <3>2, <3>3
  <2> QED BY <1>1, <2>1, <2>3, <2>6 DEF Ordered, Orderly
<1> QED BY <1>3, <1>4

LEMMA HandleRSPStep == ASSUME OscIInv, HandleRSP PROVE OscIInv'
<1>1. PICK n : n = Now
  OBVIOUS
<1>2. PICK t : t = curRSP
  OBVIOUS
<1>3. /\ Typing /\ cmdQ \in Seq(OscTasks) /\ Sound(n) /\ NoAudioYields(n)
      /\ Units /\ (Ordered(n, cmdQ) \/ Jammed(n))
  BY <1>1, Parts
<1>4. /\ n.curRSP = t /\ n.curRDP = curRDP /\ n.state = state /\ n.gfx = gfxList /\ n.sp = OscNone /\ n.dp = OscNone
  BY <1>1, <1>2 DEF Now
<1>5. interruptQ # <<>> /\ Head(interruptQ) = "RSP" /\ cmdQ' = cmdQ
  BY DEF HandleRSP
<1>6. /\ t # OscNone /\ UnitKnown(OscNone, rsp.task, "RSP", Tail(interruptQ))
      /\ UnitKnown(curRDP, rdp, "RDP", Tail(interruptQ))
  <2>1. /\ interruptQ \in Seq({"VIDEO", "RSP", "RDP"}) /\ UnitKnown(t, rsp.task, "RSP", interruptQ)
        /\ UnitKnown(curRDP, rdp, "RDP", interruptQ)
    BY <1>2, <1>3 DEF Units
  <2>2. t # OscNone /\ UnitKnown(OscNone, rsp.task, "RSP", Tail(interruptQ))
    BY <1>5, <2>1, KnownTail
  <2>3. UnitKnown(curRDP, rdp, "RDP", Tail(interruptQ))
    BY <1>5, <2>1, KnownTail
  <2> QED BY <2>2, <2>3
<1>7. t \in OscTasks /\ n \in Scheds
  BY <1>3, <1>4, <1>6 DEF Sound, Scheds, Running
<1>8. CASE "YIELD" \in state[t] /\ rsp.yielded
  <2>1. t \in OscGfxTasks
    BY <1>3, <1>4, <1>7, <1>8 DEF NoAudioYields, OscTasks
  <2>2. PICK s : s = Yielded(n, t)
    OBVIOUS
  <2>3. Launch(s)
    BY <1>1, <1>2, <1>8, <2>2 DEF HandleRSP, Yielded
  <2>4. Sound(s) /\ YieldedTo(n, t, s)
    BY <1>3, <2>1, <2>2, YieldedIs
  <2>5. /\ s.curRSP = OscNone /\ s.curRDP = curRDP /\ s.sp = OscNone /\ s.dp = OscNone
        /\ \A u \in Running : s.state[u] = IF u = t THEN n.state[u] \cup {"YIELDED"} ELSE n.state[u]
    BY <1>4, <2>4 DEF YieldedTo
  <2>6. NoAudioYields(s)
    <3> SUFFICES ASSUME NEW u \in OscAudio PROVE "YIELD" \notin s.state[u]
      BY DEF NoAudioYields
    <3>1. u \in Running /\ u # t /\ "YIELD" \notin n.state[u]
      BY <1>3, <2>1, OscAssumption DEF NoAudioYields, Running, OscTasks, OscAssumption
    <3> QED BY <2>5, <3>1
  <2>7. Ordered(s, cmdQ) \/ Parallel(s)
    BY <1>3, <1>4, <2>1, <2>2, YieldedOrder
  <2>8. Known(s)
    BY <1>6, <2>5 DEF Known
  <2> QED BY <1>3, <1>5, <2>3, <2>4, <2>5, <2>6, <2>7, <2>8, HandlerStep
<1>9. CASE ~("YIELD" \in state[t] /\ rsp.yielded)
  <2>1. PICK m : m = [n EXCEPT !.curRSP = OscNone]
    OBVIOUS
  <2>2. PICK s : s = Completed([m EXCEPT !.state[t] = @ \ {"SP"}], t)
    OBVIOUS
  <2>3. Launch(s)
    BY <1>1, <1>2, <1>9, <2>1, <2>2 DEF HandleRSP
  <2>4. /\ Sound(m) /\ m.gfx = n.gfx /\ m.doAudio = n.doAudio /\ m.sp = n.sp /\ m.dp = n.dp /\ m.state = n.state
        /\ m.busy = n.busy /\ m.curRSP = OscNone /\ m.curRDP = n.curRDP
    BY <1>3, <1>7, <2>1 DEF Sound, Scheds, Running
  <2>5. DoneTo(m, t, "SP", s) /\ s.curRSP = OscNone /\ s.curRDP = n.curRDP
    BY <1>7, <2>2, <2>4, CompletedIs
  <2>6. DoneTo(n, t, "SP", s)
    BY <2>4, <2>5 DEF DoneTo
  <2>7. /\ Sound(s) /\ s.sp = OscNone /\ s.dp = OscNone
        /\ \A u \in Running : s.state[u] = IF u = t THEN n.state[u] \ {"SP"} ELSE n.state[u]
    BY <1>4, <2>6 DEF DoneTo
  <2>8. NoAudioYields(s)
    BY <1>3, <2>7 DEF NoAudioYields, Running, OscTasks
  <2>9. Ordered(s, cmdQ) \/ Parallel(s)
    BY <1>3, <1>4, <1>7, <2>5, <2>6, RspDoneOrder
  <2>10. Known(s)
    BY <1>4, <1>6, <2>5 DEF Known
  <2> QED BY <1>3, <1>5, <2>3, <2>5, <2>7, <2>8, <2>9, <2>10, HandlerStep
<1> QED BY <1>8, <1>9

LEMMA HandleRDPStep == ASSUME OscIInv, HandleRDP PROVE OscIInv'
<1>1. PICK n : n = Now
  OBVIOUS
<1>2. PICK t : t = curRDP
  OBVIOUS
<1>3. /\ Typing /\ cmdQ \in Seq(OscTasks) /\ Sound(n) /\ NoAudioYields(n)
      /\ Units /\ (Ordered(n, cmdQ) \/ Jammed(n))
  BY <1>1, Parts
<1>4. n.curRSP = curRSP /\ n.curRDP = t /\ n.state = state /\ n.sp = OscNone /\ n.dp = OscNone
  BY <1>1, <1>2 DEF Now
<1>5. interruptQ # <<>> /\ Head(interruptQ) = "RDP" /\ cmdQ' = cmdQ
  BY DEF HandleRDP
<1>6. /\ t # OscNone /\ UnitKnown(OscNone, rdp, "RDP", Tail(interruptQ))
      /\ UnitKnown(curRSP, rsp.task, "RSP", Tail(interruptQ))
  <2>1. /\ interruptQ \in Seq({"VIDEO", "RSP", "RDP"}) /\ UnitKnown(t, rdp, "RDP", interruptQ)
        /\ UnitKnown(curRSP, rsp.task, "RSP", interruptQ)
    BY <1>2, <1>3 DEF Units
  <2>2. t # OscNone /\ UnitKnown(OscNone, rdp, "RDP", Tail(interruptQ))
    BY <1>5, <2>1, KnownTail
  <2>3. UnitKnown(curRSP, rsp.task, "RSP", Tail(interruptQ))
    BY <1>5, <2>1, KnownTail
  <2> QED BY <2>2, <2>3
<1>7. t \in OscTasks /\ n \in Scheds
  BY <1>3, <1>4, <1>6 DEF Sound, Scheds, Running
<1>8. PICK m : m = [n EXCEPT !.curRDP = OscNone]
  OBVIOUS
<1>9. PICK s : s = Completed([m EXCEPT !.state[t] = @ \ {"DP"}], t)
  OBVIOUS
<1>10. [n EXCEPT !.curRDP = OscNone, !.state[t] = @ \ {"DP"}] = [m EXCEPT !.state[t] = @ \ {"DP"}]
  BY <1>7, <1>8 DEF Scheds
<1>11. Launch(s)
  BY <1>1, <1>2, <1>9, <1>10 DEF HandleRDP
<1>12. /\ Sound(m) /\ m.gfx = n.gfx /\ m.doAudio = n.doAudio /\ m.sp = n.sp /\ m.dp = n.dp /\ m.state = n.state
       /\ m.busy = n.busy /\ m.curRSP = n.curRSP /\ m.curRDP = OscNone
  BY <1>3, <1>7, <1>8 DEF Sound, Scheds, Running
<1>13. DoneTo(m, t, "DP", s) /\ s.curRSP = n.curRSP /\ s.curRDP = OscNone
  BY <1>7, <1>9, <1>12, CompletedIs
<1>14. DoneTo(n, t, "DP", s)
  BY <1>12, <1>13 DEF DoneTo
<1>15. /\ Sound(s) /\ s.sp = OscNone /\ s.dp = OscNone
       /\ \A u \in Running : s.state[u] = IF u = t THEN n.state[u] \ {"DP"} ELSE n.state[u]
  BY <1>4, <1>14 DEF DoneTo
<1>16. NoAudioYields(s)
  BY <1>3, <1>15 DEF NoAudioYields, Running, OscTasks
<1>17. Ordered(s, cmdQ) \/ Jammed(s)
  BY <1>3, <1>4, <1>7, <1>13, <1>14, RdpDoneOrder
<1>18. Known(s)
  BY <1>4, <1>6, <1>13 DEF Known
<1> QED BY <1>3, <1>5, <1>11, <1>15, <1>16, <1>17, <1>18, HandlerStep

(* A retrace takes over what is in the command queue.                      *)
AppendedTo(n, s) ==
  /\ s.curRSP = n.curRSP /\ s.curRDP = n.curRDP /\ s.sp = n.sp /\ s.dp = n.dp /\ s.busy = n.busy
  /\ InList(s.gfx) = InList(n.gfx) \cup (InList(cmdQ) \cap OscGfxTasks)
  /\ n.gfx # <<>> => s.gfx # <<>> /\ Head(s.gfx) = Head(n.gfx)
  /\ OnceOn(n.gfx, Xbus) /\ OnceOn(cmdQ, Xbus) /\ InList(n.gfx) \cap InList(cmdQ) \cap Xbus = {} => OnceOn(s.gfx, Xbus)
  /\ n.doAudio => s.doAudio
  /\ \A u \in Running : s.state[u] = IF u \notin InList(cmdQ) THEN n.state[u]
                                     ELSE IF u \in OscAudio THEN {"SP"} ELSE {"SP", "DP"}

LEMMA AppendedIs ==
  ASSUME NEW n, Sound(n), cmdQ \in Seq(OscTasks)
  PROVE  Sound(Appended(n)) /\ AppendedTo(n, Appended(n))
<1>1. /\ n \in Scheds /\ n.gfx \in Seq(OscGfxTasks) /\ n.audio \in Seq(OscAudio) /\ n.doAudio \in BOOLEAN
      /\ n.state \in [Running -> SUBSET Flags] /\ (n.doAudio => n.audio # <<>>)
  BY DEF Sound, Scheds
<1>2. PICK gfx : gfx = OfKind(cmdQ, OscGfxTasks)
  OBVIOUS
<1>3. PICK audio : audio = OfKind(cmdQ, OscAudio)
  OBVIOUS
<1>4. PICK xbus : xbus = Xbus
  OBVIOUS
<1>5. PICK queue : queue = cmdQ
  OBVIOUS
<1>6. /\ gfx \in Seq(OscGfxTasks) /\ InList(gfx) = InList(queue) \cap OscGfxTasks
      /\ OnceOn(queue, xbus) => OnceOn(gfx, xbus)
  BY <1>2, <1>5, OfKindIs
<1>7. audio \in Seq(OscAudio) /\ InList(audio) = InList(queue) \cap OscAudio
  BY <1>3, <1>5, OfKindIs
<1>8. PICK state1 : state1 = [t \in OscTasks \cup {OscNone} |->
                               IF t \notin InList(queue) THEN n.state[t]
                               ELSE IF t \in OscAudio THEN {"SP"} ELSE {"SP", "DP"}]
  OBVIOUS
<1>9. PICK do : do = (n.doAudio \/ \E t \in InList(queue) : t \in OscAudio)
  OBVIOUS
<1> DEFINE s == [n EXCEPT !.audio = n.audio \o audio, !.gfx = n.gfx \o gfx, !.doAudio = do, !.state = state1]
<1>10. Appended(n) = s
  BY <1>1, <1>2, <1>3, <1>5, <1>8, <1>9 DEF Appended, InList, Scheds
<1>11. /\ n.gfx \o gfx \in Seq(OscGfxTasks) /\ InList(n.gfx \o gfx) = InList(n.gfx) \cup InList(gfx)
       /\ n.gfx # <<>> => n.gfx \o gfx # <<>> /\ Head(n.gfx \o gfx) = Head(n.gfx)
       /\ OnceOn(n.gfx, xbus) /\ OnceOn(gfx, xbus) /\ InList(n.gfx) \cap InList(gfx) \cap xbus = {} => OnceOn(n.gfx \o gfx, xbus)
  <2>1. PICK before : before = n.gfx
    OBVIOUS
  <2>2. /\ before \o gfx \in Seq(OscGfxTasks) /\ InList(before \o gfx) = InList(before) \cup InList(gfx)
        /\ before # <<>> => before \o gfx # <<>> /\ Head(before \o gfx) = Head(before)
        /\ OnceOn(before, xbus) /\ OnceOn(gfx, xbus) /\ InList(before) \cap InList(gfx) \cap xbus = {}
             => OnceOn(before \o gfx, xbus)
    <3>1. before \in Seq(OscGfxTasks) /\ gfx \in Seq(OscGfxTasks)
      BY <1>1, <1>6, <2>1
    <3> QED BY ONLY <3>1, InBoth
  <2> QED BY ONLY <2>1, <2>2
<1>12. /\ n.audio \o audio \in Seq(OscAudio) /\ (n.audio # <<>> \/ audio # <<>> => n.audio \o audio # <<>>)
  BY <1>1, <1>7, InBoth
<1>13. /\ state1 \in [Running -> SUBSET Flags]
       /\ \A u \in Running : state1[u] = IF u \notin InList(queue) THEN n.state[u]
                                         ELSE IF u \in OscAudio THEN {"SP"} ELSE {"SP", "DP"}
  BY <1>1, <1>8 DEF Running, Flags
<1>14. do \in BOOLEAN /\ (do => n.audio \o audio # <<>>) /\ (n.doAudio => do)
  <2>1. (\E t \in InList(queue) : t \in OscAudio) => audio # <<>>
    <3>1. audio = <<>> => InList(audio) = {}
      BY DEF InList
    <3> QED BY <1>7, <3>1
  <2> QED BY <1>1, <1>9, <1>12, <2>1
<1>15. /\ s \in Scheds /\ s.gfx = n.gfx \o gfx /\ s.audio = n.audio \o audio /\ s.doAudio = do /\ s.state = state1
       /\ s.curRSP = n.curRSP /\ s.curRDP = n.curRDP /\ s.sp = n.sp /\ s.dp = n.dp /\ s.busy = n.busy
  BY <1>1, <1>11, <1>12, <1>13, <1>14 DEF Scheds
<1> HIDE DEF s
<1>16. Sound(s)
  BY <1>14, <1>15 DEF Sound
<1>17. OnceOn(n.gfx, xbus) /\ OnceOn(queue, xbus) /\ InList(n.gfx) \cap InList(queue) \cap xbus = {} => OnceOn(s.gfx, xbus)
  BY <1>6, <1>11, <1>15
<1>18. AppendedTo(n, s)
  BY <1>4, <1>5, <1>6, <1>11, <1>13, <1>14, <1>15, <1>17 DEF AppendedTo
<1> QED BY <1>10, <1>16, <1>18

LEMMA AppendedOrder ==
  ASSUME NEW n, Sound(n), n.sp = OscNone, n.dp = OscNone, Ordered(n, cmdQ) \/ Jammed(n), NEW s, AppendedTo(n, s)
  PROVE  Ordered(s, <<>>) \/ Jammed(s)
<1>1. Xbus \subseteq Running /\ OscNone \notin Xbus /\ Xbus \subseteq OscGfxTasks /\ OscAudio \cap Xbus = {}
  BY XbusAre DEF Running, OscTasks
<1>2. CASE Jammed(n)
  BY <1>2 DEF Jammed, Parallel, AppendedTo
<1>3. CASE Ordered(n, cmdQ)
  <2>1. OnceOn(n.gfx, Xbus) /\ InList(cmdQ) \cap Xbus \subseteq n.busy /\ OnceOn(cmdQ, Xbus)
    BY <1>3 DEF Ordered, Orderly
  <2>2. ASSUME NEW u \in Xbus
        PROVE  /\ u \in InList(n.gfx) => Listed(n, u, InList(cmdQ))
               /\ u \in {n.curRSP, n.sp} => Placed(n, u, InList(cmdQ))
               /\ u \in {n.curRDP, n.dp} => Drawing(n, u, InList(cmdQ))
    BY <1>3 DEF Ordered, Orderly
  <2>3. OnceOn(s.gfx, Xbus)
    <3>1. InList(n.gfx) \cap InList(cmdQ) \cap Xbus = {}
      BY <2>2 DEF Listed
    <3> QED BY <2>1, <3>1 DEF AppendedTo
  <2>4. /\ InList(<<>>) = {} /\ OnceOn(<<>>, Xbus)
    BY DEF InList, OnceOn
  <2>5. /\ s.curRSP = n.curRSP /\ s.curRDP = n.curRDP /\ s.sp = n.sp /\ s.dp = n.dp /\ s.busy = n.busy
        /\ \A u \in InList(s.gfx) : u \in InList(n.gfx) \/ u \in InList(cmdQ)
        /\ \A u \in Xbus : s.state[u] = IF u \notin InList(cmdQ) THEN n.state[u] ELSE {"SP", "DP"}
    BY <1>1 DEF AppendedTo
  <2>6. ASSUME NEW u \in Xbus
        PROVE  /\ u \in InList(s.gfx) => Listed(s, u, {})
               /\ u \in {s.curRSP, s.sp} => Placed(s, u, {})
               /\ u \in {s.curRDP, s.dp} => Drawing(s, u, {})
    <3>1. u # OscNone
      BY <1>1
    <3>2. CASE u \in InList(cmdQ)
      <4>1. u \in n.busy /\ u \notin {n.curRSP, n.curRDP}
        BY <2>1, <2>2, <3>2 DEF Placed, Drawing
      <4>2. s.state[u] = {"SP", "DP"}
        BY <2>5, <3>2
      <4> QED BY <2>5, <3>1, <4>1, <4>2 DEF Listed
    <3>3. CASE u \notin InList(cmdQ)
      <4>1. s.state[u] = n.state[u] /\ (u \in InList(s.gfx) => u \in InList(n.gfx))
        BY <2>5, <3>3
      <4> QED BY <2>2, <2>5, <4>1 DEF Listed, Placed, Drawing
    <3> QED BY <3>2, <3>3
  <2> QED BY <2>3, <2>4, <2>6 DEF Ordered, Orderly
<1> QED BY <1>2, <1>3

LEMMA HandleRetraceStep == ASSUME OscIInv, HandleRetrace_ PROVE OscIInv'
<1>1. PICK n : n = Now
  OBVIOUS
<1>2. PICK s : s = Appended(n)
  OBVIOUS
<1>3. /\ Typing /\ cmdQ \in Seq(OscTasks) /\ Sound(n) /\ NoAudioYields(n)
      /\ Units /\ (Ordered(n, cmdQ) \/ Jammed(n))
  BY <1>1, Parts
<1>4. n.curRSP = curRSP /\ n.curRDP = curRDP /\ n.sp = OscNone /\ n.dp = OscNone
  BY <1>1 DEF Now
<1>5. interruptQ # <<>> /\ Head(interruptQ) = "VIDEO" /\ cmdQ' = <<>> /\ <<>> \in Seq(OscTasks)
  BY DEF HandleRetrace_
<1>6. Sound(s) /\ AppendedTo(n, s) /\ s \in Scheds
  BY <1>2, <1>3, AppendedIs DEF Sound
<1>7. /\ s.curRSP = curRSP /\ s.curRDP = curRDP /\ s.sp = OscNone /\ s.dp = OscNone
      /\ \A u \in Running : s.state[u] = IF u \notin InList(cmdQ) THEN n.state[u]
                                        ELSE IF u \in OscAudio THEN {"SP"} ELSE {"SP", "DP"}
  BY <1>4, <1>6 DEF AppendedTo
<1>8. Ordered(s, <<>>) \/ Jammed(s)
  BY <1>3, <1>4, <1>6, AppendedOrder
<1>9. NoAudioYields(s)
  BY <1>3, <1>7 DEF NoAudioYields, Running, OscTasks
<1>10. /\ UnitKnown(curRSP, rsp.task, "RSP", Tail(interruptQ))
       /\ UnitKnown(curRDP, rdp, "RDP", Tail(interruptQ))
  <2>1. /\ interruptQ \in Seq({"VIDEO", "RSP", "RDP"}) /\ UnitKnown(curRSP, rsp.task, "RSP", interruptQ)
        /\ UnitKnown(curRDP, rdp, "RDP", interruptQ)
    BY <1>3 DEF Units
  <2>2. UnitKnown(curRSP, rsp.task, "RSP", Tail(interruptQ))
    BY <1>5, <2>1, KnownTail
  <2>3. UnitKnown(curRDP, rdp, "RDP", Tail(interruptQ))
    BY <1>5, <2>1, KnownTail
  <2> QED BY <2>2, <2>3
<1>11. CASE ~(s.doAudio /\ curRSP # OscNone)
  <2>1. Launch(s)
    BY <1>1, <1>2, <1>11 DEF HandleRetrace_
  <2>2. Known(s)
    BY <1>7, <1>10 DEF Known
  <2> QED BY <1>3, <1>5, <1>6, <1>7, <1>8, <1>9, <2>1, <2>2, HandlerStep
<1>12. CASE s.doAudio /\ curRSP # OscNone
  <2>1. PICK t : t = curRSP
    OBVIOUS
  <2>2. PICK q : q = IF t \in OscGfxTasks THEN [s EXCEPT !.state[t] = @ \cup {"YIELD"}] ELSE s
    OBVIOUS
  <2>3. Exec(q) /\ rsp' = [rsp EXCEPT !.asked = t \in OscGfxTasks /\ rsp.task # OscNone]
    BY <1>1, <1>2, <1>12, <2>1, <2>2 DEF HandleRetrace_
  <2>4. /\ q \in Scheds /\ q.gfx = s.gfx /\ q.doAudio = s.doAudio /\ q.audio = s.audio /\ q.busy = s.busy
        /\ q.curRSP = s.curRSP /\ q.curRDP = s.curRDP /\ q.sp = OscNone /\ q.dp = OscNone
        /\ q.state = IF t \in OscGfxTasks THEN [s.state EXCEPT ![t] = @ \cup {"YIELD"}] ELSE s.state
    <3>1. t \in OscGfxTasks => [s.state EXCEPT ![t] = @ \cup {"YIELD"}] \in [Running -> SUBSET Flags]
      BY <1>6 DEF Scheds, Running, OscTasks, Flags
    <3> QED BY <1>6, <1>7, <2>2, <3>1 DEF Scheds
  <2>5. \A u \in Running : s.state[u] \subseteq q.state[u] /\ q.state[u] \subseteq s.state[u] \cup {"YIELD"}
                          /\ (u \notin OscGfxTasks => q.state[u] = s.state[u])
    <3>1. s.state \in [Running -> SUBSET Flags]
      BY <1>6 DEF Scheds
    <3> QED BY <2>4, <3>1
  <2>6. Sound(q)
    BY <1>6, <2>4 DEF Sound
  <2>7. NoAudioYields(q)
    <3> SUFFICES ASSUME NEW u \in OscAudio PROVE "YIELD" \notin q.state[u]
      BY DEF NoAudioYields
    <3>1. u \in Running /\ u \notin OscGfxTasks /\ "YIELD" \notin s.state[u]
      BY <1>9, OscAssumption DEF NoAudioYields, Running, OscTasks, OscAssumption
    <3> QED BY <2>5, <3>1
  <2>8. Ordered(q, <<>>) \/ Jammed(q)
    <3>1. Jammed(s) => Jammed(q)
      BY <1>7, <2>4 DEF Jammed, Parallel
    <3>2. Ordered(s, <<>>) => Ordered(q, <<>>)
      <4>1. /\ q.gfx = s.gfx /\ q.busy = s.busy /\ q.curRSP = s.curRSP /\ q.curRDP = s.curRDP
            /\ q.sp = s.sp /\ q.dp = s.dp
        BY <1>7, <2>4
      <4>2. \A u \in Xbus : /\ "SP" \in q.state[u] <=> "SP" \in s.state[u]
                            /\ "DP" \in q.state[u] <=> "DP" \in s.state[u]
                            /\ "YIELDED" \in q.state[u] <=> "YIELDED" \in s.state[u]
        BY <2>5, XbusAre DEF Running, OscTasks
      <4> QED BY ONLY <4>1, <4>2 DEF Ordered, Orderly, Listed, Placed, Drawing
    <3> QED BY <1>8, <3>1, <3>2
  <2>9. UnitsOf(q)
    <3>1. q.avail = {}
      <4>1. n.avail = {} /\ n \in Scheds
        BY <1>1, <1>3 DEF Now, Sound
      <4>2. s.avail = n.avail
        BY <1>2, <4>1 DEF Appended, Scheds
      <4> QED BY <1>6, <2>2, <4>1, <4>2 DEF Scheds
    <3> QED BY <2>4, <3>1 DEF UnitsOf
  <2>10. PICK queue : queue = cmdQ'
    OBVIOUS
  <2>11. Fits(q, queue)
    BY <1>5, <2>8, <2>9, <2>10 DEF Fits
  <2>12. /\ UNCHANGED <<oscType, oscAt>> /\ Sound(Now)' /\ (Ordered(Now, cmdQ)' \/ Jammed(Now)')
         /\ \A u \in OscAudio : "YIELD" \notin state'[u]
    BY <2>3, <2>6, <2>7, <2>10, <2>11, ExecStep DEF NoAudioYields
  <2>13. Units'
    <3>1. /\ interruptQ' = Tail(interruptQ) /\ curRSP' = curRSP /\ curRDP' = curRDP /\ rdp' = rdp
      BY <1>7, <2>3, <2>4 DEF Exec
    <3>2. /\ rsp' \in [task : Running, asked : BOOLEAN, yielded : BOOLEAN] /\ rsp'.task = rsp.task
          /\ interruptQ' \in Seq({"VIDEO", "RSP", "RDP"}) /\ rdp' \in Running
      <4>1. Tail(interruptQ) \in Seq({"VIDEO", "RSP", "RDP"})
        BY <1>3, <1>5, InTail DEF Units
      <4> QED BY <1>3, <2>3, <3>1, <4>1 DEF Units
    <3> QED BY <1>10, <3>1, <3>2, UnitsNext
  <2> QED BY <1>3, <1>5, <2>12, <2>13, PartsNext
<1> QED BY <1>11, <1>12

-----------------------------------------------------------------------------
(* The applications and the units.                                         *)

LEMMA SubmitStep ==
  ASSUME OscIInv, NEW t \in OscTasks, t \notin oscBusy, OscSubmit(t), oscAt' \in DOMAIN OscGraphics
  PROVE  OscIInv'
<1>1. PICK n : n = Now
  OBVIOUS
<1>2. PICK m : m = Now'
  OBVIOUS
<1>3. PICK queue : queue = cmdQ
  OBVIOUS
<1>4. /\ Typing /\ queue \in Seq(OscTasks) /\ Sound(n) /\ NoAudioYields(n)
      /\ Units /\ (Ordered(n, queue) \/ Jammed(n))
  BY <1>1, <1>3, Parts
<1>5. /\ m.gfx = n.gfx /\ m.audio = n.audio /\ m.doAudio = n.doAudio /\ m.curRSP = n.curRSP /\ m.curRDP = n.curRDP
      /\ m.state = n.state /\ m.fb = n.fb /\ m.busy = n.busy \cup {t} /\ n.busy = oscBusy
      /\ m.sp = n.sp /\ m.dp = n.dp /\ m.avail = n.avail /\ n.state = state
      /\ m = [n EXCEPT !.busy = m.busy]
  <2>1. n = [gfx |-> gfxList, audio |-> audioList, doAudio |-> doAudio, curRSP |-> curRSP, curRDP |-> curRDP,
             state |-> state, fb |-> viFb, busy |-> oscBusy, sp |-> OscNone, dp |-> OscNone, avail |-> {}]
    BY <1>1 DEF Now
  <2>2. m = [gfx |-> gfxList, audio |-> audioList, doAudio |-> doAudio, curRSP |-> curRSP, curRDP |-> curRDP,
             state |-> state, fb |-> viFb, busy |-> oscBusy \cup {t}, sp |-> OscNone, dp |-> OscNone, avail |-> {}]
    BY <1>2 DEF Now, OscSubmit
  <2>3. PICK busy : busy = oscBusy \cup {t}
    OBVIOUS
  <2>4. m.busy = busy /\ n.busy = oscBusy
    BY ONLY <2>1, <2>2, <2>3
  <2>5. m = [n EXCEPT !.busy = busy]
    BY ONLY <2>1, <2>2, <2>3
  <2>6. /\ m.gfx = n.gfx /\ m.audio = n.audio /\ m.doAudio = n.doAudio /\ m.curRSP = n.curRSP /\ m.curRDP = n.curRDP
        /\ m.state = n.state /\ m.fb = n.fb /\ m.sp = n.sp /\ m.dp = n.dp /\ m.avail = n.avail /\ n.state = state
    BY ONLY <2>1, <2>2
  <2> QED BY ONLY <2>3, <2>4, <2>5, <2>6
<1>6. cmdQ' = Append(queue, t) /\ UNCHANGED <<oscType, interruptQ, curRSP, curRDP, state, rsp, rdp>>
  BY <1>3 DEF OscSubmit
<1>7. Sound(m)
  BY <1>4, <1>5 DEF Sound, Scheds
<1>8. Ordered(m, cmdQ') \/ Jammed(m)
  <2>1. CASE Jammed(n)
    BY <1>5, <2>1 DEF Jammed, Parallel
  <2>2. CASE Ordered(n, queue)
    <3>1. /\ InList(cmdQ') = InList(queue) \cup {t}
          /\ OnceOn(queue, Xbus) /\ (t \in Xbus => t \notin InList(queue)) => OnceOn(cmdQ', Xbus)
      BY <1>4, <1>6, InAppend
    <3>2. OnceOn(n.gfx, Xbus) /\ InList(queue) \cap Xbus \subseteq n.busy /\ OnceOn(queue, Xbus) /\ t \notin n.busy
      BY <1>5, <2>2 DEF Ordered, Orderly
    <3>3. ASSUME NEW u \in Xbus
          PROVE  /\ u \in InList(m.gfx) => Listed(m, u, InList(cmdQ'))
                 /\ u \in {m.curRSP, m.sp} => Placed(m, u, InList(cmdQ'))
                 /\ u \in {m.curRDP, m.dp} => Drawing(m, u, InList(cmdQ'))
      <4>1. /\ u \in InList(n.gfx) => Listed(n, u, InList(queue))
            /\ u \in {n.curRSP, n.sp} => Placed(n, u, InList(queue))
            /\ u \in {n.curRDP, n.dp} => Drawing(n, u, InList(queue))
        BY <2>2 DEF Ordered, Orderly
      <4>2. u \in n.busy \ InList(queue) => u \in m.busy \ InList(cmdQ')
        BY <1>5, <3>1, <3>2
      <4> QED BY <1>5, <4>1, <4>2 DEF Listed, Placed, Drawing
    <3> QED BY <1>5, <3>1, <3>2, <3>3 DEF Ordered, Orderly
  <2> QED BY <1>4, <2>1, <2>2
<1>9. Sound(Now)' /\ (Ordered(Now, cmdQ)' \/ Jammed(Now)')
  <2>1. Xbus' = Xbus
    BY <1>6 DEF Xbus
  <2> QED BY <1>2, <1>7, <1>8, <2>1, NowNext
<1>10. Units'
  BY <1>4, <1>6, UnitsNext DEF Units
<1>11. cmdQ' \in Seq(OscTasks)
  BY <1>4, <1>6, InAppend
<1>12. \A u \in OscAudio : "YIELD" \notin state'[u]
  BY <1>4, <1>5, <1>6 DEF NoAudioYields
<1>13. Typing'
  BY <1>4, <1>6 DEF Typing, OscGfxTasks
<1> QED BY <1>9, <1>10, <1>11, <1>12, <1>13 DEF OscIInv, OscTypesOK, Typing, Units

(* An interrupt leaves the scheduler alone.                                *)
LEMMA InterruptStep ==
  ASSUME OscIInv, NEW event, Interrupt(event), Units', viFb' \in [curr : OscBuffers, next : OscBuffers]
  PROVE  OscIInv'
<1>1. PICK n : n = Now
  OBVIOUS
<1>2. PICK m : m = Now'
  OBVIOUS
<1>3. /\ Typing /\ cmdQ \in Seq(OscTasks) /\ Sound(n) /\ NoAudioYields(n) /\ (Ordered(n, cmdQ) \/ Jammed(n))
  BY <1>1, Parts
<1>4. /\ m.gfx = n.gfx /\ m.audio = n.audio /\ m.doAudio = n.doAudio /\ m.curRSP = n.curRSP /\ m.curRDP = n.curRDP
      /\ m.state = n.state /\ m.busy = n.busy /\ m.fb = viFb' /\ m.sp = n.sp /\ m.dp = n.dp /\ n.state = state
      /\ m = [n EXCEPT !.fb = m.fb]
  <2>1. n = [gfx |-> gfxList, audio |-> audioList, doAudio |-> doAudio, curRSP |-> curRSP, curRDP |-> curRDP,
             state |-> state, fb |-> viFb, busy |-> oscBusy, sp |-> OscNone, dp |-> OscNone, avail |-> {}]
    BY <1>1 DEF Now
  <2>2. m = [gfx |-> gfxList, audio |-> audioList, doAudio |-> doAudio, curRSP |-> curRSP, curRDP |-> curRDP,
             state |-> state, fb |-> viFb', busy |-> oscBusy, sp |-> OscNone, dp |-> OscNone, avail |-> {}]
    BY <1>2 DEF Now, Interrupt
  <2> QED BY ONLY <2>1, <2>2
<1>5. UNCHANGED <<oscType, oscAt, cmdQ, state>>
  BY DEF Interrupt, oscApp
<1>6. Sound(m)
  BY <1>3, <1>4 DEF Sound, Scheds
<1>7. Ordered(m, cmdQ) \/ Jammed(m)
  <2>1. Jammed(n) => Jammed(m)
    BY <1>4 DEF Jammed, Parallel
  <2>2. Ordered(n, cmdQ) => Ordered(m, cmdQ)
    BY <1>4 DEF Ordered, Orderly, Listed, Placed, Drawing
  <2> QED BY <1>3, <2>1, <2>2
<1>8. Sound(Now)' /\ (Ordered(Now, cmdQ)' \/ Jammed(Now)')
  <2>1. Xbus' = Xbus
    BY <1>5 DEF Xbus
  <2> QED BY <1>2, <1>5, <1>6, <1>7, <2>1, NowNext
<1>9. \A u \in OscAudio : "YIELD" \notin state'[u]
  BY <1>3, <1>4, <1>5 DEF NoAudioYields
<1> QED BY <1>3, <1>5, <1>8, <1>9, PartsNext

LEMMA EventStep ==
  ASSUME OscIInv, OscRetrace \/ (\E y \in BOOLEAN : RspBreak(y)) \/ RdpDone
  PROVE  OscIInv'
<1>1. /\ interruptQ \in Seq({"VIDEO", "RSP", "RDP"})
      /\ rsp \in [task : Running, asked : BOOLEAN, yielded : BOOLEAN] /\ rdp \in Running
      /\ UnitKnown(curRSP, rsp.task, "RSP", interruptQ) /\ UnitKnown(curRDP, rdp, "RDP", interruptQ)
      /\ viFb \in [curr : OscBuffers, next : OscBuffers]
  BY Parts DEF Units, Sound, Scheds, Now
<1>2. \A event \in {"VIDEO", "RSP", "RDP"} : Append(interruptQ, event) \in Seq({"VIDEO", "RSP", "RDP"})
  BY <1>1
<1>3. CASE OscRetrace
  <2>1. /\ interruptQ' = Append(interruptQ, "VIDEO") /\ UNCHANGED <<curRSP, curRDP, rsp, rdp>>
        /\ Interrupt("VIDEO") /\ viFb' = [viFb EXCEPT !.curr = viFb.next]
    BY <1>3 DEF OscRetrace, Interrupt
  <2>2. UnitKnown(curRSP, rsp.task, "RSP", Append(interruptQ, "VIDEO"))
    BY <1>1, KnownAppend
  <2>3. UnitKnown(curRDP, rdp, "RDP", Append(interruptQ, "VIDEO"))
    BY <1>1, KnownAppend
  <2>4. Units'
    BY <1>1, <1>2, <2>1, <2>2, <2>3, UnitsNext
  <2>5. viFb' \in [curr : OscBuffers, next : OscBuffers]
    BY <1>1, <2>1
  <2> QED BY <2>1, <2>4, <2>5, InterruptStep
<1>4. CASE \E y \in BOOLEAN : RspBreak(y)
  <2>1. PICK y \in BOOLEAN : RspBreak(y)
    BY <1>4
  <2>2. /\ interruptQ' = Append(interruptQ, "RSP") /\ UNCHANGED <<curRSP, curRDP, viFb, rdp>>
        /\ Interrupt("RSP") /\ rsp.task # OscNone
        /\ rsp' = [task |-> OscNone, asked |-> FALSE, yielded |-> y]
    BY <2>1 DEF RspBreak, Interrupt
  <2>3. UnitKnown(curRSP, OscNone, "RSP", Append(interruptQ, "RSP"))
    BY <1>1, <2>2, KnownAppend
  <2>4. UnitKnown(curRDP, rdp, "RDP", Append(interruptQ, "RSP"))
    BY <1>1, KnownAppend
  <2>5. rsp' \in [task : Running, asked : BOOLEAN, yielded : BOOLEAN] /\ rsp'.task = OscNone
    BY <2>2 DEF Running
  <2>6. Units'
    BY <1>1, <1>2, <2>2, <2>3, <2>4, <2>5, UnitsNext
  <2> QED BY <1>1, <2>2, <2>6, InterruptStep
<1>5. CASE RdpDone
  <2>1. /\ interruptQ' = Append(interruptQ, "RDP") /\ UNCHANGED <<curRSP, curRDP, viFb, rsp>>
        /\ Interrupt("RDP") /\ rdp # OscNone /\ rdp' = OscNone
    BY <1>5 DEF RdpDone, Interrupt
  <2>2. UnitKnown(curRSP, rsp.task, "RSP", Append(interruptQ, "RDP"))
    BY <1>1, KnownAppend
  <2>3. UnitKnown(curRDP, OscNone, "RDP", Append(interruptQ, "RDP"))
    BY <1>1, <2>1, KnownAppend
  <2>4. Units'
    BY <1>1, <1>2, <2>1, <2>2, <2>3, UnitsNext DEF Running
  <2> QED BY <1>1, <2>1, <2>4, InterruptStep
<1> QED BY <1>3, <1>4, <1>5

LEMMA OscStart == OscInit => OscIInv
<1> SUFFICES ASSUME OscInit PROVE OscIInv
  OBVIOUS
<1>1. PICK n : n = Now
  OBVIOUS
<1>2. /\ Len(OscGraphics) \in Nat \ {0} /\ DOMAIN OscGraphics = 1 .. Len(OscGraphics)
  BY OscAssumption DEF OscAssumption
<1>3. Typing
  <2>1. 1 \in 1 .. Len(OscGraphics)
    BY <1>2
  <2> QED BY <1>2, <2>1, OscAssumption DEF OscInit, Typing, OscAssumption
<1>4. /\ n.gfx = <<>> /\ n.audio = <<>> /\ n.doAudio = FALSE /\ n.curRSP = OscNone /\ n.curRDP = OscNone
      /\ n.state = [t \in Running |-> {}] /\ n.busy = {} /\ n.sp = OscNone /\ n.dp = OscNone
  BY <1>1 DEF Now, OscInit, Running
<1>5. Sound(n)
  <2>1. viFb \in [curr : OscBuffers, next : OscBuffers]
    <3>1. Len(OscGraphics) \in 1 .. Len(OscGraphics)
      BY <1>2
    <3>2. OscGraphics[Len(OscGraphics)].buf \in OscBuffers
      BY <1>2, <3>1 DEF OscBuffers
    <3> QED BY <3>2 DEF OscInit
  <2>2. [t \in Running |-> {}] \in [Running -> SUBSET Flags]
    OBVIOUS
  <2>3. n = [gfx |-> <<>>, audio |-> <<>>, doAudio |-> FALSE, curRSP |-> OscNone, curRDP |-> OscNone,
             state |-> [t \in Running |-> {}], fb |-> viFb, busy |-> {}, sp |-> OscNone, dp |-> OscNone, avail |-> {}]
    BY <1>1 DEF Now, OscInit, Running
  <2>4. n \in Scheds
    BY <2>1, <2>2, <2>3 DEF Scheds, Running
  <2> QED BY <1>4, <2>4 DEF Sound
<1>6. NoAudioYields(n)
  BY <1>4 DEF NoAudioYields, Running, OscTasks
<1>7. InList(<<>>) = {} /\ OnceOn(<<>>, Xbus) /\ OnceOn(<<>>, {"RSP"}) /\ OnceOn(<<>>, {"RDP"})
  BY DEF InList, OnceOn
<1>8. Units
  <2>1. /\ interruptQ = <<>> /\ rsp = [task |-> OscNone, asked |-> FALSE, yielded |-> FALSE] /\ rdp = OscNone
        /\ curRSP = OscNone /\ curRDP = OscNone
    BY DEF OscInit
  <2>2. OscNone \in Running
    BY DEF Running
  <2> QED BY <1>7, <2>1, <2>2 DEF Units, UnitKnown
<1>9. Ordered(n, <<>>)
  <2>1. OscNone \notin Xbus
    BY XbusAre
  <2> QED BY <1>4, <1>7, <2>1 DEF Ordered, Orderly
<1>10. cmdQ = <<>> /\ <<>> \in Seq(OscTasks)
  BY DEF OscInit
<1> QED BY <1>1, <1>3, <1>5, <1>6, <1>8, <1>9, <1>10, Parts

LEMMA OscStill == ASSUME OscIInv, UNCHANGED oscVars PROVE OscIInv'
<1>1. /\ UNCHANGED <<oscType, oscAt, oscBusy, cmdQ, interruptQ, audioList, gfxList, doAudio, curRSP, curRDP,
                      state, viFb, rsp, rdp>>
  BY DEF oscVars, oscApp
<1>2. Typing /\ cmdQ \in Seq(OscTasks) /\ Sound(Now) /\ NoAudioYields(Now) /\ Units /\ (Ordered(Now, cmdQ) \/ Jammed(Now))
  BY Parts
<1>3. PICK n : n = Now
  OBVIOUS
<1>4. n = Now'
  BY <1>1, <1>3 DEF Now
<1>5. Sound(Now)' /\ (Ordered(Now, cmdQ)' \/ Jammed(Now)')
  <2>1. Xbus' = Xbus
    BY <1>1 DEF Xbus
  <2> QED BY <1>1, <1>2, <1>3, <1>4, <2>1, NowNext
<1>6. Units'
  BY <1>1, <1>2, UnitsNext DEF Units
<1>7. \A u \in OscAudio : "YIELD" \notin state'[u]
  BY <1>1, <1>2 DEF NoAudioYields, Now
<1> QED BY <1>1, <1>2, <1>5, <1>6, <1>7, PartsNext

LEMMA OscKept == OscIInv /\ [OscNext]_oscVars => OscIInv'
<1> SUFFICES ASSUME OscIInv, [OscNext]_oscVars PROVE OscIInv'
  OBVIOUS
<1>1. Len(OscGraphics) \in Nat \ {0} /\ DOMAIN OscGraphics = 1 .. Len(OscGraphics) /\ oscAt \in DOMAIN OscGraphics
  BY OscAssumption, Parts DEF OscAssumption, Typing
<1>2. CASE OscSubmitGraphics
  <2>1. OscGraphics[oscAt].name \in OscTasks
    BY <1>1 DEF OscTasks, OscGfxTasks
  <2>2. oscAt' \in DOMAIN OscGraphics
    <3>1. \A k \in 1 .. Len(OscGraphics) : (k % Len(OscGraphics)) + 1 \in 1 .. Len(OscGraphics)
      BY <1>1
    <3> QED BY <1>1, <1>2, <3>1 DEF OscSubmitGraphics
  <2> QED BY <1>2, <2>1, <2>2, SubmitStep DEF OscSubmitGraphics
<1>3. CASE OscSubmitAudio
  <2>1. PICK t \in OscAudio : OscSubmit(t)
    BY <1>3 DEF OscSubmitAudio
  <2>2. t \in OscTasks /\ t \notin oscBusy /\ oscAt' \in DOMAIN OscGraphics
    BY <1>1, <1>3 DEF OscSubmitAudio, OscTasks
  <2> QED BY <2>1, <2>2, SubmitStep
<1>4. CASE OscRetrace \/ (\E y \in BOOLEAN : RspBreak(y)) \/ RdpDone
  BY <1>4, EventStep
<1>5. CASE OscHandler
  BY <1>5, HandleRetraceStep, HandleRSPStep, HandleRDPStep DEF OscHandler
<1>6. CASE UNCHANGED oscVars
  BY <1>6, OscStill
<1> QED BY <1>2, <1>3, <1>4, <1>5, <1>6 DEF OscNext

(* What libultra's scheduler takes for running on the RSP and on the RDP is*)
(* what runs there, or what it has still to be told the end of: a unit is  *)
(* never given a task while it has one, for any tasks, frames and typings, *)
(* with or without tasks marked to run alongside audio.                    *)
THEOREM UnitsAlwaysAgree == OscSpec => []UnitsAgree
<1>1. OscIInv => UnitsAgree
  <2> SUFFICES ASSUME Units PROVE UnitsAgree
    BY Parts
  <2>1. UnitKnown(curRSP, rsp.task, "RSP", interruptQ) /\ UnitKnown(curRDP, rdp, "RDP", interruptQ)
    BY DEF Units
  <2>2. \A event : (event \in InList(interruptQ)) <=> (\E i \in DOMAIN interruptQ : interruptQ[i] = event)
    BY DEF InList
  <2>3. ("RSP" \in InList(interruptQ)) <=> (\E i \in DOMAIN interruptQ : interruptQ[i] = "RSP")
    BY <2>2
  <2>4. ("RDP" \in InList(interruptQ)) <=> (\E i \in DOMAIN interruptQ : interruptQ[i] = "RDP")
    BY <2>2
  <2> QED BY <2>1, <2>3, <2>4 DEF UnitKnown, UnitsAgree
<1> QED BY <1>1, OscStart, OscKept, PTL DEF OscSpec
================================================================================
