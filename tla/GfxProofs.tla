------------------------------- MODULE GfxProofs -------------------------------
(***************************************************************************)
(* GfxInv of the graphics task manager, for any number of task records,    *)
(* messages, tasks in flight, frame buffers, and any pace of the swaps.    *)
(*                                                                         *)
(* The invariant counts the tasks back round the ring from recordPtr:      *)
(* asked for, in the scheduler's hands, in the manager's queue, in its     *)
(* hands.  Where a task is says which record it has (RingInv), so which    *)
(* frame (FrameInv: their frames are less than CfbNum apart) and so which  *)
(* buffer, whose content no later task in flight can have overwritten      *)
(* (ContentInv).  That the display is not turned off under a running task  *)
(* needs a bound on its age: the manager has at most GfxPending - 1 older  *)
(* tasks to be through with, each within Pace + 2 retraces (AgeInv).       *)
(***************************************************************************)
EXTENDS GfxTasks, SequenceTheorems, FiniteSetTheorems, TLAPS

Num(b) == IF b THEN 1 ELSE 0

(* The record n places before p, round the ring.                           *)
Back(p, n) == IF p >= n THEN p - n ELSE p - n + GfxTaskNum

(* The tasks asked for, in the scheduler's hands, finished and in the      *)
(* manager's, newest first: so many places back are their records.         *)
Asked == Len(requestMQ)
Taken == Asked + Num(curTask # NoTask)
Finished == Taken + Len(taskMgrMQ)
InHand == mgrPc \in {"pace", "register", "wait", "swap", "retire", "end"}
Oldest == Finished + Num(InHand)

RingTypes ==
  /\ recordPtr \in Records
  /\ requestMQ \in Seq(Records) /\ taskMgrMQ \in Seq(Records)
  /\ curTask \in Records \cup {NoTask} /\ mgrTask \in Records \cup {NoTask}
  /\ spool = Oldest + Num(appPc = "send") /\ spool \in 0 .. GfxPending
  /\ schedPc = "recv" <=> curTask = NoTask
RingPlaces ==
  /\ \A i \in 1 .. Len(requestMQ) : requestMQ[i] = Back(recordPtr, Asked + 1 - i)
  /\ curTask # NoTask => curTask = Back(recordPtr, Taken)
  /\ \A i \in 1 .. Len(taskMgrMQ) : taskMgrMQ[i] = Back(recordPtr, Finished + 1 - i)
  /\ InHand => mgrTask = Back(recordPtr, Oldest)
RingInv == RingTypes /\ RingPlaces

-----------------------------------------------------------------------------
LEMMA GfxNumbers ==
  /\ GfxTaskNum \in Nat /\ GfxPending \in Nat /\ GfxPending >= 1 /\ GfxPending < GfxTaskNum
  /\ CfbNum \in Nat /\ GfxPending <= CfbNum /\ CfbNum >= 1
  /\ Pace \in Nat /\ Pace >= 1 /\ ShowAge \in Nat /\ DarkAge \in Nat /\ ShowAge < DarkAge
BY GfxAssumption DEF GfxAssumption

LEMMA BackIs ==
  ASSUME NEW p \in Records, NEW n \in 0 .. GfxPending
  PROVE  /\ Back(p, n) \in Records /\ Back(p, 0) = p
         /\ \A m \in 0 .. GfxPending : Back(p, m) = Back(p, n) => m = n
         /\ (p + 1) % GfxTaskNum \in Records
         /\ n < GfxPending => Back((p + 1) % GfxTaskNum, n + 1) = Back(p, n)
<1>1. (p + 1) % GfxTaskNum = IF p + 1 = GfxTaskNum THEN 0 ELSE p + 1
  BY GfxNumbers DEF Records
<1> QED  BY <1>1, GfxNumbers DEF Records, Back

LEMMA RingCounts ==
  ASSUME RingTypes
  PROVE  /\ Len(requestMQ) \in Nat /\ Len(taskMgrMQ) \in Nat
         /\ Asked \in Nat /\ Taken \in Nat /\ Finished \in Nat /\ Oldest \in Nat
         /\ Asked <= Taken /\ Taken <= Finished /\ Finished <= Oldest /\ Oldest <= GfxPending
<1>1. Len(requestMQ) \in Nat /\ Len(taskMgrMQ) \in Nat
  BY LenProperties DEF RingTypes
<1>2. Num(curTask # NoTask) \in {0, 1} /\ Num(InHand) \in {0, 1} /\ Num(appPc = "send") \in {0, 1}
  BY DEF Num
<1>3. Oldest + Num(appPc = "send") = spool /\ spool <= GfxPending
  BY GfxNumbers DEF RingTypes
<1> QED  BY <1>1, <1>2, <1>3, GfxNumbers DEF Asked, Taken, Finished, Oldest

LEMMA RingInit == GfxInit => RingInv
<1> SUFFICES ASSUME GfxInit PROVE RingInv
  OBVIOUS
<1>1. requestMQ = <<>> /\ taskMgrMQ = <<>> /\ curTask = NoTask /\ mgrTask = NoTask /\ recordPtr = 0
      /\ spool = 0 /\ appPc = "idle" /\ schedPc = "recv" /\ mgrPc = "recv"
  BY DEF GfxInit
<1>2. Asked = 0 /\ Taken = 0 /\ Finished = 0 /\ Oldest = 0 /\ ~InHand
  BY <1>1 DEF Asked, Taken, Finished, Oldest, InHand, Num
<1>3. RingTypes
  BY <1>1, <1>2, GfxNumbers DEF RingTypes, Num, Records
<1> QED  BY <1>1, <1>2, <1>3 DEF RingInv, RingPlaces

(* A step that moves no task.                                              *)
RingVars == <<recordPtr, requestMQ, taskMgrMQ, curTask, mgrTask, spool>>
LEMMA RingSame ==
  ASSUME RingInv, UNCHANGED RingVars, InHand' = InHand, (appPc = "send")' = (appPc = "send"),
         (schedPc = "recv")' = (schedPc = "recv")
  PROVE  /\ RingInv' /\ Asked' = Asked /\ Taken' = Taken /\ Finished' = Finished /\ Oldest' = Oldest
<1>1. UNCHANGED <<recordPtr, requestMQ, taskMgrMQ, curTask, mgrTask, spool>>
  BY DEF RingVars
<1>2. Asked' = Asked /\ Taken' = Taken /\ Finished' = Finished /\ Oldest' = Oldest
  BY <1>1 DEF Asked, Taken, Finished, Oldest
<1>3. RingTypes'
  BY <1>1, <1>2 DEF RingInv, RingTypes
<1> QED  BY <1>1, <1>2, <1>3 DEF RingInv, RingPlaces

LEMMA RingStart ==
  ASSUME RingInv, NEW swaps, GfxTaskStart(swaps)
  PROVE  RingInv' /\ Asked' = Asked /\ Taken' = Taken /\ Finished' = Finished /\ Oldest' = Oldest
<1>1. /\ UNCHANGED <<recordPtr, requestMQ, taskMgrMQ, curTask, mgrTask, schedPc, mgrPc>>
      /\ appPc = "idle" /\ appPc' = "send" /\ spool' = spool + 1 /\ spool < GfxPending
  BY DEF GfxTaskStart, schedState, mgrState
<1>2. Asked' = Asked /\ Taken' = Taken /\ Finished' = Finished /\ Oldest' = Oldest /\ InHand' = InHand
  BY <1>1 DEF Asked, Taken, Finished, Oldest, InHand
<1>3. RingTypes'
  BY <1>1, <1>2, GfxNumbers, RingCounts DEF RingInv, RingTypes, Num
<1> QED  BY <1>1, <1>2, <1>3 DEF RingInv, RingPlaces

LEMMA RingSend ==
  ASSUME RingInv, GfxTaskSend
  PROVE  /\ RingInv' /\ Asked' = Asked + 1 /\ Taken' = Taken + 1 /\ Finished' = Finished + 1
         /\ Oldest' = Oldest + 1
<1>1. /\ UNCHANGED <<taskMgrMQ, curTask, mgrTask, schedPc, mgrPc, spool>>
      /\ appPc = "send" /\ appPc' = "idle" /\ recordPtr' = (recordPtr + 1) % GfxTaskNum
      /\ requestMQ' = Append(requestMQ, recordPtr)
  BY DEF GfxTaskSend, schedState, mgrState
<1>2. requestMQ \in Seq(Records) /\ recordPtr \in Records
  BY DEF RingInv, RingTypes
<1>3. /\ requestMQ' \in Seq(Records) /\ Len(requestMQ') = Len(requestMQ) + 1
      /\ \A i \in 1 .. Len(requestMQ) : requestMQ'[i] = requestMQ[i]
      /\ requestMQ'[Len(requestMQ) + 1] = recordPtr
  BY <1>1, <1>2, AppendProperties
<1>4. /\ Asked' = Asked + 1 /\ Taken' = Taken + 1 /\ Finished' = Finished + 1 /\ Oldest' = Oldest + 1
      /\ InHand' = InHand
  <2>1. InHand' = InHand
    BY <1>1 DEF InHand
  <2>2. Num(curTask # NoTask) \in {0, 1} /\ Num(InHand) \in {0, 1}
    BY DEF Num
  <2> QED  BY <1>1, <1>3, <2>1, <2>2, RingCounts DEF RingInv, Asked, Taken, Finished, Oldest
<1>5. Oldest + 1 <= GfxPending
  BY <1>1, RingCounts, GfxNumbers DEF RingInv, RingTypes, Num
<1>6. /\ recordPtr' \in Records /\ Back(recordPtr, 0) = recordPtr
      /\ \A n \in 0 .. GfxPending : n < GfxPending => Back(recordPtr', n + 1) = Back(recordPtr, n)
  BY <1>1, <1>2, BackIs, GfxNumbers
<1>7. RingTypes'
  BY <1>1, <1>3, <1>4, <1>5, <1>6, GfxNumbers, RingCounts DEF RingInv, RingTypes, Num
<1>8. RingPlaces'
  <2>1. ASSUME NEW i \in 1 .. Len(requestMQ') PROVE requestMQ'[i] = Back(recordPtr', Asked' + 1 - i)
    <3>1. CASE i = Len(requestMQ) + 1
      <4>1. Asked' + 1 - i = 0 + 1
        BY <3>1, <1>4, RingCounts DEF RingInv, Asked
      <4> QED  BY <4>1, <3>1, <1>3, <1>6, GfxNumbers
    <3>2. CASE i \in 1 .. Len(requestMQ)
      <4>1. Asked + 1 - i \in 0 .. GfxPending /\ Asked + 1 - i < GfxPending /\ Asked' + 1 - i = (Asked + 1 - i) + 1
        BY <3>2, <1>4, <1>5, RingCounts, GfxNumbers DEF RingInv, Asked
      <4>2. requestMQ[i] = Back(recordPtr, Asked + 1 - i)
        BY <3>2 DEF RingInv, RingPlaces
      <4> HIDE DEF Asked
      <4>3. Back(recordPtr', (Asked + 1 - i) + 1) = Back(recordPtr, Asked + 1 - i)
        BY <4>1, <1>6
      <4> QED  BY <4>1, <4>2, <4>3, <3>2, <1>3
    <3> QED  BY <1>3, <3>1, <3>2, RingCounts DEF RingInv
  <2> DEFINE Before(n) == n \in 0 .. GfxPending /\ n < GfxPending
  <2>5. Before(Taken) /\ Before(Oldest)
    BY <1>5, RingCounts, GfxNumbers DEF RingInv
  <2>6. ASSUME NEW n, Before(n) PROVE Back(recordPtr', n + 1) = Back(recordPtr, n)
    BY <2>6, <1>6
  <2>7. (curTask # NoTask => curTask = Back(recordPtr, Taken)) /\ (InHand => mgrTask = Back(recordPtr, Oldest))
    BY DEF RingInv, RingPlaces
  <2>2. curTask' # NoTask => curTask' = Back(recordPtr', Taken')
    BY <1>1, <1>4, <2>5, <2>6, <2>7
  <2>3. ASSUME NEW i \in 1 .. Len(taskMgrMQ') PROVE taskMgrMQ'[i] = Back(recordPtr', Finished' + 1 - i)
    <3>1. Finished + 1 - i \in 0 .. GfxPending /\ Finished + 1 - i < GfxPending
          /\ Finished' + 1 - i = (Finished + 1 - i) + 1
      <4>1. Num(curTask # NoTask) \in {0, 1}
        BY DEF Num
      <4>2. Len(taskMgrMQ) <= Finished /\ i \in 1 .. Len(taskMgrMQ)
        BY <4>1, <1>1, RingCounts DEF RingInv, Finished, Taken, Asked
      <4>3. Finished \in Nat /\ Finished < GfxPending /\ GfxPending \in Nat /\ i \in Nat /\ i >= 1 /\ i <= Finished
        BY <4>2, <1>5, RingCounts, GfxNumbers DEF RingInv
      <4> QED  BY ONLY <4>3, <1>4
    <3>2. taskMgrMQ[i] = Back(recordPtr, Finished + 1 - i)
      BY <1>1 DEF RingInv, RingPlaces
    <3>3. Back(recordPtr', (Finished + 1 - i) + 1) = Back(recordPtr, Finished + 1 - i)
      BY <3>1, <1>6
    <3> QED  BY <3>1, <3>2, <3>3, <1>1
  <2>4. InHand' => mgrTask' = Back(recordPtr', Oldest')
    BY <1>1, <1>4, <2>5, <2>6, <2>7
  <2> QED  BY <2>1, <2>2, <2>3, <2>4 DEF RingPlaces
<1> QED  BY <1>4, <1>7, <1>8 DEF RingInv

(* A queue that loses its head, or gains a last element, and its places.   *)
LEMMA HeadTail ==
  ASSUME NEW S, NEW q \in Seq(S), q # <<>>
  PROVE  /\ Len(q) \in Nat /\ Len(q) >= 1 /\ Head(q) = q[1] /\ Head(q) \in S
         /\ Tail(q) \in Seq(S) /\ Len(Tail(q)) = Len(q) - 1
         /\ \A i \in 1 .. Len(q) - 1 : Tail(q)[i] = q[i + 1]
<1>1. Len(q) \in Nat /\ Len(q) # 0
  BY LenProperties, EmptySeq
<1>2. Tail(q) \in Seq(S) /\ Len(Tail(q)) = Len(q) - 1 /\ Head(q) \in S /\ Head(q) = q[1]
  BY HeadTailProperties
<1>3. \A i \in 1 .. Len(q) - 1 : Tail(q)[i] = q[i + 1]
  BY <1>1, <1>2, HeadTailProperties
<1> QED  BY <1>1, <1>2, <1>3

LEMMA RingTake ==
  ASSUME RingInv, SchedTake
  PROVE  RingInv' /\ Asked' = Asked - 1 /\ Taken' = Taken /\ Finished' = Finished /\ Oldest' = Oldest
<1>1. /\ UNCHANGED <<recordPtr, taskMgrMQ, mgrTask, mgrPc, spool, appPc>>
      /\ schedPc = "recv" /\ schedPc' \in {"ready", "post"} /\ requestMQ # <<>>
      /\ curTask' = Head(requestMQ) /\ requestMQ' = Tail(requestMQ)
  BY DEF SchedTake, SchedElse, appState, mgrState
<1>2. requestMQ \in Seq(Records) /\ curTask = NoTask
  BY <1>1 DEF RingInv, RingTypes
<1>3. /\ requestMQ' \in Seq(Records) /\ Len(requestMQ') = Len(requestMQ) - 1 /\ curTask' = requestMQ[1]
      /\ \A i \in 1 .. Len(requestMQ) - 1 : requestMQ'[i] = requestMQ[i + 1]
      /\ curTask' \in Records /\ curTask' # NoTask /\ Len(requestMQ) \in Nat /\ Len(requestMQ) >= 1
  <2>1. NoTask \notin Records
    BY GfxNumbers DEF Records, NoTask
  <2> QED  BY <1>1, <1>2, <2>1, HeadTail
<1>4. /\ Asked' = Asked - 1 /\ Taken' = Taken /\ Finished' = Finished /\ Oldest' = Oldest /\ InHand' = InHand
      /\ Taken = Asked
  BY <1>1, <1>2, <1>3, RingCounts DEF RingInv, Asked, Taken, Finished, Oldest, InHand, Num
<1>5. RingTypes'
  BY <1>1, <1>3, <1>4 DEF RingInv, RingTypes
<1>6. ASSUME NEW i \in 1 .. Len(requestMQ') PROVE requestMQ'[i] = Back(recordPtr', Asked' + 1 - i)
  <2>1. i \in 1 .. Len(requestMQ) - 1 /\ i + 1 \in 1 .. Len(requestMQ) /\ Asked + 1 - (i + 1) = Asked' + 1 - i
    BY <1>3, <1>4, RingCounts DEF RingInv
  <2>2. requestMQ[i + 1] = Back(recordPtr, Asked + 1 - (i + 1))
    BY <2>1 DEF RingInv, RingPlaces
  <2> QED  BY <2>1, <2>2, <1>1, <1>3
<1>7. curTask' = Back(recordPtr', Taken')
  <2>1. 1 \in 1 .. Len(requestMQ) /\ Asked + 1 - 1 = Taken'
    BY <1>3, <1>4, RingCounts DEF RingInv
  <2>2. requestMQ[1] = Back(recordPtr, Asked + 1 - 1)
    BY <2>1 DEF RingInv, RingPlaces
  <2> QED  BY <2>1, <2>2, <1>1, <1>3
<1> QED  BY <1>1, <1>4, <1>5, <1>6, <1>7 DEF RingInv, RingPlaces

LEMMA RingPost ==
  ASSUME RingInv, SchedPost
  PROVE  RingInv' /\ Asked' = Asked /\ Taken' = Taken - 1 /\ Finished' = Finished /\ Oldest' = Oldest
<1>1. /\ UNCHANGED <<recordPtr, requestMQ, mgrTask, mgrPc, spool, appPc>>
      /\ schedPc = "post" /\ schedPc' = "recv" /\ curTask' = NoTask
      /\ taskMgrMQ' = Append(taskMgrMQ, curTask)
  BY DEF SchedPost, SchedElse, appState, mgrState
<1>2. taskMgrMQ \in Seq(Records) /\ curTask \in Records /\ curTask # NoTask
  BY <1>1, GfxNumbers DEF RingInv, RingTypes
<1>3. /\ taskMgrMQ' \in Seq(Records) /\ Len(taskMgrMQ') = Len(taskMgrMQ) + 1
      /\ \A i \in 1 .. Len(taskMgrMQ) : taskMgrMQ'[i] = taskMgrMQ[i]
      /\ taskMgrMQ'[Len(taskMgrMQ) + 1] = curTask
  BY <1>1, <1>2, AppendProperties
<1>4. /\ Asked' = Asked /\ Taken' = Taken - 1 /\ Finished' = Finished /\ Oldest' = Oldest /\ InHand' = InHand
      /\ Finished = Taken + Len(taskMgrMQ)
  BY <1>1, <1>2, <1>3, RingCounts DEF RingInv, Asked, Taken, Finished, Oldest, InHand, Num
<1>5. RingTypes'
  BY <1>1, <1>3, <1>4 DEF RingInv, RingTypes
<1>6. ASSUME NEW i \in 1 .. Len(taskMgrMQ') PROVE taskMgrMQ'[i] = Back(recordPtr', Finished' + 1 - i)
  <2>1. CASE i = Len(taskMgrMQ) + 1
    <3>1. Finished + 1 - i = Taken
      BY <2>1, <1>4, RingCounts DEF RingInv
    <3> QED  BY <2>1, <3>1, <1>1, <1>2, <1>3, <1>4 DEF RingInv, RingPlaces
  <2>2. CASE i \in 1 .. Len(taskMgrMQ)
    BY <2>2, <1>1, <1>3, <1>4 DEF RingInv, RingPlaces
  <2> QED  BY <2>1, <2>2, <1>3, RingCounts DEF RingInv
<1> QED  BY <1>1, <1>4, <1>5, <1>6 DEF RingInv, RingPlaces

LEMMA RingRecv ==
  ASSUME RingInv, MgrRecv
  PROVE  RingInv' /\ Asked' = Asked /\ Taken' = Taken /\ Finished' = Finished - 1 /\ Oldest' = Oldest
         /\ ~InHand /\ InHand' /\ mgrTask' = Back(recordPtr, Oldest)
<1>1. /\ UNCHANGED <<recordPtr, requestMQ, curTask, schedPc, spool, appPc>>
      /\ mgrPc = "recv" /\ mgrPc' \in {"pace", "end"} /\ taskMgrMQ # <<>>
      /\ mgrTask' = Head(taskMgrMQ) /\ taskMgrMQ' = Tail(taskMgrMQ)
  BY DEF MgrRecv, MgrTo, schedState
<1>2. taskMgrMQ \in Seq(Records) /\ ~InHand /\ InHand'
  BY <1>1 DEF RingInv, RingTypes, InHand
<1>3. /\ taskMgrMQ' \in Seq(Records) /\ Len(taskMgrMQ') = Len(taskMgrMQ) - 1 /\ mgrTask' = taskMgrMQ[1]
      /\ \A i \in 1 .. Len(taskMgrMQ) - 1 : taskMgrMQ'[i] = taskMgrMQ[i + 1]
      /\ mgrTask' \in Records /\ Len(taskMgrMQ) \in Nat /\ Len(taskMgrMQ) >= 1
  BY <1>1, <1>2, HeadTail
<1>4. /\ Asked' = Asked /\ Taken' = Taken /\ Finished' = Finished - 1 /\ Oldest' = Oldest /\ Finished = Oldest
  BY <1>1, <1>2, <1>3, RingCounts DEF RingInv, Asked, Taken, Finished, Oldest, Num
<1>5. RingTypes'
  BY <1>1, <1>3, <1>4 DEF RingInv, RingTypes
<1>6. ASSUME NEW i \in 1 .. Len(taskMgrMQ') PROVE taskMgrMQ'[i] = Back(recordPtr', Finished' + 1 - i)
  <2>1. i \in 1 .. Len(taskMgrMQ) - 1 /\ i + 1 \in 1 .. Len(taskMgrMQ) /\ Finished + 1 - (i + 1) = Finished' + 1 - i
    BY <1>3, <1>4, RingCounts DEF RingInv
  <2>2. taskMgrMQ[i + 1] = Back(recordPtr, Finished + 1 - (i + 1))
    BY <2>1 DEF RingInv, RingPlaces
  <2> QED  BY <2>1, <2>2, <1>1, <1>3
<1>7. mgrTask' = Back(recordPtr, Oldest)
  <2>1. 1 \in 1 .. Len(taskMgrMQ) /\ Finished + 1 - 1 = Oldest
    BY <1>3, <1>4, RingCounts DEF RingInv
  <2>2. taskMgrMQ[1] = Back(recordPtr, Finished + 1 - 1)
    BY <2>1 DEF RingInv, RingPlaces
  <2> QED  BY <2>1, <2>2, <1>3
<1> QED  BY <1>1, <1>2, <1>4, <1>5, <1>6, <1>7 DEF RingInv, RingPlaces

LEMMA RingRetire ==
  ASSUME RingInv, MgrRetire \/ MgrEnd
  PROVE  RingInv' /\ Asked' = Asked /\ Taken' = Taken /\ Finished' = Finished /\ Oldest' = Oldest - 1
         /\ InHand /\ mgrTask = Back(recordPtr, Oldest)
<1>1. /\ UNCHANGED <<recordPtr, requestMQ, curTask, schedPc, taskMgrMQ, appPc>>
      /\ mgrPc \in {"retire", "end"} /\ mgrPc' \in {"display", "recv"}
      /\ mgrTask' = NoTask /\ spool' = spool - 1
  BY DEF MgrRetire, MgrEnd, Retired, MgrTo, schedState
<1>2. InHand /\ ~InHand'
  BY <1>1 DEF InHand
<1>4. /\ Asked' = Asked /\ Taken' = Taken /\ Finished' = Finished /\ Oldest' = Oldest - 1
      /\ Oldest = Finished + 1
  BY <1>1, <1>2, RingCounts DEF RingInv, Asked, Taken, Finished, Oldest, Num
<1>5. RingTypes'
  <2>1. spool' = Oldest' + Num(appPc' = "send") /\ spool' \in 0 .. GfxPending
    <3>1. Num(appPc = "send") \in {0, 1}
      BY DEF Num
    <3>2. spool = Oldest + Num(appPc = "send") /\ spool \in 0 .. GfxPending
      BY DEF RingInv, RingTypes
    <3> QED  BY <3>1, <3>2, <1>1, <1>4, RingCounts, GfxNumbers DEF RingInv
  <2> QED  BY <2>1, <1>1 DEF RingInv, RingTypes
<1> QED  BY <1>1, <1>2, <1>4, <1>5 DEF RingInv, RingPlaces

-----------------------------------------------------------------------------
(* The frames of the tasks in flight.                                      *)

(* How far frame g is after f, and that it may be d tasks after task a.    *)
Gap(f, g) == IF g >= f THEN g - f ELSE g - f + 2 * CfbNum
Follows(a, g, d) == Gap(a.frame, g) <= d /\ (a.swaps => Gap(a.frame, g) > 0)

(* The task n places back, and the place of the newest.                    *)
Task(n) == record[Back(recordPtr, n)]
Newest == IF appPc = "send" THEN 0 ELSE 1

FrameInv ==
  /\ record \in [Records -> [frame : Frames, swaps : BOOLEAN]] /\ frame \in Frames
  /\ \A m \in Newest .. Oldest : Follows(Task(m), frame, m + 1 - Newest)
  /\ \A m, n \in Newest .. Oldest : n < m => Follows(Task(m), Task(n).frame, m - n)

(* What the manager paces is the last task of its frame.                   *)
PacedSwaps == mgrPc \in {"pace", "register", "wait", "swap", "retire"} => record[mgrTask].swaps

LEMMA GapIs ==
  ASSUME NEW f \in Frames, NEW g \in Frames
  PROVE  /\ Gap(f, g) \in Nat /\ Gap(f, f) = 0 /\ Cfb(f) \in 0 .. CfbNum - 1
         /\ (g + 1) % (2 * CfbNum) \in Frames
         /\ Gap(f, g) < 2 * CfbNum - 1 => Gap(f, (g + 1) % (2 * CfbNum)) = Gap(f, g) + 1
         /\ Gap(f, g) < CfbNum /\ Cfb(f) = Cfb(g) => f = g
<1>1. f \in Nat /\ g \in Nat /\ f < 2 * CfbNum /\ g < 2 * CfbNum /\ CfbNum \in Nat /\ CfbNum >= 1
  BY GfxNumbers DEF Frames
<1>2. (g + 1) % (2 * CfbNum) = IF g + 1 = 2 * CfbNum THEN 0 ELSE g + 1
  BY <1>1
<1>3. \A h \in Nat : h < 2 * CfbNum => Cfb(h) = IF h < CfbNum THEN h ELSE h - CfbNum
  BY <1>1 DEF Cfb
<1> QED  BY <1>1, <1>2, <1>3 DEF Gap, Frames

LEMMA FrameSame ==
  ASSUME FrameInv, UNCHANGED <<record, frame, recordPtr>>, Oldest' = Oldest, Newest' = Newest
  PROVE  FrameInv'
BY DEF FrameInv, Task

LEMMA TaskIs ==
  ASSUME RingInv, FrameInv, NEW m \in Newest .. Oldest
  PROVE  Back(recordPtr, m) \in Records /\ Task(m) \in [frame : Frames, swaps : BOOLEAN]
         /\ Task(m).frame \in Frames
<1>1. recordPtr \in Records /\ m \in 0 .. GfxPending
  BY GfxNumbers, RingCounts DEF RingInv, RingTypes, Newest
<1>2. Back(recordPtr, m) \in Records
  BY <1>1, BackIs
<1> QED  BY <1>2 DEF FrameInv, Task

(* Filling the next record leaves the tasks in flight.                     *)
LEMMA StartLeaves ==
  ASSUME RingInv, FrameInv, NEW swaps \in BOOLEAN, GfxTaskStart(swaps)
  PROVE  /\ \A m \in 1 .. Oldest : Task(m)' = Task(m)
         /\ Task(0)' = [frame |-> frame, swaps |-> swaps]
<1>1. recordPtr \in Records /\ recordPtr' = recordPtr
  BY DEF RingInv, RingTypes, GfxTaskStart
<1>2. record' = [record EXCEPT ![recordPtr] = [frame |-> frame, swaps |-> swaps]]
  BY DEF GfxTaskStart
<1>3. Back(recordPtr, 0) = recordPtr /\ \A m \in 1 .. Oldest : Back(recordPtr, m) \in Records \ {recordPtr}
  BY <1>1, BackIs, RingCounts, GfxNumbers DEF RingInv
<1> QED  BY <1>1, <1>2, <1>3 DEF Task, FrameInv

LEMMA FrameStart ==
  ASSUME RingInv, FrameInv, NEW swaps \in BOOLEAN, GfxTaskStart(swaps)
  PROVE  FrameInv'
<1> DEFINE new == [frame |-> frame, swaps |-> swaps]
<1>1. /\ Oldest' = Oldest /\ Newest = 1 /\ Newest' = 0 /\ frame \in Frames /\ Oldest \in Nat
      /\ frame' = IF swaps THEN (frame + 1) % (2 * CfbNum) ELSE frame
  BY RingStart, RingCounts DEF FrameInv, RingInv, GfxTaskStart, Newest
<1>2. new \in [frame : Frames, swaps : BOOLEAN] /\ new.frame = frame /\ (new.swaps <=> swaps)
  BY <1>1
<1>3. record' \in [Records -> [frame : Frames, swaps : BOOLEAN]] /\ frame' \in Frames
  BY <1>1, <1>2, GapIs DEF FrameInv, GfxTaskStart
<1>4. Oldest < CfbNum /\ CfbNum \in Nat /\ CfbNum >= 1
  <2>1. spool = Oldest /\ spool < GfxPending
    BY RingCounts DEF RingInv, RingTypes, GfxTaskStart, Num
  <2> QED  BY <2>1, <1>1, GfxNumbers
<1>5. (\A m \in 1 .. Oldest : Task(m)' = Task(m)) /\ Task(0)' = new
  BY StartLeaves
<1> HIDE DEF new
<1>6. ASSUME NEW m \in 1 .. Oldest
      PROVE  /\ Follows(Task(m), frame, m) /\ Follows(Task(m), frame', m + 1)
  <2>1. Follows(Task(m), frame, m) /\ Task(m).frame \in Frames
    BY <1>1, TaskIs DEF FrameInv
  <2>2. Gap(Task(m).frame, frame) \in Nat /\ Gap(Task(m).frame, frame) < 2 * CfbNum - 1
    BY <2>1, <1>1, <1>4, GapIs DEF Follows
  <2>3. Gap(Task(m).frame, frame') \in {Gap(Task(m).frame, frame), Gap(Task(m).frame, frame) + 1}
    BY <2>1, <2>2, <1>1, GapIs
  <2> QED  BY <2>1, <2>2, <2>3 DEF Follows
<1>7. Follows(new, frame', 1)
  <2>1. Gap(frame, frame) = 0 /\ Gap(frame, (frame + 1) % (2 * CfbNum)) = 1
    BY <1>1, <1>4, GapIs
  <2>2. CASE swaps
    BY <2>1, <2>2, <1>1, <1>2 DEF Follows
  <2>3. CASE ~swaps
    BY <2>1, <2>3, <1>1, <1>2 DEF Follows
  <2> QED  BY <2>2, <2>3
<1>8. ASSUME NEW m \in 0 .. Oldest PROVE Follows(Task(m)', frame', m + 1)
  BY <1>5, <1>6, <1>7
<1>9. ASSUME NEW m \in 0 .. Oldest, NEW n \in 0 .. Oldest, n < m
      PROVE  Follows(Task(m)', Task(n)'.frame, m - n)
  <2>1. CASE n = 0
    BY <2>1, <1>9, <1>2, <1>5, <1>6
  <2>2. CASE n # 0
    <3>1. m \in 1 .. Oldest /\ n \in 1 .. Oldest
      BY <2>2, <1>9
    <3>2. Follows(Task(m), Task(n).frame, m - n)
      BY <3>1, <1>9, <1>1 DEF FrameInv
    <3> QED  BY <3>1, <3>2, <1>5
  <2> QED  BY <2>1, <2>2
<1>10. \A m \in 0 .. Oldest : m + 1 - 0 = m + 1
  OBVIOUS
<1> QED  BY <1>1, <1>3, <1>8, <1>9, <1>10 DEF FrameInv

LEMMA SendShifts ==
  ASSUME RingInv, GfxTaskSend
  PROVE  \A m \in 0 .. Oldest : Task(m + 1)' = Task(m)
<1>1. recordPtr \in Records /\ recordPtr' = (recordPtr + 1) % GfxTaskNum /\ record' = record
  BY DEF RingInv, RingTypes, GfxTaskSend
<1>2. Oldest < GfxPending /\ Oldest \in Nat
  BY RingCounts, GfxNumbers DEF RingInv, RingTypes, GfxTaskSend, Num
<1>3. \A m \in 0 .. Oldest : Back(recordPtr', m + 1) = Back(recordPtr, m)
  BY <1>1, <1>2, BackIs, GfxNumbers
<1> QED  BY <1>1, <1>3 DEF Task

LEMMA FrameSend ==
  ASSUME RingInv, FrameInv, GfxTaskSend
  PROVE  FrameInv'
<1>1. /\ Oldest' = Oldest + 1 /\ Oldest \in Nat /\ Newest = 0 /\ Newest' = 1
      /\ record' = record /\ frame' = frame
  BY RingSend, RingCounts DEF RingInv, GfxTaskSend, Newest
<1>2. \A m \in 0 .. Oldest : Task(m + 1)' = Task(m)
  BY SendShifts
<1>3. ASSUME NEW m \in 1 .. Oldest + 1
      PROVE  m - 1 \in 0 .. Oldest /\ (m - 1) + 1 = m /\ Task(m)' = Task(m - 1)
  BY <1>1, <1>2
<1>4. ASSUME NEW m \in 1 .. Oldest + 1
      PROVE  Follows(Task(m)', frame', m + 1 - 1)
  <2>1. Follows(Task(m - 1), frame, (m - 1) + 1 - 0)
    BY <1>1, <1>3 DEF FrameInv
  <2> QED  BY <2>1, <1>1, <1>3
<1>5. ASSUME NEW m \in 1 .. Oldest + 1, NEW n \in 1 .. Oldest + 1, n < m
      PROVE  Follows(Task(m)', Task(n)'.frame, m - n)
  <2>1. n - 1 < m - 1 /\ (m - 1) - (n - 1) = m - n
    BY <1>5, <1>1
  <2>2. Follows(Task(m - 1), Task(n - 1).frame, (m - 1) - (n - 1))
    BY <2>1, <1>1, <1>3 DEF FrameInv
  <2> QED  BY <2>1, <2>2, <1>3
<1> QED  BY <1>1, <1>4, <1>5 DEF FrameInv

LEMMA RetireLeaves ==
  ASSUME RingInv, FrameInv, MgrRetire \/ MgrEnd
  PROVE  \A m \in 0 .. Oldest - 1 : Task(m)' = Task(m)
<1>1. recordPtr \in Records /\ recordPtr' = recordPtr /\ record' = [record EXCEPT ![mgrTask] = Blank]
      /\ mgrTask = Back(recordPtr, Oldest)
  BY RingRetire DEF RingInv, RingTypes, MgrRetire, MgrEnd, MgrTo, Retired
<1>2. Oldest \in Nat /\ Oldest <= GfxPending
  BY RingCounts DEF RingInv
<1>3. ASSUME NEW m \in 0 .. Oldest - 1 PROVE Back(recordPtr, m) \in Records \ {mgrTask}
  <2>1. m \in 0 .. GfxPending /\ Oldest \in 0 .. GfxPending /\ m # Oldest
    BY <1>2, GfxNumbers
  <2>2. Back(recordPtr, m) \in Records /\ (Back(recordPtr, m) = Back(recordPtr, Oldest) => m = Oldest)
    BY <1>1, <2>1, BackIs
  <2> QED  BY <1>1, <2>1, <2>2
<1> QED  BY <1>1, <1>3 DEF Task, FrameInv

LEMMA FrameRetire ==
  ASSUME RingInv, FrameInv, MgrRetire \/ MgrEnd
  PROVE  FrameInv'
<1>1. /\ Oldest' = Oldest - 1 /\ Oldest \in Nat /\ Newest' = Newest /\ Newest \in {0, 1} /\ frame' = frame
      /\ record' = [record EXCEPT ![mgrTask] = Blank]
  BY RingRetire, RingCounts DEF RingInv, MgrRetire, MgrEnd, MgrTo, Retired, Newest
<1>2. Blank \in [frame : Frames, swaps : BOOLEAN]
  <2>1. 0 \in Frames
    BY GfxNumbers DEF Frames
  <2> QED  BY <2>1 DEF Blank
<1>3. record' \in [Records -> [frame : Frames, swaps : BOOLEAN]] /\ frame' \in Frames
  BY <1>1, <1>2 DEF FrameInv
<1>4. \A m \in Newest' .. Oldest' : m \in Newest .. Oldest /\ Task(m)' = Task(m)
  BY <1>1, RetireLeaves
<1> QED  BY <1>1, <1>3, <1>4 DEF FrameInv

-----------------------------------------------------------------------------
(* What the buffers hold, until tasks go back undrawn.                     *)

Shows(f) == DrawnWhole(f)
MaybeFrames == Frames \cup {NoFrame}
Scanned == {scan.curr, scan.next} \ {NoFrame}

ContentTypes ==
  /\ content \in [0 .. CfbNum - 1 -> MaybeFrames]
  /\ scan \in [curr : MaybeFrames, next : MaybeFrames]
ContentInv ==
  /\ ContentTypes
  /\ \A f \in Scanned : Shows(f)
  /\ schedPc \in {"run", "post"} => Shows(record[curTask].frame)
  /\ \A m \in Taken + 1 .. Oldest : Shows(Task(m).frame)
  /\ schedPc = "run" /\ taskAge < ShowAge => CfbFree(Cfb(record[curTask].frame))

(* A step that draws nothing, shows nothing and leaves the tasks alone.     *)
ContentVars == <<content, scan, schedPc, curTask, taskAge, preNMIFlag>>
LEMMA ContentSame ==
  ASSUME ContentInv, UNCHANGED ContentVars,
         schedPc \in {"run", "post"} => record[curTask]' = record[curTask],
         \A m \in Taken' + 1 .. Oldest' : \E n \in Taken + 1 .. Oldest : Task(m)' = Task(n)
  PROVE  ContentInv'
BY DEF ContentInv, ContentTypes, ContentVars, Scanned, Shows, DrawnWhole, CfbFree

LEMMA CurTaskIs ==
  ASSUME RingInv, FrameInv, schedPc # "recv"
  PROVE  /\ curTask \in Records /\ curTask = Back(recordPtr, Taken) /\ Taken \in 1 .. Oldest
         /\ record[curTask] = Task(Taken) /\ record[curTask].frame \in Frames
<1>1. curTask \in Records /\ curTask # NoTask /\ curTask = Back(recordPtr, Taken)
  BY DEF RingInv, RingTypes, RingPlaces
<1>2. Taken \in 1 .. Oldest
  BY <1>1, RingCounts DEF RingInv, Taken, Num
<1> QED  BY <1>1, <1>2 DEF FrameInv, Task

LEMMA MgrTaskIs ==
  ASSUME RingInv, FrameInv, InHand
  PROVE  /\ mgrTask \in Records /\ mgrTask = Back(recordPtr, Oldest) /\ Oldest \in Taken + 1 .. Oldest
         /\ record[mgrTask] = Task(Oldest) /\ record[mgrTask].frame \in Frames
         /\ schedPc # "recv" => mgrTask # curTask
<1>1. mgrTask = Back(recordPtr, Oldest) /\ recordPtr \in Records
  BY DEF RingInv, RingTypes, RingPlaces
<1>2. /\ Oldest = Finished + 1 /\ Taken \in Nat /\ Finished \in Nat /\ Taken <= Finished
      /\ Oldest <= GfxPending
  BY RingCounts DEF RingInv, Oldest, Num
<1>3. mgrTask \in Records
  BY <1>1, <1>2, BackIs, GfxNumbers
<1>4. schedPc # "recv" => mgrTask # curTask
  <2>1. Taken \in 0 .. GfxPending /\ Oldest \in 0 .. GfxPending /\ Taken # Oldest
    BY <1>2, GfxNumbers
  <2>2. Back(recordPtr, Taken) # Back(recordPtr, Oldest)
    BY <2>1, <1>1, BackIs
  <2> QED  BY <2>2, <1>1, CurTaskIs
<1> QED  BY <1>1, <1>2, <1>3, <1>4 DEF FrameInv, Task

(* The older of two tasks in flight has drawn to another buffer, unless it  *)
(* is of the same frame; and one that swaps is of an older one.            *)
LEMMA BuffersDiffer ==
  ASSUME RingInv, FrameInv, NEW m \in 1 .. Oldest, NEW n \in 1 .. Oldest, n < m
  PROVE  /\ Cfb(Task(m).frame) = Cfb(Task(n).frame) => Task(m).frame = Task(n).frame
         /\ Task(m).swaps => Cfb(Task(m).frame) # Cfb(Task(n).frame)
<1>1. m \in Newest .. Oldest /\ n \in Newest .. Oldest /\ Oldest <= CfbNum /\ CfbNum \in Nat /\ Oldest \in Nat
  BY RingCounts, GfxNumbers DEF RingInv, Newest
<1>2. Task(m).frame \in Frames /\ Task(n).frame \in Frames
  BY <1>1, TaskIs
<1>3. Follows(Task(m), Task(n).frame, m - n)
  BY <1>1 DEF FrameInv
<1>4. Gap(Task(m).frame, Task(n).frame) \in Nat /\ Gap(Task(m).frame, Task(n).frame) < CfbNum
  BY <1>1, <1>2, <1>3, GapIs DEF Follows
<1>5. Cfb(Task(m).frame) = Cfb(Task(n).frame) => Task(m).frame = Task(n).frame
  BY <1>2, <1>4, GapIs
<1>6. Task(m).frame = Task(n).frame => Gap(Task(m).frame, Task(n).frame) = 0
  BY <1>2, GapIs
<1> QED  BY <1>3, <1>5, <1>6 DEF Follows

LEMMA ContentInit == GfxInit => ContentInv
<1> SUFFICES ASSUME GfxInit PROVE ContentInv
  OBVIOUS
<1>1. Oldest = 0 /\ Taken = 0
  BY DEF GfxInit, Oldest, Finished, Taken, Asked, Num, InHand
<1> QED  BY <1>1 DEF GfxInit, ContentInv, ContentTypes, Scanned, MaybeFrames

LEMMA ContentStart ==
  ASSUME RingInv, FrameInv, ContentInv, NEW swaps \in BOOLEAN, GfxTaskStart(swaps)
  PROVE  ContentInv'
<1>1. Taken' = Taken /\ Oldest' = Oldest /\ Taken \in Nat /\ Oldest \in Nat /\ recordPtr' = recordPtr
  BY RingStart, RingCounts DEF RingInv, GfxTaskStart
<1>2. UNCHANGED ContentVars
  BY DEF GfxTaskStart, schedState, resetState, ContentVars
<1>3. \A m \in 1 .. Oldest : Task(m)' = Task(m)
  BY StartLeaves
<1>4. schedPc # "recv" => record'[curTask] = record[curTask]
  BY <1>1, <1>3, CurTaskIs DEF Task
<1>5. curTask' = curTask
  BY <1>2 DEF ContentVars
<1> QED  BY <1>1, <1>2, <1>3, <1>4, <1>5, ContentSame

LEMMA ContentSend ==
  ASSUME RingInv, FrameInv, ContentInv, GfxTaskSend
  PROVE  ContentInv'
<1>1. Taken' = Taken + 1 /\ Oldest' = Oldest + 1 /\ Taken \in Nat /\ Oldest \in Nat
  BY RingSend, RingCounts DEF RingInv
<1>2. UNCHANGED ContentVars /\ record' = record
  BY DEF GfxTaskSend, schedState, resetState, ContentVars
<1>3. \A m \in 0 .. Oldest : Task(m + 1)' = Task(m)
  BY SendShifts
<1>4. ASSUME NEW m \in Taken' + 1 .. Oldest' PROVE \E n \in Taken + 1 .. Oldest : Task(m)' = Task(n)
  <2>1. m - 1 \in Taken + 1 .. Oldest /\ m - 1 \in 0 .. Oldest /\ (m - 1) + 1 = m
    BY <1>1
  <2> QED  BY <2>1, <1>3
<1>5. record[curTask]' = record[curTask]
  BY <1>2 DEF ContentVars
<1> QED  BY <1>2, <1>4, <1>5, ContentSame

LEMMA ContentTake ==
  ASSUME RingInv, FrameInv, ContentInv, SchedTake
  PROVE  ContentInv'
<1>1. Taken' = Taken /\ Oldest' = Oldest
  BY RingTake
<1>2. /\ UNCHANGED <<content, scan, record, recordPtr, preNMIFlag>>
      /\ schedPc' = "ready" \/ (schedPc' = "post" /\ preNMIFlag = "BEFORE_RESET")
  BY DEF SchedTake, SchedElse, appState, resetState
<1> QED  BY <1>1, <1>2 DEF ContentInv, ContentTypes, Scanned, Shows, DrawnWhole, Task

LEMMA ContentDraw ==
  ASSUME RingInv, FrameInv, ContentInv, SchedStart
  PROVE  ContentInv' /\ Taken' = Taken /\ Oldest' = Oldest
<1> DEFINE f == record[curTask].frame
<1>1. /\ schedPc = "ready" /\ schedPc' = "run" /\ CfbFree(Cfb(f)) /\ content' = [content EXCEPT ![Cfb(f)] = f]
      /\ UNCHANGED <<scan, record, recordPtr, curTask, mgrTask, mgrPc, requestMQ, taskMgrMQ, spool, appPc, preNMIFlag>>
  BY DEF SchedStart, SchedElse, appState, mgrState, resetState
<1>2. Taken' = Taken /\ Oldest' = Oldest
  <2>1. UNCHANGED RingVars /\ InHand' = InHand /\ (appPc = "send")' = (appPc = "send")
        /\ (schedPc = "recv")' = (schedPc = "recv")
    BY <1>1 DEF RingVars, InHand
  <2> QED  BY <2>1, RingSame
<1>3. /\ f \in Frames /\ f = Task(Taken).frame /\ Taken \in 1 .. Oldest /\ Oldest \in Nat
  BY <1>1, CurTaskIs, RingCounts DEF RingInv
<1>4. Cfb(f) \in 0 .. CfbNum - 1
  BY <1>3, GapIs
<1> HIDE DEF f
<1>5. ContentTypes'
  BY <1>1, <1>3, <1>4 DEF ContentInv, ContentTypes, MaybeFrames
<1>6. \A g \in Frames : Shows(g) /\ (Cfb(g) = Cfb(f) => g = f) => Shows(g)'
  BY <1>1, <1>4, GapIs DEF Shows, DrawnWhole, ContentInv, ContentTypes
<1>7. ASSUME NEW g \in Scanned' PROVE Shows(g)'
  <2>1. g \in Frames /\ Shows(g)
    BY <1>1 DEF ContentInv, ContentTypes, Scanned, MaybeFrames
  <2>2. Cfb(g) # Cfb(f)
    BY <1>1 DEF CfbFree, Scanned
  <2> QED  BY <2>1, <2>2, <1>6
<1>8. content'[Cfb(f)] = f /\ f' = f
  BY <1>1, <1>4 DEF ContentInv, ContentTypes, f
<1>9. ASSUME NEW m \in Taken + 1 .. Oldest PROVE Shows(Task(m).frame)'
  <2>1. m \in 1 .. Oldest /\ Taken < m /\ m \in Newest .. Oldest
    BY <1>3 DEF Newest
  <2>2. Task(m).frame \in Frames /\ Task(m)' = Task(m)
    BY <2>1, <1>1, TaskIs DEF Task
  <2>3. Shows(Task(m).frame)
    BY DEF ContentInv
  <2>4. Cfb(Task(m).frame) = Cfb(f) => Task(m).frame = f
    BY <2>1, <1>3, BuffersDiffer
  <2> QED  BY <2>2, <2>3, <2>4, <1>6
<1>10. CfbFree(Cfb(f))'
  BY <1>1 DEF CfbFree, f
<1>11. record'[curTask'].frame = f
  BY <1>1 DEF f
<1> QED  BY <1>1, <1>2, <1>5, <1>7, <1>8, <1>9, <1>10, <1>11 DEF ContentInv, Shows, DrawnWhole, CfbFree

LEMMA ContentPost ==
  ASSUME RingInv, FrameInv, ContentInv, SchedPost
  PROVE  ContentInv'
<1>1. Taken' = Taken - 1 /\ Oldest' = Oldest /\ Taken \in 1 .. Oldest /\ Oldest \in Nat
      /\ record[curTask] = Task(Taken)
  BY RingPost, CurTaskIs, RingCounts DEF RingInv, SchedPost
<1>2. schedPc = "post" /\ schedPc' = "recv" /\ UNCHANGED <<content, scan, record, recordPtr, preNMIFlag>>
  BY DEF SchedPost, SchedElse, appState, resetState
<1>3. ASSUME NEW m \in Taken' + 1 .. Oldest' PROVE Shows(Task(m).frame)'
  <2>1. m = Taken \/ m \in Taken + 1 .. Oldest
    BY <1>1
  <2>2. Shows(Task(m).frame)
    BY <2>1, <1>1, <1>2 DEF ContentInv
  <2> QED  BY <2>2, <1>2 DEF Shows, DrawnWhole, Task
<1> QED  BY <1>2, <1>3 DEF ContentInv, ContentTypes, Scanned, Shows, DrawnWhole

LEMMA ContentSwap ==
  ASSUME RingInv, FrameInv, PacedSwaps, ContentInv, MgrSwap
  PROVE  ContentInv'
<1> DEFINE g == record[mgrTask].frame
           f == record[curTask].frame
<1>1. /\ InHand /\ mgrPc = "swap" /\ mgrPc' = "retire" /\ scan' = [scan EXCEPT !.next = g]
      /\ UNCHANGED <<record, recordPtr, requestMQ, taskMgrMQ, curTask, mgrTask, spool, appPc, schedPc, content, taskAge,
                     preNMIFlag>>
  BY DEF MgrSwap, MgrTo, schedState, resetState, InHand
<1>2. Taken' = Taken /\ Oldest' = Oldest
  <2>1. UNCHANGED RingVars /\ InHand' = InHand /\ (appPc = "send")' = (appPc = "send")
        /\ (schedPc = "recv")' = (schedPc = "recv")
    BY <1>1 DEF RingVars, InHand
  <2> QED  BY <2>1, RingSame
<1>3. /\ g \in Frames /\ g = Task(Oldest).frame /\ Oldest \in Taken + 1 .. Oldest
      /\ Task(Oldest).swaps /\ Shows(g) /\ Taken \in Nat /\ Oldest \in Nat
  BY <1>1, MgrTaskIs, RingCounts DEF RingInv, PacedSwaps, ContentInv
<1> HIDE DEF f, g
<1>4. /\ ContentTypes' /\ scan'.next = g /\ scan'.curr = scan.curr /\ g # NoFrame
  <2>1. g # NoFrame
    BY <1>3, GfxNumbers DEF Frames, NoFrame
  <2> QED  BY <2>1, <1>1, <1>3 DEF ContentInv, ContentTypes, MaybeFrames
<1>5. \A h \in Scanned' : Shows(h)'
  BY <1>1, <1>3, <1>4 DEF ContentInv, Scanned, Shows, DrawnWhole
<1>6. ASSUME schedPc = "run", taskAge < ShowAge PROVE CfbFree(Cfb(f))'
  <2>1. f = Task(Taken).frame /\ Taken \in 1 .. Oldest
    BY <1>6, CurTaskIs DEF f
  <2>2. Cfb(g) # Cfb(f)
    BY <2>1, <1>3, BuffersDiffer
  <2>3. CfbFree(Cfb(f)) /\ f' = f
    BY <1>1, <1>6 DEF ContentInv, f
  <2> QED  BY <2>2, <2>3, <1>4 DEF CfbFree
<1>7. f' = f
  BY <1>1 DEF f
<1> QED  BY <1>1, <1>2, <1>4, <1>5, <1>6, <1>7 DEF ContentInv, Shows, DrawnWhole, Task, CfbFree, f

LEMMA ContentRetire ==
  ASSUME RingInv, FrameInv, ContentInv, MgrRetire \/ MgrEnd
  PROVE  ContentInv'
<1>1. Taken' = Taken /\ Oldest' = Oldest - 1 /\ Taken \in Nat /\ Oldest \in Nat /\ InHand
      /\ record' = [record EXCEPT ![mgrTask] = Blank]
  BY RingRetire, RingCounts DEF RingInv, MgrRetire, MgrEnd, Retired
<1>2. UNCHANGED ContentVars
  BY DEF MgrRetire, MgrEnd, MgrTo, schedState, resetState, ContentVars
<1>3. \A m \in 0 .. Oldest - 1 : Task(m)' = Task(m)
  BY RetireLeaves
<1>4. schedPc # "recv" => record'[curTask] = record[curTask]
  BY <1>1, CurTaskIs, MgrTaskIs DEF FrameInv
<1>5. curTask' = curTask
  BY <1>2 DEF ContentVars
<1>6. \A m \in Taken' + 1 .. Oldest' : m \in Taken + 1 .. Oldest /\ Task(m)' = Task(m)
  BY <1>1, <1>3
<1> QED  BY <1>2, <1>4, <1>5, <1>6, ContentSame

(* A retrace puts the next frame on display.                               *)
LEMMA ContentRetrace ==
  ASSUME ContentInv, Retrace_, Taken' = Taken, Oldest' = Oldest
  PROVE  ContentInv'
<1>1. /\ scan' = [scan EXCEPT !.curr = scan.next]
      /\ UNCHANGED <<record, recordPtr, curTask, schedPc, content, taskAge, preNMIFlag>>
  BY DEF Retrace_, schedState, appState, resetState
<1>2. scan'.curr = scan.next /\ scan'.next = scan.next /\ ContentTypes'
  BY <1>1 DEF ContentInv, ContentTypes
<1> QED  BY <1>1, <1>2 DEF ContentInv, Scanned, Shows, DrawnWhole, Task, CfbFree

(* A task that took too long is shown as it is.                            *)
LEMMA ContentHandle ==
  ASSUME RingInv, FrameInv, ContentInv, NEW gate, HandleRetrace(gate), taskAge \in Nat,
         Taken' = Taken, Oldest' = Oldest
  PROVE  ContentInv'
<1> DEFINE f == record[curTask].frame
<1>1. /\ UNCHANGED <<record, recordPtr, curTask, schedPc, content>>
      /\ preNMIFlag' = preNMIFlag \/ preNMIFlag' = "BEFORE_RESET"
  BY DEF HandleRetrace, schedState, appState
<1>2. schedPc = "run" => f \in Frames /\ Shows(f)
  BY CurTaskIs DEF ContentInv
<1>3. schedPc = "run" => taskAge' \in Nat /\ (taskAge' < ShowAge => taskAge < ShowAge)
  BY GfxNumbers DEF HandleRetrace, Least
<1>4. CASE schedPc = "run" /\ taskAge' = ShowAge
  <2>1. scan' = [scan EXCEPT !.next = f]
    BY <1>4 DEF HandleRetrace
  <2> HIDE DEF f
  <2>2. scan'.next = f /\ scan'.curr = scan.curr /\ ContentTypes'
    BY <2>1, <1>1, <1>2, <1>4 DEF ContentInv, ContentTypes, MaybeFrames
  <2>3. \A h \in Scanned' : Shows(h)'
    BY <2>2, <1>1, <1>2, <1>4 DEF ContentInv, Scanned, Shows, DrawnWhole
  <2>4. ~(taskAge' < ShowAge)
    BY <1>4, GfxNumbers
  <2> QED  BY <2>2, <2>3, <2>4, <1>1 DEF ContentInv, Shows, DrawnWhole, Task
<1>5. CASE ~(schedPc = "run" /\ taskAge' = ShowAge)
  <2>1. scan' = scan
    BY <1>5 DEF HandleRetrace
  <2> HIDE DEF f
  <2> QED  BY <2>1, <1>1, <1>3 DEF ContentInv, ContentTypes, Scanned, Shows, DrawnWhole, Task, CfbFree
<1> QED  BY <1>4, <1>5

-----------------------------------------------------------------------------
LEMMA PacedNext ==
  ASSUME RingInv, FrameInv, PacedSwaps, GfxNext
  PROVE  PacedSwaps'
<1>1. CASE \E swaps \in BOOLEAN : GfxTaskStart(swaps)
  <2>1. PICK swaps \in BOOLEAN : GfxTaskStart(swaps)
    BY <1>1
  <2>2. UNCHANGED <<mgrPc, mgrTask, recordPtr>>
    BY <2>1 DEF GfxTaskStart, mgrState
  <2>3. \A m \in 1 .. Oldest : Task(m)' = Task(m)
    BY <2>1, StartLeaves
  <2>4. InHand => record'[mgrTask] = record[mgrTask]
    <3>1. InHand => Oldest \in 1 .. Oldest
      BY RingCounts DEF RingInv, Oldest, Num
    <3> QED  BY <3>1, <2>2, <2>3, MgrTaskIs DEF Task
  <2> QED  BY <2>2, <2>4 DEF PacedSwaps, InHand
<1>2. CASE MgrRetire \/ MgrEnd \/ MgrDisplay \/ MgrOn
  BY <1>2 DEF MgrRetire, MgrEnd, MgrDisplay, MgrOn, MgrTo, PacedSwaps
<1>3. CASE MgrRecv
  BY <1>3 DEF MgrRecv, MgrTo, PacedSwaps
<1>4. CASE MgrPace \/ MgrRegister \/ MgrWoken \/ MgrSwap
  BY <1>4 DEF MgrPace, MgrRegister, MgrWoken, MgrSwap, MgrTo, PacedSwaps
<1>5. CASE GfxTaskSend \/ GfxDisplayOn \/ GfxDisplayOff \/ GfxTaskAllEndWait \/ GfxDisplayBlack \/ GfxTaskAllEnd
  BY <1>5 DEF GfxTaskSend, GfxDisplayOn, GfxDisplayOff, GfxTaskAllEndWait, GfxDisplayBlack, GfxTaskAllEnd,
     AppElse, mgrState, PacedSwaps
<1>6. CASE SchedTake \/ SchedStart \/ SchedDone \/ SchedPost \/ Retrace_ \/ HandlerStep
  BY <1>6 DEF SchedTake, SchedStart, SchedDone, SchedPost, SchedElse, Retrace_, HandlerStep, HandlePreNmi,
     HandleRetrace, appState, mgrState, PacedSwaps
<1> QED  BY <1>1, <1>2, <1>3, <1>4, <1>5, <1>6 DEF GfxNext, AppCall, AppStep, SchedStep, MgrStep

-----------------------------------------------------------------------------
(* The time a task can run while the manager is still at older ones.       *)

Queued == Len(taskMgrMQ)
Idle == mgrPc = "recv" /\ Queued = 0

(* The retraces counted for the pace, with one that is not handled yet, and *)
(* whether one may still come in this stretch of the manager's work.       *)
Since == IF due THEN Least(sinceSwap + 1, Pace) ELSE sinceSwap
CalledBack == client = "woken" \/ (client = "waiting" /\ due)
Slack == IF late THEN 0 ELSE 1

(* A task takes no more than this many retraces, n tasks n times as many.   *)
Cost(n) == n * (Pace + 2)
Paced(n) == (IF Since >= Pace THEN Slack ELSE Pace - Since + 2) + Cost(n)
StillToCome ==
  IF mgrPc = "pace" \/ (mgrPc = "wait" /\ CalledBack) THEN Paced(Queued)
  ELSE IF mgrPc \in {"register", "wait"} THEN Pace - Since + 2 + Cost(Queued)
  ELSE IF mgrPc = "recv" THEN Paced(Queued - 1)
  ELSE IF Queued = 0 THEN Slack
  ELSE (IF Since >= Pace THEN Slack + 1 ELSE Pace - Since + 2) + Cost(Queued - 1)

AgeTypes ==
  /\ sinceSwap \in 0 .. Pace /\ taskAge \in Nat
  /\ mgrPc \in {"recv", "pace", "register", "wait", "swap", "retire", "display", "on", "end"}
AgeWaits ==
  /\ mgrPc = "wait" => client \in {"waiting", "woken"}
  /\ mgrPc # "wait" => client = "none"
  /\ due /\ ~late => mgrPc = "recv" \/ (mgrPc = "wait" /\ client = "waiting")
  /\ mgrPc = "register" /\ ~late => sinceSwap < Pace
AgeBound == schedPc = "run" /\ ~Idle => taskAge + (IF due THEN 1 ELSE 0) + StillToCome < DarkAge
AgeInv == AgeTypes /\ AgeWaits /\ AgeBound

LEMMA CostIs ==
  /\ Cost(0) = 0
  /\ \A n \in Nat : Cost(n) \in Nat /\ Cost(n + 1) = Cost(n) + Pace + 2
  /\ \A n \in Nat : n # 0 => Cost(n) = Cost(n - 1) + Pace + 2 /\ Cost(n - 1) \in Nat
  /\ \A n \in Nat : n <= GfxPending - 1 => Cost(n) < DarkAge
<1>1. Pace + 2 \in Nat /\ GfxPending \in Nat
  BY GfxNumbers
<1>2. \A a, b, c \in Nat : a * c \in Nat /\ (a + b) * c = a * c + b * c /\ 1 * c = c /\ 0 * c = 0
  OBVIOUS
<1>3. (Pace + 2) * (GfxPending - 1) < DarkAge
  BY GfxAssumption DEF GfxAssumption
<1>4. \A n \in Nat : Cost(n) \in Nat /\ Cost(n + 1) = Cost(n) + (Pace + 2)
  BY <1>1, <1>2 DEF Cost
<1>5. ASSUME NEW n \in Nat, n <= GfxPending - 1 PROVE Cost(n) < DarkAge
  <2>1. GfxPending - 1 - n \in Nat /\ GfxPending - 1 = n + (GfxPending - 1 - n) /\ GfxPending - 1 \in Nat
    BY <1>1, <1>5
  <2>2. Cost(GfxPending - 1) = Cost(n) + Cost(GfxPending - 1 - n)
    BY <2>1, <1>1, <1>2 DEF Cost
  <2>3. Cost(GfxPending - 1) < DarkAge
    BY <1>1, <1>3, <2>1 DEF Cost
  <2> QED  BY <2>1, <2>2, <2>3, <1>4, GfxNumbers
<1>6. ASSUME NEW n \in Nat, n # 0 PROVE Cost(n) = Cost(n - 1) + Pace + 2 /\ Cost(n - 1) \in Nat
  <2>1. n - 1 \in Nat /\ (n - 1) + 1 = n
    BY <1>6
  <2>2. Cost((n - 1) + 1) = Cost(n - 1) + (Pace + 2) /\ Cost(n - 1) \in Nat
    BY <2>1, <1>4
  <2> QED  BY <2>1, <2>2, GfxNumbers
<1>7. \A n \in Nat : Cost(n + 1) = Cost(n) + Pace + 2
  BY <1>4, GfxNumbers
<1> QED  BY <1>1, <1>2, <1>4, <1>5, <1>6, <1>7 DEF Cost

LEMMA AgeInit == GfxInit => AgeInv
<1> SUFFICES ASSUME GfxInit PROVE AgeInv
  OBVIOUS
<1>1. sinceSwap = Pace /\ taskAge = 0 /\ ~due /\ mgrPc = "recv" /\ client = "none" /\ schedPc = "recv"
  BY DEF GfxInit
<1> QED  BY <1>1, GfxNumbers DEF AgeInv, AgeTypes, AgeWaits, AgeBound

(* A step of the application, and of the scheduler but one.                 *)
LEMMA AgeSame ==
  ASSUME AgeInv, UNCHANGED <<sinceSwap, due, late, mgrPc, client>>, taskAge' \in Nat,
         schedPc' = "run" => UNCHANGED <<schedPc, taskAge, taskMgrMQ>>
  PROVE  AgeInv'
<1>1. AgeTypes' /\ AgeWaits'
  BY DEF AgeInv, AgeTypes, AgeWaits
<1>2. AgeBound'
  BY DEF AgeInv, AgeBound, Idle, Queued, StillToCome, Paced, Since, CalledBack, Slack, Least
<1> QED  BY <1>1, <1>2 DEF AgeInv

(* Whatever the manager has before it when a task starts takes not so long. *)
LEMMA AgeStart ==
  ASSUME RingInv, AgeInv, SchedStart
  PROVE  AgeInv'
<1>1. /\ schedPc = "ready" /\ taskAge' = 0
      /\ UNCHANGED <<sinceSwap, due, late, mgrPc, client, taskMgrMQ>>
  BY DEF SchedStart, SchedElse, mgrState
<1>2. AgeTypes' /\ AgeWaits'
  BY <1>1 DEF AgeInv, AgeTypes, AgeWaits
<1>3. StillToCome' = StillToCome /\ Idle' = Idle
  BY <1>1 DEF Idle, Queued, StillToCome, Paced, Since, CalledBack, Slack, Least
<1>4. /\ Queued \in Nat /\ Queued <= GfxPending - 1 /\ (InHand => Queued + 1 <= GfxPending - 1)
      /\ GfxPending \in Nat
  BY <1>1, RingCounts, GfxNumbers DEF RingInv, RingTypes, Queued, Finished, Taken, Asked, Oldest, Num
<1>5. ASSUME ~Idle PROVE (IF due THEN 1 ELSE 0) + StillToCome < DarkAge
  <2>1. /\ sinceSwap \in Nat /\ sinceSwap <= Pace /\ Pace \in Nat /\ Pace >= 1 /\ DarkAge \in Nat
        /\ DarkAge > 1
    BY GfxNumbers, GfxAssumption DEF AgeInv, AgeTypes, GfxAssumption
  <2>2. /\ Since \in Nat /\ Since <= Pace /\ (due => Since >= 1) /\ Slack \in {0, 1} /\ (late => Slack = 0)
    BY <2>1 DEF Since, Least, Slack
  <2>3. CASE InHand
    <3>1. Cost(Queued + 1) < DarkAge /\ Cost(Queued + 1) = Cost(Queued) + Pace + 2 /\ Cost(Queued) \in Nat
      BY <1>4, <2>3, CostIs
    <3>2. CASE mgrPc = "pace"
      BY <3>1, <3>2, <2>1, <2>2 DEF StillToCome, Paced, AgeInv, AgeWaits
    <3>3. CASE mgrPc \in {"register", "wait"}
      BY <3>1, <3>3, <2>1, <2>2 DEF StillToCome, Paced, AgeInv, AgeWaits, CalledBack
    <3>4. CASE mgrPc \in {"swap", "retire", "end"}
      <4>1. due => late
        BY <3>4 DEF AgeInv, AgeWaits
      <4>2. Queued # 0 => Cost(Queued) = Cost(Queued - 1) + Pace + 2 /\ Cost(Queued - 1) \in Nat
        BY <1>4, CostIs
      <4> QED  BY <4>1, <4>2, <3>1, <3>4, <2>1, <2>2, <1>4 DEF StillToCome
    <3> QED  BY <2>3, <3>2, <3>3, <3>4 DEF InHand
  <2>4. CASE ~InHand
    <3>1. mgrPc \in {"recv", "display", "on"}
      BY <2>4 DEF InHand, AgeInv, AgeTypes
    <3>2. Queued # 0 => /\ Cost(Queued) = Cost(Queued - 1) + Pace + 2 /\ Cost(Queued - 1) \in Nat
                        /\ Cost(Queued) < DarkAge
      BY <1>4, CostIs
    <3>3. CASE mgrPc = "recv"
      BY <3>2, <3>3, <1>4, <1>5, <2>1, <2>2 DEF StillToCome, Paced, Idle
    <3>4. CASE mgrPc \in {"display", "on"}
      <4>1. due => late
        BY <3>4 DEF AgeInv, AgeWaits
      <4> QED  BY <4>1, <3>2, <3>4, <1>4, <2>1, <2>2 DEF StillToCome
    <3> QED  BY <3>1, <3>3, <3>4
  <2> QED  BY <2>3, <2>4
<1>6. AgeBound'
  BY <1>1, <1>3, <1>5, GfxNumbers DEF AgeBound, Idle
<1> QED  BY <1>2, <1>6 DEF AgeInv

(* A step of the manager leaves no more to come than before.                *)
LEMMA AgeMgr ==
  ASSUME AgeInv, taskMgrMQ \in Seq(Records), MgrStep
  PROVE  AgeInv'
<1>1. /\ ~due /\ ~due' /\ UNCHANGED <<schedPc, taskAge>>
      /\ late' <=> (late /\ mgrPc' \notin {"recv", "wait"})
  <2>1. PICK pc : MgrTo(pc)
    BY DEF MgrStep, MgrRecv, MgrPace, MgrRegister, MgrWoken, MgrSwap, MgrRetire, MgrDisplay, MgrOn, MgrEnd
  <2>2. mgrPc' = pc /\ ~due /\ due' = due /\ UNCHANGED <<schedPc, taskAge>>
    BY <2>1 DEF MgrTo, schedState
  <2>3. late' <=> (late /\ pc \notin {"recv", "wait"})
    BY <2>1, Zenon DEF MgrTo
  <2> QED  BY <2>2, <2>3
<1>2. /\ sinceSwap \in Nat /\ sinceSwap <= Pace /\ Pace \in Nat /\ Pace >= 1 /\ taskAge \in Nat
      /\ Queued \in Nat
  BY GfxNumbers, LenProperties DEF AgeInv, AgeTypes, Queued
<1>3. \A n \in Nat : Cost(n) \in Nat /\ Cost(n + 1) = Cost(n) + Pace + 2
  BY CostIs
<1>4. Since = sinceSwap /\ Since' = sinceSwap' /\ CalledBack = (client = "woken")
  BY <1>1 DEF Since, CalledBack
<1>5. Slack \in {0, 1} /\ Slack' \in {0, 1} /\ (late => Slack = 0) /\ (~late => Slack = 1)
      /\ (late' => Slack' = 0) /\ (~late' => Slack' = 1)
  BY DEF Slack
<1> DEFINE Fine == /\ sinceSwap' \in 0 .. Pace
                   /\ ~Idle' => ~Idle /\ StillToCome' <= StillToCome /\ StillToCome' \in Int /\ StillToCome \in Int
<1>6. CASE MgrRecv
  <2>1. /\ mgrPc = "recv" /\ mgrPc' \in {"pace", "end"} /\ Queued' = Queued - 1 /\ Queued >= 1
        /\ UNCHANGED <<sinceSwap, client>>
    BY <1>6, HeadTail DEF MgrRecv, MgrTo, Queued
  <2>2. Fine
    <3>1. (late' <=> late) /\ Slack' = Slack
      BY <1>1, <2>1 DEF Slack
    <3>2. Queued - 1 \in Nat /\ Cost(Queued - 1) \in Nat
          /\ (Queued - 1 # 0 => Cost(Queued - 1) = Cost(Queued - 1 - 1) + Pace + 2 /\ Cost(Queued - 1 - 1) \in Nat)
      <4>1. Queued - 1 \in Nat
        BY <1>2, <2>1
      <4> HIDE DEF Queued
      <4> QED  BY ONLY <4>1, CostIs
    <3> QED  BY <2>1, <3>1, <3>2, <1>2, <1>4, <1>5 DEF StillToCome, Paced, Idle
  <2>3. AgeTypes' /\ AgeWaits'
    BY <2>1, <1>1 DEF AgeInv, AgeTypes, AgeWaits
  <2> QED  BY <2>2, <2>3, <1>1, <1>2, GfxNumbers DEF AgeInv, AgeBound
<1>7. CASE MgrPace
  <2>1. mgrPc = "pace" /\ UNCHANGED <<client, taskMgrMQ>> /\ (late' <=> late)
    <3>1. mgrPc = "pace" /\ UNCHANGED <<client, taskMgrMQ>> /\ mgrPc' \in {"swap", "register"}
      BY <1>7 DEF MgrPace, MgrTo
    <3> QED  BY <3>1, <1>1
  <2>2. Queued' = Queued /\ Slack' = Slack
    BY <2>1 DEF Queued, Slack
  <2>3. CASE sinceSwap >= Pace
    <3>1. mgrPc' = "swap" /\ sinceSwap' = 0
      BY <2>3, <1>7 DEF MgrPace, MgrTo
    <3>2. Fine
      <4>1. Queued # 0 => Cost(Queued) = Cost(Queued - 1) + Pace + 2 /\ Cost(Queued - 1) \in Nat
        BY <1>2, CostIs
      <4>2. StillToCome = Slack + Cost(Queued) /\ Cost(Queued) \in Nat
        BY <2>1, <2>3, <1>2, <1>3, <1>4 DEF StillToCome, Paced
      <4>3. StillToCome' = IF Queued = 0 THEN Slack ELSE Pace + 2 + Cost(Queued - 1)
        BY <3>1, <2>2, <1>2, <1>4 DEF StillToCome
      <4> QED  BY <3>1, <4>1, <4>2, <4>3, <2>1, <1>2, <1>5 DEF Idle
    <3>3. AgeTypes' /\ AgeWaits'
      BY <3>1, <2>1, <1>1, <1>2 DEF AgeInv, AgeTypes, AgeWaits
    <3> QED  BY <3>2, <3>3, <1>1, <1>2, GfxNumbers DEF AgeInv, AgeBound
  <2>4. CASE sinceSwap < Pace
    <3>1. mgrPc' = "register" /\ sinceSwap' = sinceSwap
      BY <2>4, <1>2, <1>7 DEF MgrPace, MgrTo
    <3>2. Fine
      <4>1. StillToCome = Pace - sinceSwap + 2 + Cost(Queued) /\ Cost(Queued) \in Nat
        <5>1. StillToCome = Paced(Queued) /\ Cost(Queued) \in Nat
          BY <2>1, <1>2, <1>3 DEF StillToCome
        <5>2. Paced(Queued) = Pace - sinceSwap + 2 + Cost(Queued)
          BY <2>4, <1>2, <1>4 DEF Paced
        <5> QED  BY <5>1, <5>2
      <4>2. StillToCome' = Pace - sinceSwap + 2 + Cost(Queued)
        BY <3>1, <2>2, <1>4 DEF StillToCome
      <4>3. ~Idle
        BY <2>1 DEF Idle
      <4> HIDE DEF StillToCome, Queued, Idle
      <4> QED  BY <3>1, <4>1, <4>2, <4>3, <1>2
    <3>3. AgeTypes' /\ AgeWaits'
      BY <3>1, <2>1, <2>4, <1>1 DEF AgeInv, AgeTypes, AgeWaits
    <3> QED  BY <3>2, <3>3, <1>1, <1>2, GfxNumbers DEF AgeInv, AgeBound
  <2> QED  BY <2>3, <2>4, <1>2
<1>8. CASE MgrRegister
  <2>1. mgrPc = "register" /\ mgrPc' = "wait" /\ client' = "waiting" /\ UNCHANGED <<sinceSwap, taskMgrMQ>>
    BY <1>8 DEF MgrRegister, MgrTo
  <2>2. Fine
    <3>1. CalledBack' = FALSE /\ Queued' = Queued
      BY <2>1, <1>1 DEF CalledBack, Queued
    <3>2. StillToCome = Pace - sinceSwap + 2 + Cost(Queued)
      BY <2>1, <1>4 DEF StillToCome
    <3>3. StillToCome' = Pace - sinceSwap + 2 + Cost(Queued)
      BY <2>1, <3>1, <1>4 DEF StillToCome
    <3>4. ~Idle /\ Cost(Queued) \in Nat
      BY <2>1, <1>2, <1>3 DEF Idle
    <3> HIDE DEF StillToCome, Queued, Idle
    <3> QED  BY <2>1, <3>2, <3>3, <3>4, <1>2
  <2>3. AgeTypes' /\ AgeWaits'
    BY <2>1, <1>1 DEF AgeInv, AgeTypes, AgeWaits
  <2> QED  BY <2>2, <2>3, <1>1, <1>2, GfxNumbers DEF AgeInv, AgeBound
<1>9. CASE MgrWoken
  <2>1. mgrPc = "wait" /\ client = "woken" /\ mgrPc' = "pace" /\ client' = "none"
        /\ UNCHANGED <<sinceSwap, taskMgrMQ>> /\ (late' <=> late)
    <3>1. mgrPc = "wait" /\ client = "woken" /\ mgrPc' = "pace" /\ client' = "none"
          /\ UNCHANGED <<sinceSwap, taskMgrMQ>>
      BY <1>9 DEF MgrWoken, MgrTo
    <3> QED  BY <3>1, <1>1
  <2>2. Fine
    <3>1. CalledBack /\ Queued' = Queued /\ Slack' = Slack
      BY <2>1 DEF CalledBack, Queued, Slack
    <3>2. StillToCome = Paced(Queued) /\ ~Idle
      BY <2>1, <3>1 DEF StillToCome, Idle
    <3>3. StillToCome' = Paced(Queued)
      BY <2>1, <3>1, <1>4 DEF StillToCome, Paced
    <3>4. Cost(Queued) \in Nat
      BY <1>2, <1>3
    <3>5. Paced(Queued) \in Int
      BY <3>4, <1>2, <1>4, <1>5 DEF Paced
    <3> QED  BY <2>1, <3>2, <3>3, <3>5, <1>2
  <2>3. AgeTypes' /\ AgeWaits'
    BY <2>1, <1>1 DEF AgeInv, AgeTypes, AgeWaits
  <2> QED  BY <2>2, <2>3, <1>1, <1>2, GfxNumbers DEF AgeInv, AgeBound
<1>10. CASE MgrSwap \/ MgrRetire \/ MgrDisplay \/ MgrOn \/ MgrEnd
  <2>1. /\ mgrPc \in {"swap", "retire", "display", "on", "end"} /\ mgrPc' \in {"retire", "display", "on", "recv"}
        /\ UNCHANGED <<sinceSwap, client, taskMgrMQ>> /\ Queued' = Queued
    BY <1>10 DEF MgrSwap, MgrRetire, MgrDisplay, MgrOn, MgrEnd, MgrTo, Queued
  <2>2. Fine
    <3>1. Queued # 0 => Cost(Queued - 1) \in Nat
      BY <1>2, CostIs
    <3>2. mgrPc' # "recv" => Slack' = Slack
      BY <2>1, <1>1 DEF Slack
    <3>3. StillToCome = IF Queued = 0 THEN Slack
                        ELSE (IF sinceSwap >= Pace THEN Slack + 1 ELSE Pace - sinceSwap + 2) + Cost(Queued - 1)
      BY <2>1, <1>4 DEF StillToCome
    <3>4. CASE mgrPc' = "recv"
      <4>1. StillToCome' = (IF sinceSwap >= Pace THEN Slack' ELSE Pace - sinceSwap + 2) + Cost(Queued - 1)
        BY <2>1, <3>4, <1>4 DEF StillToCome, Paced
      <4>2. (Idle' <=> Queued = 0) /\ ~Idle
        BY <2>1, <3>4 DEF Idle
      <4>3. Slack' <= Slack + 1
        BY <1>5
      <4> HIDE DEF StillToCome, Queued, Idle, Slack
      <4> QED  BY <2>1, <4>1, <4>2, <4>3, <3>1, <3>3, <1>2, <1>5
    <3>5. CASE mgrPc' # "recv"
      <4>1. StillToCome' = StillToCome
        BY <2>1, <3>2, <3>3, <3>5, <1>4 DEF StillToCome
      <4>2. ~Idle
        BY <2>1 DEF Idle
      <4> HIDE DEF StillToCome, Queued, Idle, Slack
      <4> QED  BY <2>1, <4>1, <4>2, <3>1, <3>3, <1>2, <1>5
    <3> QED  BY <3>4, <3>5
  <2>3. AgeTypes' /\ AgeWaits'
    BY <2>1, <1>1 DEF AgeInv, AgeTypes, AgeWaits
  <2> QED  BY <2>2, <2>3, <1>1, <1>2, GfxNumbers DEF AgeInv, AgeBound
<1> QED  BY <1>6, <1>7, <1>8, <1>9, <1>10 DEF MgrStep

(* A retrace is one of those to come.                                      *)
LEMMA AgeRetrace ==
  ASSUME AgeInv, taskMgrMQ \in Seq(Records), Retrace_
  PROVE  AgeInv'
<1>1. /\ ~due /\ due' /\ (late => MgrBlocked) /\ (late' <=> ~MgrBlocked)
      /\ UNCHANGED <<schedPc, taskAge, sinceSwap, client, taskMgrMQ, mgrPc>>
  <2>1. UNCHANGED <<schedPc, taskAge, sinceSwap, client, taskMgrMQ, mgrPc>>
    BY DEF Retrace_, schedState, mgrState
  <2>2. ~due /\ due' /\ (late => MgrBlocked) /\ (late' <=> ~MgrBlocked)
    BY Zenon DEF Retrace_
  <2> QED  BY <2>1, <2>2
<1>2. /\ sinceSwap \in Nat /\ sinceSwap <= Pace /\ Pace \in Nat /\ Pace >= 1 /\ taskAge \in Nat
      /\ Queued \in Nat /\ Queued' = Queued
  BY <1>1, GfxNumbers, LenProperties DEF AgeInv, AgeTypes, Queued
<1>3. \A n \in Nat : Cost(n) \in Nat
  BY CostIs
<1>4. Since = sinceSwap /\ Since' = IF sinceSwap = Pace THEN Pace ELSE sinceSwap + 1
  BY <1>1, <1>2 DEF Since, Least
<1>5. (taskMgrMQ = <<>>) <=> Queued = 0
  BY EmptySeq, LenProperties DEF Queued
<1>6. AgeTypes' /\ AgeWaits'
  BY <1>1 DEF AgeInv, AgeTypes, AgeWaits, MgrBlocked
<1>7. ASSUME ~Idle PROVE StillToCome \in Int /\ StillToCome' \in Int /\ StillToCome' + 1 <= StillToCome
  <2>1. CASE mgrPc = "wait" /\ client = "waiting"
    <3>1. ~CalledBack /\ CalledBack' /\ Slack' = 1
      BY <2>1, <1>1 DEF CalledBack, Slack, MgrBlocked
    <3>2. StillToCome = Pace - sinceSwap + 2 + Cost(Queued)
      BY <2>1, <3>1, <1>4 DEF StillToCome
    <3>3. StillToCome' = (IF Since' >= Pace THEN 1 ELSE Pace - Since' + 2) + Cost(Queued)
      BY <2>1, <3>1, <1>1, <1>2 DEF StillToCome, Paced
    <3>4. Cost(Queued) \in Nat
      BY <1>2, <1>3
    <3> HIDE DEF StillToCome, Queued, Since
    <3> QED  BY <3>2, <3>3, <3>4, <1>2, <1>4
  <2>2. CASE ~(mgrPc = "wait" /\ client = "waiting")
    <3>1. ~MgrBlocked
      BY <2>2, <1>5, <1>7 DEF MgrBlocked, Idle, AgeInv, AgeTypes, AgeWaits
    <3>2. Slack = 1 /\ Slack' = 0 /\ ~late
      BY <3>1, <1>1 DEF Slack
    <3>3. CalledBack' = CalledBack
      BY <2>2, <1>1 DEF CalledBack, AgeInv, AgeWaits
    <3>4. Queued # 0 => Cost(Queued - 1) \in Nat
      BY <1>2, CostIs
    <3>5. CASE mgrPc \in {"pace", "register", "wait"}
      <4>1. Cost(Queued) \in Nat
        BY <1>2, <1>3
      <4>2. CASE mgrPc = "register"
        <5>1. StillToCome = Pace - sinceSwap + 2 + Cost(Queued)
          BY <4>2, <1>4 DEF StillToCome
        <5>2. StillToCome' = Pace - Since' + 2 + Cost(Queued)
          BY <4>2, <1>1, <1>2 DEF StillToCome
        <5>3. sinceSwap < Pace
          BY <4>2, <3>2 DEF AgeInv, AgeWaits
        <5> HIDE DEF StillToCome, Queued, Since
        <5> QED  BY <5>1, <5>2, <5>3, <4>1, <1>2, <1>4
      <4>3. CASE mgrPc # "register"
        <5>1. mgrPc = "wait" => CalledBack
          BY <2>2 DEF AgeInv, AgeWaits, CalledBack
        <5>2. StillToCome = (IF sinceSwap >= Pace THEN 1 ELSE Pace - sinceSwap + 2) + Cost(Queued)
          BY <4>3, <3>5, <5>1, <3>2, <1>4 DEF StillToCome, Paced
        <5>3. StillToCome' = (IF Since' >= Pace THEN 0 ELSE Pace - Since' + 2) + Cost(Queued)
          BY <4>3, <3>5, <5>1, <3>2, <3>3, <1>1, <1>2 DEF StillToCome, Paced
        <5> HIDE DEF StillToCome, Queued, Since
        <5> QED  BY <5>2, <5>3, <4>1, <1>2, <1>4
      <4> QED  BY <4>2, <4>3
    <3>6. CASE mgrPc = "recv"
      BY <3>2, <3>4, <3>6, <1>1, <1>2, <1>4, <1>7 DEF StillToCome, Paced, Idle
    <3>7. CASE mgrPc \notin {"pace", "register", "wait", "recv"}
      BY <3>2, <3>4, <3>7, <1>1, <1>2, <1>4 DEF StillToCome
    <3> QED  BY <3>5, <3>6, <3>7
  <2> QED  BY <2>1, <2>2
<1>8. Idle' = Idle
  BY <1>1, <1>2 DEF Idle
<1>9. AgeBound'
  BY <1>1, <1>2, <1>7, <1>8, GfxNumbers DEF AgeInv, AgeBound
<1> QED  BY <1>6, <1>9 DEF AgeInv

LEMMA AgeHandle ==
  ASSUME AgeInv, taskMgrMQ \in Seq(Records), NEW gate, HandleRetrace(gate)
  PROVE  AgeInv'
<1>1. /\ due /\ ~due' /\ sinceSwap' = Least(sinceSwap + 1, Pace)
      /\ client' = (IF client = "waiting" THEN "woken" ELSE client)
      /\ taskAge' = (IF schedPc = "run" THEN Least(taskAge + 1, DarkAge + 1) ELSE taskAge)
      /\ UNCHANGED <<schedPc, taskMgrMQ, mgrPc>> /\ (late' <=> late)
  <2>1. late' <=> late
    BY Zenon DEF HandleRetrace
  <2>2. due /\ ~due'
    BY Zenon DEF HandleRetrace
  <2> QED  BY <2>1, <2>2 DEF HandleRetrace, schedState, mgrState
<1>2. /\ sinceSwap \in Nat /\ sinceSwap <= Pace /\ Pace \in Nat /\ Pace >= 1 /\ taskAge \in Nat
      /\ DarkAge \in Nat
  BY GfxNumbers DEF AgeInv, AgeTypes
<1>3. Since' = Since /\ Slack' = Slack /\ Queued' = Queued
  BY <1>1 DEF Since, Slack, Queued
<1>4. mgrPc = "wait" => CalledBack' /\ CalledBack
  BY <1>1 DEF AgeInv, AgeWaits, CalledBack
<1>5. StillToCome' = StillToCome /\ Idle' = Idle
  BY <1>1, <1>3, <1>4 DEF StillToCome, Paced, Idle
<1>6. sinceSwap' \in 0 .. Pace /\ taskAge' \in Nat /\ (schedPc = "run" => taskAge' <= taskAge + 1)
  BY <1>1, <1>2 DEF Least
<1>7. AgeTypes' /\ AgeWaits'
  BY <1>1, <1>6 DEF AgeInv, AgeTypes, AgeWaits
<1>8. schedPc = "run" /\ ~Idle => StillToCome \in Int
  <2>1. Queued \in Nat
    BY LenProperties DEF Queued
  <2>2. \A n \in Nat : Cost(n) \in Nat
    BY CostIs
  <2>3. Since \in Int /\ Slack \in Int
    BY <1>2 DEF Since, Slack, Least
  <2>4. Queued # 0 => Cost(Queued - 1) \in Nat
    BY <2>1, CostIs
  <2>5. Pace - Since + 2 + Cost(Queued) \in Int /\ Paced(Queued) \in Int
    BY <2>1, <2>2, <2>3, <1>2 DEF Paced
  <2>6. ASSUME Queued # 0
        PROVE  Paced(Queued - 1) \in Int
               /\ (IF Since >= Pace THEN Slack + 1 ELSE Pace - Since + 2) + Cost(Queued - 1) \in Int
    BY <2>3, <2>4, <2>6, <1>2 DEF Paced
  <2> HIDE DEF Queued, Since, Slack, Paced
  <2> QED  BY <2>3, <2>5, <2>6 DEF StillToCome, Idle
<1>9. AgeBound'
  BY <1>1, <1>2, <1>5, <1>6, <1>8 DEF AgeInv, AgeBound
<1> QED  BY <1>7, <1>9 DEF AgeInv

-----------------------------------------------------------------------------
(* The display. The manager is between seeing the trigger and switching on  *)
(* with no retrace handled that could turn it off: the task running then is *)
(* not old enough.                                                          *)

DisplayTypes ==
  /\ appPc \in {"idle", "send", "black", "drain"} /\ display \in {"off", "trigger", "on"}
  /\ schedPc \in {"recv", "ready", "run", "post"}
LitOrReset == ~black \/ preNMIFlag = "BEFORE_RESET"
DisplayInv ==
  /\ DisplayTypes
  /\ display = "off" => appPc = "black" \/ black
  /\ display = "on" => LitOrReset
  /\ appPc = "black" => display = "off"
  /\ mgrPc = "on" => display = "trigger" /\ LitOrReset /\ appPc # "black"

LEMMA DisplayNext ==
  ASSUME DisplayInv, AgeInv, taskMgrMQ \in Seq(Records), GfxNext
  PROVE  DisplayInv'
<1>1. CASE \E swaps \in BOOLEAN : GfxTaskStart(swaps)
  <2>1. PICK swaps \in BOOLEAN : GfxTaskStart(swaps)
    BY <1>1
  <2>2. UNCHANGED <<display, black, mgrPc, schedPc, preNMIFlag>> /\ appPc = "idle" /\ appPc' = "send"
    BY <2>1 DEF GfxTaskStart, schedState, mgrState, resetState
  <2> QED  BY <2>2 DEF DisplayInv, LitOrReset, DisplayTypes
<1>2. CASE GfxTaskSend \/ GfxTaskAllEndWait \/ GfxTaskAllEnd
  <2>1. /\ UNCHANGED <<display, black, mgrPc, schedPc, preNMIFlag>> /\ appPc \in {"send", "idle", "drain"}
        /\ appPc' \in {"send", "idle", "drain"}
    BY <1>2 DEF GfxTaskSend, GfxTaskAllEndWait, GfxTaskAllEnd, AppElse, schedState, mgrState, resetState
  <2> QED  BY <2>1 DEF DisplayInv, LitOrReset, DisplayTypes
<1>3. CASE GfxDisplayOn \/ GfxDisplayOff \/ GfxDisplayBlack
  <2>1. mgrPc # "on" /\ UNCHANGED <<mgrPc, schedPc, preNMIFlag>>
    BY <1>3 DEF GfxDisplayOn, GfxDisplayOff, GfxDisplayBlack, AppRuns, MgrBlocked, AppElse, schedState, mgrState, resetState
  <2>2. CASE GfxDisplayOn
    BY <2>1, <2>2 DEF GfxDisplayOn, DisplayInv, LitOrReset, DisplayTypes
  <2>3. CASE GfxDisplayOff
    BY <2>1, <2>3 DEF GfxDisplayOff, DisplayInv, LitOrReset, DisplayTypes
  <2>4. CASE GfxDisplayBlack
    BY <2>1, <2>4 DEF GfxDisplayBlack, DisplayInv, LitOrReset, DisplayTypes
  <2> QED  BY <1>3, <2>2, <2>3, <2>4
<1>4. CASE SchedStep
  <2>1. UNCHANGED <<appPc, display, black, mgrPc, preNMIFlag>> /\ schedPc' \in {"recv", "ready", "run", "post"}
    BY <1>4 DEF SchedStep, SchedTake, SchedStart, SchedDone, SchedPost, SchedElse, appState, mgrState, resetState
  <2> QED  BY <2>1 DEF DisplayInv, LitOrReset, DisplayTypes
<1>5. CASE MgrDisplay
  <2>1. UNCHANGED <<appPc, schedPc, display, preNMIFlag>> /\ mgrPc = "display"
        /\ (IF display = "trigger" THEN mgrPc' = "on" /\ ~black' ELSE mgrPc' = "recv" /\ (black' <=> black))
    <3>1. UNCHANGED <<appPc, schedPc, display, preNMIFlag>> /\ mgrPc = "display"
          /\ (IF display = "trigger" THEN mgrPc' = "on" ELSE mgrPc' = "recv")
      BY <1>5 DEF MgrDisplay, MgrTo, schedState, resetState
    <3>2. (display = "trigger" => ~black') /\ (display # "trigger" => black' = black)
      BY <1>5, Zenon DEF MgrDisplay
    <3> QED  BY <3>1, <3>2
  <2> QED  BY <2>1 DEF DisplayInv, LitOrReset, DisplayTypes
<1>6. CASE MgrOn
  <2>1. UNCHANGED <<appPc, schedPc, black, preNMIFlag>> /\ mgrPc = "on" /\ mgrPc' = "recv" /\ display' = "on"
    BY <1>6 DEF MgrOn, MgrTo, schedState, resetState
  <2> QED  BY <2>1 DEF DisplayInv, LitOrReset, DisplayTypes
<1>7. CASE MgrRecv \/ MgrPace \/ MgrRegister \/ MgrWoken \/ MgrSwap \/ MgrRetire \/ MgrEnd
  <2>1. UNCHANGED <<appPc, schedPc, display, black, preNMIFlag>> /\ mgrPc' # "on"
    BY <1>7 DEF MgrRecv, MgrPace, MgrRegister, MgrWoken, MgrSwap, MgrRetire, MgrEnd, MgrTo, schedState, resetState
  <2> QED  BY <2>1 DEF DisplayInv, LitOrReset, DisplayTypes
<1>8. CASE Retrace_
  <2>1. UNCHANGED <<appPc, schedPc, display, black, mgrPc, preNMIFlag>>
    BY <1>8 DEF Retrace_, appState, schedState, mgrState, resetState
  <2> QED  BY <2>1 DEF DisplayInv, LitOrReset, DisplayTypes
<1>9. CASE HandlePreNmi
  <2>1. UNCHANGED <<appPc, schedPc, display, black, mgrPc>> /\ preNMIFlag # "BEFORE_RESET"
    BY <1>9 DEF HandlePreNmi, appState, schedState, mgrState
  <2> QED  BY <2>1 DEF DisplayInv, LitOrReset, DisplayTypes
<1>10. CASE \E gate \in BOOLEAN : HandleRetrace(gate)
  <2> PICK gate \in BOOLEAN : HandleRetrace(gate)
    BY <1>10
  <2> DEFINE dark == schedPc = "run" /\ taskAge' = DarkAge /\ ~gate
             over == preNMIFlag # "YET" /\ beforeResetFrame = 0
  <2>1. /\ UNCHANGED <<appPc, schedPc, mgrPc>> /\ due
        /\ display' = (IF dark THEN "off" ELSE display)
        /\ preNMIFlag' = (IF over THEN "BEFORE_RESET" ELSE preNMIFlag)
    <3>1. due
      BY Zenon DEF HandleRetrace
    <3> QED  BY <3>1 DEF HandleRetrace, appState, schedState, mgrState
  <2>2. black' <=> black \/ dark \/ over
    BY Zenon DEF HandleRetrace
  <2> HIDE DEF dark, over
  <2>3. CASE ~dark
    <3>1. LitOrReset => LitOrReset'
      BY <2>1, <2>2, <2>3 DEF LitOrReset
    <3> QED  BY <2>1, <2>2, <2>3, <3>1 DEF DisplayInv, DisplayTypes
  <2>4. CASE dark
    <3>1. display' = "off" /\ black' /\ schedPc = "run" /\ taskAge' = DarkAge
      BY <2>1, <2>2, <2>4 DEF dark
    <3>2. ASSUME mgrPc = "on" PROVE FALSE
      <4>1. taskAge + 1 + StillToCome < DarkAge
        BY <2>1, <3>1, <3>2 DEF AgeInv, AgeBound, Idle
      <4>2. Queued \in Nat /\ (Queued # 0 => Cost(Queued - 1) \in Nat)
        <5>1. Queued \in Nat
          BY LenProperties DEF Queued
        <5> QED  BY <5>1, CostIs
      <4>3. sinceSwap \in Nat /\ sinceSwap <= Pace /\ taskAge \in Nat
        BY GfxNumbers DEF AgeInv, AgeTypes
      <4>4. Since \in Nat /\ Since <= Pace /\ Slack \in {0, 1}
        BY <4>3, GfxNumbers DEF Since, Least, Slack
      <4>5. StillToCome = IF Queued = 0 THEN Slack
                          ELSE (IF Since >= Pace THEN Slack + 1 ELSE Pace - Since + 2) + Cost(Queued - 1)
        BY <3>2 DEF StillToCome
      <4>6. StillToCome >= 0 /\ StillToCome \in Int
        <5> HIDE DEF StillToCome, Queued, Since, Slack
        <5> QED  BY <4>2, <4>4, <4>5, GfxNumbers
      <4>7. taskAge' <= taskAge + 1 /\ taskAge' \in Nat
        BY <3>1, <4>3, GfxNumbers DEF HandleRetrace, Least
      <4> HIDE DEF StillToCome
      <4> QED  BY <4>1, <4>3, <4>6, <4>7, <3>1, GfxNumbers
    <3> QED  BY <2>1, <3>1, <3>2 DEF DisplayInv, LitOrReset, DisplayTypes
  <2> QED  BY <2>3, <2>4
<1> QED  BY <1>1, <1>2, <1>3, <1>4, <1>5, <1>6, <1>7, <1>8, <1>9, <1>10 DEF GfxNext, AppCall, AppStep, MgrStep,
         HandlerStep

-----------------------------------------------------------------------------
(* All of it together.                                                     *)

GfxIInv == RingInv /\ FrameInv /\ PacedSwaps /\ ContentInv /\ AgeInv /\ DisplayInv

LEMMA GfxIInvInit == GfxInit => GfxIInv
<1> SUFFICES ASSUME GfxInit PROVE GfxIInv
  OBVIOUS
<1>1. RingInv /\ ContentInv /\ AgeInv
  BY RingInit, ContentInit, AgeInit
<1>2. FrameInv /\ PacedSwaps
  <2>1. record = [r \in Records |-> Blank] /\ frame = 0 /\ appPc = "idle" /\ mgrPc = "recv"
    BY DEF GfxInit
  <2>2. Oldest = 0 /\ Newest = 1
    BY DEF GfxInit, Newest, Oldest, Finished, Taken, Asked, InHand, Num
  <2>3. 0 \in Frames
    BY GfxNumbers DEF Frames
  <2>4. record \in [Records -> [frame : Frames, swaps : BOOLEAN]]
    BY <2>1, <2>3 DEF Blank
  <2> QED  BY <2>1, <2>2, <2>3, <2>4 DEF FrameInv, PacedSwaps
<1>3. DisplayInv
  <2>1. black
    BY Zenon DEF GfxInit
  <2> QED  BY <2>1 DEF GfxInit, DisplayInv, DisplayTypes
<1> QED  BY <1>1, <1>2, <1>3 DEF GfxIInv

LEMMA GfxIInvNext == GfxIInv /\ GfxNext => GfxIInv'
<1> SUFFICES ASSUME GfxIInv, GfxNext PROVE GfxIInv'
  OBVIOUS
<1>1. RingInv /\ FrameInv /\ PacedSwaps /\ ContentInv /\ AgeInv /\ DisplayInv
      /\ taskMgrMQ \in Seq(Records) /\ taskAge \in Nat
  BY DEF GfxIInv, RingInv, RingTypes, AgeInv, AgeTypes
<1>2. PacedSwaps' /\ DisplayInv'
  BY <1>1, PacedNext, DisplayNext
<1>3. CASE \E swaps \in BOOLEAN : GfxTaskStart(swaps)
  <2>1. PICK swaps \in BOOLEAN : GfxTaskStart(swaps)
    BY <1>3
  <2>2. /\ UNCHANGED <<sinceSwap, due, late, mgrPc, client, schedPc, taskAge, taskMgrMQ>>
    BY <2>1 DEF GfxTaskStart, schedState, mgrState
  <2>3. AgeInv'
    BY <2>2, <1>1, AgeSame
  <2> QED  BY <2>1, <2>3, <1>1, <1>2, RingStart, FrameStart, ContentStart DEF GfxIInv
<1>4. CASE GfxTaskSend
  <2>1. UNCHANGED <<sinceSwap, due, late, mgrPc, client, schedPc, taskAge, taskMgrMQ>>
    BY <1>4 DEF GfxTaskSend, schedState, mgrState
  <2>2. AgeInv'
    BY <2>1, <1>1, AgeSame
  <2> QED  BY <2>2, <1>1, <1>2, <1>4, RingSend, FrameSend, ContentSend DEF GfxIInv
<1>5. CASE GfxDisplayOn \/ GfxDisplayOff \/ GfxTaskAllEndWait \/ GfxDisplayBlack \/ GfxTaskAllEnd
  <2>1. /\ UNCHANGED <<record, recordPtr, frame, spool, requestMQ, schedPc, curTask, content, taskAge, taskMgrMQ,
                       mgrPc, mgrTask, sinceSwap, client, due, late, scan, preNMIFlag>>
        /\ appPc # "send" /\ appPc' # "send"
    BY <1>5 DEF GfxDisplayOn, GfxDisplayOff, GfxTaskAllEndWait, GfxDisplayBlack, GfxTaskAllEnd, AppElse,
       schedState, mgrState, resetState
  <2>2. UNCHANGED RingVars /\ InHand' = InHand /\ (appPc = "send")' = (appPc = "send")
        /\ (schedPc = "recv")' = (schedPc = "recv")
    BY <2>1 DEF RingVars, InHand
  <2>3. RingInv' /\ Taken' = Taken /\ Oldest' = Oldest
    BY <2>2, <1>1, RingSame
  <2>4. Newest' = Newest
    BY <2>1 DEF Newest
  <2>5. FrameInv'
    BY <2>1, <2>3, <2>4, <1>1, FrameSame
  <2>6. ContentInv'
    <3>1. UNCHANGED ContentVars
      BY <2>1 DEF ContentVars
    <3>2. \A m \in Taken' + 1 .. Oldest' : m \in Taken + 1 .. Oldest /\ Task(m)' = Task(m)
      BY <2>1, <2>3 DEF Task
    <3>3. record[curTask]' = record[curTask]
      BY <2>1
    <3> QED  BY <3>1, <3>2, <3>3, <1>1, ContentSame
  <2>7. AgeInv'
    BY <2>1, <1>1, AgeSame
  <2> QED  BY <2>3, <2>5, <2>6, <2>7, <1>2 DEF GfxIInv
<1>6. CASE SchedStep
  <2>1. /\ UNCHANGED <<record, recordPtr, frame, appPc, spool, mgrPc, mgrTask, sinceSwap, client, due, late, scan,
                       preNMIFlag>>
    BY <1>6 DEF SchedStep, SchedTake, SchedStart, SchedDone, SchedPost, SchedElse, appState, mgrState, resetState
  <2>2. CASE SchedTake
    <3>1. schedPc' # "run" /\ taskAge' \in Nat
      BY <2>2, <1>1 DEF SchedTake
    <3>2. RingInv' /\ Oldest' = Oldest /\ Newest' = Newest
      BY <2>2, <2>1, <1>1, RingTake DEF Newest
    <3>3. FrameInv'
      BY <3>2, <2>1, <1>1, FrameSame
    <3>4. AgeInv'
      BY <3>1, <2>1, <1>1, AgeSame
    <3> QED  BY <3>2, <3>3, <3>4, <2>2, <1>1, <1>2, ContentTake DEF GfxIInv
  <2>3. CASE SchedStart
    <3>1. UNCHANGED RingVars /\ InHand' = InHand /\ (appPc = "send")' = (appPc = "send")
          /\ (schedPc = "recv")' = (schedPc = "recv")
      BY <2>3, <2>1 DEF SchedStart, RingVars, InHand
    <3>2. RingInv' /\ Oldest' = Oldest /\ Newest' = Newest
      BY <3>1, <2>1, <1>1, RingSame DEF Newest
    <3>3. FrameInv'
      BY <3>2, <2>1, <1>1, FrameSame
    <3> QED  BY <3>2, <3>3, <2>3, <1>1, <1>2, ContentDraw, AgeStart DEF GfxIInv
  <2>4. CASE SchedDone
    <3>1. UNCHANGED RingVars /\ InHand' = InHand /\ (appPc = "send")' = (appPc = "send")
          /\ (schedPc = "recv")' = (schedPc = "recv")
      BY <2>4, <2>1 DEF SchedDone, RingVars, InHand
    <3>2. RingInv' /\ Taken' = Taken /\ Oldest' = Oldest /\ Newest' = Newest
      BY <3>1, <2>1, <1>1, RingSame DEF Newest
    <3>3. FrameInv'
      BY <3>2, <2>1, <1>1, FrameSame
    <3>4. schedPc = "run" /\ schedPc' = "post" /\ taskAge' = 0 /\ UNCHANGED <<curTask, content>>
      BY <2>4 DEF SchedDone
    <3>5. ContentInv'
      <4>1. \A m \in Taken' + 1 .. Oldest' : m \in Taken + 1 .. Oldest /\ Task(m)' = Task(m)
        BY <2>1, <3>2 DEF Task
      <4> QED  BY <4>1, <3>2, <3>4, <2>1, <1>1 DEF ContentInv, ContentTypes, Scanned, Shows, DrawnWhole
    <3>6. AgeInv'
      BY <3>4, <2>1, <1>1, AgeSame
    <3> QED  BY <3>2, <3>3, <3>5, <3>6, <1>2 DEF GfxIInv
  <2>5. CASE SchedPost
    <3>1. schedPc' # "run" /\ taskAge' \in Nat
      BY <2>5, <1>1 DEF SchedPost
    <3>2. RingInv' /\ Oldest' = Oldest /\ Newest' = Newest
      BY <2>5, <2>1, <1>1, RingPost DEF Newest
    <3>3. FrameInv'
      BY <3>2, <2>1, <1>1, FrameSame
    <3>4. AgeInv'
      BY <3>1, <2>1, <1>1, AgeSame
    <3> QED  BY <3>2, <3>3, <3>4, <2>5, <1>1, <1>2, ContentPost DEF GfxIInv
  <2> QED  BY <1>6, <2>2, <2>3, <2>4, <2>5 DEF SchedStep
<1>7. CASE MgrStep
  <2>1. AgeInv'
    BY <1>7, <1>1, AgeMgr
  <2>2. UNCHANGED <<recordPtr, frame, appPc, requestMQ, schedPc, curTask, content, taskAge, preNMIFlag>>
    BY <1>7 DEF MgrStep, MgrRecv, MgrPace, MgrRegister, MgrWoken, MgrSwap, MgrRetire, MgrDisplay, MgrOn, MgrEnd,
       MgrTo, schedState, resetState
  <2>3. Newest' = Newest
    BY <2>2 DEF Newest
  <2>4. CASE MgrRecv
    <3>1. RingInv' /\ Taken' = Taken /\ Oldest' = Oldest /\ record' = record /\ scan' = scan
      BY <2>4, <1>1, RingRecv DEF MgrRecv
    <3>2. FrameInv'
      BY <3>1, <2>2, <2>3, <1>1, FrameSame
    <3>3. ContentInv'
      <4>1. UNCHANGED ContentVars /\ record[curTask]' = record[curTask]
        BY <3>1, <2>2 DEF ContentVars
      <4>2. \A m \in Taken' + 1 .. Oldest' : m \in Taken + 1 .. Oldest /\ Task(m)' = Task(m)
        BY <2>2, <3>1 DEF Task
      <4> QED  BY <4>1, <4>2, <1>1, ContentSame
    <3> QED  BY <3>1, <3>2, <3>3, <2>1, <1>2 DEF GfxIInv
  <2>5. CASE MgrRetire \/ MgrEnd
    BY <2>5, <2>1, <1>1, <1>2, RingRetire, FrameRetire, ContentRetire DEF GfxIInv
  <2>6. CASE MgrSwap \/ MgrPace \/ MgrRegister \/ MgrWoken \/ MgrDisplay \/ MgrOn
    <3>1. /\ UNCHANGED <<record, mgrTask, taskMgrMQ, spool>>
          /\ \/ mgrPc \in {"swap", "pace", "register", "wait"} /\ mgrPc' \in {"retire", "swap", "register", "wait", "pace"}
             \/ mgrPc \in {"display", "on"} /\ mgrPc' \in {"on", "recv"}
      BY <2>6 DEF MgrSwap, MgrPace, MgrRegister, MgrWoken, MgrDisplay, MgrOn, MgrTo
    <3>2. UNCHANGED RingVars /\ InHand' = InHand /\ (appPc = "send")' = (appPc = "send")
          /\ (schedPc = "recv")' = (schedPc = "recv")
      BY <3>1, <2>2 DEF RingVars, InHand
    <3>3. RingInv' /\ Taken' = Taken /\ Oldest' = Oldest
      BY <3>2, <1>1, RingSame
    <3>4. FrameInv'
      BY <3>1, <3>3, <2>2, <2>3, <1>1, FrameSame
    <3>5. ContentInv'
      <4>1. CASE MgrSwap
        BY <4>1, <1>1, ContentSwap
      <4>2. CASE ~MgrSwap
        <5>1. scan' = scan
          BY <4>2, <2>6 DEF MgrPace, MgrRegister, MgrWoken, MgrDisplay, MgrOn
        <5>2. UNCHANGED ContentVars /\ record[curTask]' = record[curTask]
          BY <5>1, <3>1, <2>2 DEF ContentVars
        <5>3. \A m \in Taken' + 1 .. Oldest' : m \in Taken + 1 .. Oldest /\ Task(m)' = Task(m)
          BY <2>2, <3>1, <3>3 DEF Task
        <5> QED  BY <5>2, <5>3, <1>1, ContentSame
      <4> QED  BY <4>1, <4>2
    <3> QED  BY <3>3, <3>4, <3>5, <2>1, <1>2 DEF GfxIInv
  <2> QED  BY <1>7, <2>4, <2>5, <2>6 DEF MgrStep
<1>8. CASE Retrace_ \/ HandlerStep
  <2>1. UNCHANGED <<record, recordPtr, frame, appPc, spool, requestMQ, schedPc, curTask, content, taskMgrMQ,
                    mgrPc, mgrTask>>
    BY <1>8 DEF Retrace_, HandlerStep, HandlePreNmi, HandleRetrace, appState, schedState, mgrState
  <2>2. UNCHANGED RingVars /\ InHand' = InHand /\ (appPc = "send")' = (appPc = "send")
        /\ (schedPc = "recv")' = (schedPc = "recv")
    BY <2>1 DEF RingVars, InHand
  <2>3. RingInv' /\ Taken' = Taken /\ Oldest' = Oldest /\ Newest' = Newest
    BY <2>1, <2>2, <1>1, RingSame DEF Newest
  <2>4. FrameInv'
    BY <2>1, <2>3, <1>1, FrameSame
  <2>5. CASE Retrace_ \/ \E gate \in BOOLEAN : HandleRetrace(gate)
    <3>1. ContentInv'
      BY <2>5, <2>3, <1>1, ContentRetrace, ContentHandle
    <3>2. AgeInv'
      BY <2>5, <1>1, AgeRetrace, AgeHandle
    <3> QED  BY <2>3, <2>4, <3>1, <3>2, <1>2 DEF GfxIInv
  <2>6. CASE HandlePreNmi
    <3>1. UNCHANGED <<scan, taskAge, sinceSwap, client, due, late>>
          /\ preNMIFlag # "BEFORE_RESET" /\ preNMIFlag' # "BEFORE_RESET"
      BY <2>6 DEF HandlePreNmi
    <3>2. ContentInv'
      BY <3>1, <2>1, <2>3, <1>1 DEF ContentInv, ContentTypes, Scanned, Shows, DrawnWhole, Task, CfbFree
    <3>3. AgeInv'
      BY <3>1, <2>1, <1>1, AgeSame
    <3> QED  BY <2>3, <2>4, <3>2, <3>3, <1>2 DEF GfxIInv
  <2> QED  BY <1>8, <2>5, <2>6 DEF HandlerStep
<1> QED  BY <1>3, <1>4, <1>5, <1>6, <1>7, <1>8 DEF GfxNext, AppCall, AppStep

-----------------------------------------------------------------------------
(* The tasks in flight as one sequence, oldest first.                      *)

(* s holds the records from n places before p on.                          *)
CountsDown(s, p, n) == s \in Seq(Records) /\ \A i \in 1 .. Len(s) : s[i] = Back(p, n + 1 - i)

LEMMA Joined ==
  ASSUME NEW p, NEW n \in Nat, NEW s, NEW t, NEW m \in Nat, CountsDown(s, p, n), CountsDown(t, p, m),
         n = m + Len(s)
  PROVE  CountsDown(s \o t, p, n) /\ Len(s \o t) = Len(s) + Len(t)
<1>1. s \in Seq(Records) /\ t \in Seq(Records) /\ Len(s) \in Nat /\ Len(t) \in Nat
  BY LenProperties DEF CountsDown
<1>2. /\ s \o t \in Seq(Records) /\ Len(s \o t) = Len(s) + Len(t)
      /\ \A i \in 1 .. Len(s) + Len(t) : (s \o t)[i] = IF i <= Len(s) THEN s[i] ELSE t[i - Len(s)]
  BY <1>1, ConcatProperties
<1>3. ASSUME NEW i \in 1 .. Len(s \o t) PROVE (s \o t)[i] = Back(p, n + 1 - i)
  <2>1. CASE i <= Len(s)
    BY <2>1, <1>1, <1>2 DEF CountsDown
  <2>2. CASE ~(i <= Len(s))
    <3>1. i - Len(s) \in 1 .. Len(t) /\ m + 1 - (i - Len(s)) = n + 1 - i
      <4>1. i \in Nat /\ i > Len(s) /\ i <= Len(s) + Len(t) /\ Len(s) \in Nat /\ Len(t) \in Nat
        BY <2>2, <1>1, <1>2
      <4> QED  BY ONLY <4>1, n = m + Len(s), m \in Nat
    <3>2. t[i - Len(s)] = Back(p, m + 1 - (i - Len(s)))
      BY <3>1 DEF CountsDown
    <3> QED  BY <2>2, <3>1, <3>2, <1>2
  <2> QED  BY <2>1, <2>2
<1> QED  BY <1>2, <1>3 DEF CountsDown

LEMMA InFlightIs ==
  ASSUME RingInv
  PROVE  CountsDown(InFlight, recordPtr, Oldest) /\ Len(InFlight) = spool
<1> DEFINE held == MgrHolds
           working == IF curTask = NoTask THEN <<>> ELSE <<curTask>>
           sent == IF appPc = "send" THEN <<recordPtr>> ELSE <<>>
<1>1. /\ Len(requestMQ) \in Nat /\ Len(taskMgrMQ) \in Nat
      /\ Asked \in Nat /\ Taken \in Nat /\ Finished \in Nat /\ Oldest \in Nat /\ recordPtr \in Records
  BY RingCounts DEF RingInv, RingTypes
<1>2. CountsDown(held, recordPtr, Oldest) /\ Len(held) = Num(InHand)
  <2>1. CASE InHand
    <3>1. held = <<mgrTask>> /\ mgrTask = Back(recordPtr, Oldest)
      BY <2>1 DEF RingInv, RingPlaces, InHand, MgrHolds
    <3>2. mgrTask \in Records
      BY <3>1, <1>1, BackIs, RingCounts, GfxNumbers DEF RingInv
    <3> QED  BY <3>1, <3>2, <2>1, <1>1 DEF CountsDown, Num
  <2>2. CASE ~InHand
    BY <2>2 DEF MgrHolds, InHand, CountsDown, Num
  <2> QED  BY <2>1, <2>2
<1>3. CountsDown(taskMgrMQ, recordPtr, Finished)
  BY DEF RingInv, RingTypes, RingPlaces, CountsDown
<1>4. CountsDown(working, recordPtr, Taken) /\ Len(working) = Num(curTask # NoTask)
  <2>1. CASE curTask # NoTask
    BY <2>1, <1>1 DEF RingInv, RingTypes, RingPlaces, CountsDown, Num
  <2>2. CASE curTask = NoTask
    BY <2>2 DEF CountsDown, Num
  <2> QED  BY <2>1, <2>2
<1>5. CountsDown(requestMQ, recordPtr, Asked)
  BY DEF RingInv, RingTypes, RingPlaces, CountsDown
<1>6. CountsDown(sent, recordPtr, 0) /\ Len(sent) = Num(appPc = "send")
  <2>1. Back(recordPtr, 0) = recordPtr
    BY <1>1, BackIs, GfxNumbers
  <2>2. CASE appPc = "send"
    BY <2>1, <2>2, <1>1 DEF CountsDown, Num
  <2>3. CASE appPc # "send"
    BY <2>3 DEF CountsDown, Num
  <2> QED  BY <2>2, <2>3
<1>7. InFlight = held \o taskMgrMQ \o working \o requestMQ \o sent
  BY DEF InFlight
<1>8. /\ Oldest = Finished + Len(held) /\ Finished = Taken + Len(taskMgrMQ)
      /\ Taken = Asked + Len(working) /\ Asked = Len(requestMQ) /\ spool = Oldest + Len(sent)
  <2>1. Oldest = Finished + Num(InHand) /\ Finished = Taken + Len(taskMgrMQ)
    BY DEF Oldest, Finished
  <2>2. Taken = Asked + Num(curTask # NoTask) /\ Asked = Len(requestMQ) /\ spool = Oldest + Num(appPc = "send")
    BY DEF RingInv, RingTypes, Taken, Asked
  <2> QED  BY <2>1, <2>2, <1>2, <1>4, <1>6, Zenon
<1>9. Len(held) \in Nat /\ Len(working) \in Nat /\ Len(sent) \in Nat
  BY <1>2, <1>4, <1>6, LenProperties DEF CountsDown
<1> DEFINE two == held \o taskMgrMQ
           three == two \o working
           four == three \o requestMQ
           five == four \o sent
<1> HIDE DEF held, working, sent
<1>10. CountsDown(two, recordPtr, Oldest) /\ Len(two) = Len(held) + Len(taskMgrMQ)
  <2>1. Oldest = Finished + Len(held)
    BY <1>8
  <2> QED  BY ONLY <2>1, <1>1, <1>2, <1>3, Joined
<1> HIDE DEF two
<1>11. CountsDown(three, recordPtr, Oldest) /\ Len(three) = Len(two) + Len(working)
  <2>1. Oldest = Taken + Len(two)
    BY ONLY <1>1, <1>8, <1>9, <1>10
  <2> QED  BY ONLY <2>1, <1>1, <1>4, <1>10, Joined
<1> HIDE DEF three
<1>12. CountsDown(four, recordPtr, Oldest) /\ Len(four) = Len(three) + Len(requestMQ)
  <2>1. Oldest = Asked + Len(three)
    BY ONLY <1>1, <1>8, <1>9, <1>10, <1>11
  <2> QED  BY ONLY <2>1, <1>1, <1>5, <1>11, Joined
<1> HIDE DEF four
<1>13. CountsDown(five, recordPtr, Oldest) /\ Len(five) = Len(four) + Len(sent)
  <2>1. Oldest = 0 + Len(four) /\ 0 \in Nat
    BY ONLY <1>1, <1>8, <1>9, <1>10, <1>11, <1>12
  <2> QED  BY ONLY <2>1, <1>1, <1>6, <1>12, Joined
<1> HIDE DEF five
<1>14. Len(five) = spool
  BY ONLY <1>1, <1>8, <1>9, <1>10, <1>11, <1>12, <1>13
<1>15. InFlight = five
  BY <1>7 DEF two, three, four, five
<1> QED  BY <1>13, <1>14, <1>15

LEMMA DistinctCount ==
  ASSUME NEW S, NEW s \in Seq(S), \A i, j \in 1 .. Len(s) : s[i] = s[j] => i = j
  PROVE  Cardinality({s[i] : i \in DOMAIN s}) = Len(s)
<1> DEFINE T == {s[i] : i \in DOMAIN s}
<1>1. Len(s) \in Nat /\ DOMAIN s = 1 .. Len(s) /\ s \in [1 .. Len(s) -> S]
  BY LenProperties
<1>2. s \in Bijection(1 .. Len(s), T)
  <2>1. s \in [1 .. Len(s) -> T]
    BY <1>1
  <2>2. \A t \in T : \E i \in 1 .. Len(s) : s[i] = t
    BY <1>1
  <2> QED  BY <2>1, <2>2, <1>1 DEF Bijection, Injection, Surjection, IsInjective
<1>3. IsFiniteSet(1 .. Len(s)) /\ Cardinality(1 .. Len(s)) = Len(s)
  BY <1>1, FS_Interval
<1> HIDE DEF T
<1>4. Cardinality(T) = Cardinality(1 .. Len(s))
  BY <1>2, <1>3, FS_Bijection DEF ExistsBijection
<1> QED  BY <1>3, <1>4 DEF T

LEMMA InvSpoolCounts ==
  ASSUME RingInv
  PROVE  SpoolCounts
<1>1. InFlight \in Seq(Records) /\ Len(InFlight) = spool
      /\ \A i \in 1 .. Len(InFlight) : InFlight[i] = Back(recordPtr, Oldest + 1 - i)
  BY InFlightIs DEF CountsDown
<1>2. ASSUME NEW i \in 1 .. Len(InFlight), NEW j \in 1 .. Len(InFlight), InFlight[i] = InFlight[j]
      PROVE  i = j
  <2>1. spool \in 0 .. GfxPending /\ spool <= Oldest + 1 /\ Oldest \in Nat /\ Oldest <= GfxPending
        /\ recordPtr \in Records
    BY RingCounts, GfxNumbers DEF RingInv, RingTypes, Num
  <2>2. Oldest + 1 - i \in 0 .. GfxPending /\ Oldest + 1 - j \in 0 .. GfxPending /\ i \in Int /\ j \in Int
    BY <2>1, <1>1, GfxNumbers
  <2>3. Back(recordPtr, Oldest + 1 - i) = Back(recordPtr, Oldest + 1 - j)
    BY <1>1, <1>2
  <2>4. Oldest + 1 - i = Oldest + 1 - j
    BY <2>1, <2>2, <2>3, BackIs
  <2> QED  BY <2>1, <2>2, <2>4
<1>3. Cardinality({InFlight[i] : i \in DOMAIN InFlight}) = Len(InFlight)
  BY <1>1, <1>2, DistinctCount
<1> QED  BY <1>1, <1>3 DEF SpoolCounts

(* The invariant says of the buffers and of the display what GfxInv does.  *)
LEMMA GfxInvHolds == GfxIInv => GfxInv
<1> SUFFICES ASSUME GfxIInv PROVE GfxInv
  OBVIOUS
<1>1. RingInv /\ FrameInv /\ PacedSwaps /\ ContentInv /\ AgeInv /\ DisplayInv
  BY DEF GfxIInv
<1>2. SpoolCounts
  BY <1>1, InvSpoolCounts
<1>3. FramesWhole
  <2>1. \A f \in {scan.curr, scan.next} \ {NoFrame} : DrawnWhole(f)
    BY <1>1 DEF ContentInv, Scanned, Shows
  <2>2. ASSUME mgrPc = "swap" PROVE Shows(record[mgrTask].frame)
    <3>1. InHand
      BY <2>2 DEF InHand
    <3>2. Oldest \in Taken + 1 .. Oldest /\ record[mgrTask] = Task(Oldest)
      BY <3>1, <1>1, MgrTaskIs
    <3> QED  BY <3>2, <1>1 DEF ContentInv
  <2> QED  BY <2>1, <2>2, <1>1 DEF FramesWhole, ContentInv, Shows
<1>4. DisplayAgrees
  BY <1>1 DEF DisplayInv, LitOrReset, DisplayAgrees
<1> QED  BY <1>2, <1>3, <1>4 DEF GfxInv

(* nuGfxTaskSpool counts the tasks in flight, whose records differ; a      *)
(* buffer that is on the screen, or will be, holds the frame drawn into it *)
(* whole, until a reset sends tasks back undrawn, and is never drawn to in *)
(* time; and the screen is black when the display is off, and when it is   *)
(* on only in the before-reset state.                                      *)
THEOREM GfxAlways == GfxSpec => []GfxInv
<1>1. GfxInit => GfxIInv
  BY GfxIInvInit
<1>2. GfxIInv /\ [GfxNext]_gfxVars => GfxIInv'
  <2>1. CASE UNCHANGED gfxVars
    <3>1. ASSUME GfxIInv, UNCHANGED gfxVars PROVE GfxIInv'
      <4>1. /\ UNCHANGED <<record, recordPtr, frame, appPc, spool, requestMQ, schedPc, curTask, content, taskAge,
                           taskMgrMQ, mgrPc, mgrTask, sinceSwap, client, due, late, scan, black, display, preNMIFlag>>
        BY <3>1 DEF gfxVars, appState, schedState, mgrState, resetState
      <4>2. GfxIInv' = GfxIInv
        BY <4>1 DEF GfxIInv, RingInv, RingTypes, RingPlaces, Asked, Taken, Finished, Oldest, InHand,
           FrameInv, Task, Newest, PacedSwaps, ContentInv, ContentTypes, Scanned, Shows, DrawnWhole, CfbFree,
           AgeInv, AgeTypes, AgeWaits, AgeBound, Idle, Queued, Since, CalledBack, Slack, Paced, StillToCome,
           DisplayInv, LitOrReset, DisplayTypes
      <4> QED  BY <4>2, <3>1
    <3> QED  BY <2>1, <3>1
  <2> QED  BY <2>1, GfxIInvNext
<1>3. GfxIInv => GfxInv
  BY GfxInvHolds
<1> QED  BY <1>1, <1>2, <1>3, PTL DEF GfxSpec
================================================================================
