-------------------------------- MODULE OsTimer --------------------------------
(***************************************************************************)
(* libultra's timers (settimer.c, timerintr.c): a list of timers, each with*)
(* the cycles between the timer before it and itself, driven by the compare*)
(* interrupt of the CPU counter.                                           *)
(*                                                                         *)
(* The counter goes on at any time.  osSetTimer masks interrupts while it  *)
(* changes the list and while it programs the compare register, and can be *)
(* interrupted and preempted between the two; the thread that preempts it  *)
(* finishes its own osSetTimer first, so the calls under way are a stack.  *)
(* __osTimerInterrupt runs in the VI manager, the thread of highest        *)
(* priority, when the exception handler has posted the counter's event.    *)
(***************************************************************************)
EXTENDS Integers, Sequences, FiniteSets

CONSTANTS
  Timers,
  Countdowns,  (* the countdowns of osSetTimer; 0 stands for the interval  *)
  Intervals,   (* the intervals; 0 for a timer that fires once             *)
  W,           (* the counter counts modulo W, 2^32 in the hardware        *)
  MaxLag,      (* the cycles from the compare match to the handler's end   *)
  MaxArm,      (* the cycles from reading the counter to writing compare   *)
  EventSlots   (* the slots of the VI manager's queue left for the timer   *)

ASSUME TimerAssumption ==
  /\ Countdowns \subseteq Nat /\ IsFiniteSet(Countdowns)
  /\ Intervals \subseteq Nat /\ IsFiniteSet(Intervals)
  /\ W \in Nat \ {0}
  /\ MaxLag \in Nat
  /\ MaxArm \in Nat
  /\ EventSlots \in Nat \ {0}

VARIABLES
  count,         (* the counter                                            *)
  compare,       (* the compare register                                   *)
  hit,           (* the counter's interrupt is pending                     *)
  events,        (* the counter messages the VI manager has still to take  *)
  handler,       (* where __osTimerInterrupt is: off, loop, arm            *)
  lag,           (* cycles since the match                                 *)
  timerList,     (* __osTimerList without the sentinel                     *)
  value,         (* t->value: the wait after the timer before              *)
  interval,      (* t->interval                                            *)
  timerCounter,  (* __osTimerCounter                                       *)
  setting,       (* the calls of osSetTimer under way, innermost last      *)
  mesg,          (* whether t->mq, of one slot, holds the timer's message  *)
  age, wait,     (* cycles since t was last set or fired; what it asked for*)
  stale          (* cycles the time base was behind when t was set         *)

hardware == <<count, compare, hit>>
listVars == <<timerList, value, interval>>
history  == <<age, wait, stale>>
vars == <<hardware, events, handler, lag, listVars, timerCounter, setting, mesg, history>>

MaxOf(S) == CHOOSE n \in S : \A m \in S : m <= n
Waits == (Countdowns \cup Intervals) \ {0}
AgeLimit == MaxOf(Waits) + 1

Members == {timerList[i] : i \in DOMAIN timerList}

(* The sum of the first n deltas.                                          *)
Due(l, v, n) ==
  LET sum[i \in 0 .. Len(l)] == IF i = 0 THEN 0 ELSE sum[i - 1] + v[l[i]]
  IN  sum[n]

-----------------------------------------------------------------------------
(* Time.                                                                   *)

Busy == hit \/ events > 0 \/ handler # "off"

(* n cycles pass; ages are counted while a timer is set, and cut off where *)
(* nothing depends on them.                                                *)
Elapse(n) ==
  /\ count' = (count + n) % W
  /\ age' = [t \in Timers |-> IF t \notin Members THEN 0
                              ELSE IF age[t] + n > AgeLimit THEN AgeLimit ELSE age[t] + n]

(* A match raises the interrupt.  The VI manager outranks everything, so   *)
(* only a few cycles pass before it has dealt with one.                    *)
Tick ==
  /\ Busy => lag < MaxLag
  /\ lag' = IF Busy THEN lag + 1 ELSE 0
  /\ Elapse(1)
  /\ hit' = (hit \/ count' = compare)
  /\ UNCHANGED <<compare, events, handler, listVars, timerCounter, setting, mesg, wait, stale>>

(* The exception handler acknowledges the interrupt and posts its event.   *)
TakeInterrupt ==
  /\ hit
  /\ hit' = FALSE
  /\ events' = IF events < EventSlots THEN events + 1 ELSE events
  /\ UNCHANGED <<count, compare, handler, lag, listVars, timerCounter, setting, mesg, history>>

(* __osSetTimerIntr: compare is written n cycles after the counter is read,*)
(* which also takes back an interrupt that is pending.  Whether a match at *)
(* the very cycle of the write counts is left open.                        *)
SetTimerIntr(tim, n) ==
  /\ Elapse(n)
  /\ timerCounter' = count
  /\ compare' = (count + tim) % W
  /\ hit' \in {FALSE, n > 0 /\ count' = compare'}

-----------------------------------------------------------------------------
(* The list.                                                               *)

(* Mutant: the timer after the new one keeps its delta.                    *)
InsertUnshared(l, v, t, tim) ==
  LET i == Cardinality({n \in DOMAIN l : Due(l, v, n) < tim})
  IN  /\ timerList' = SubSeq(l, 1, i) \o <<t>> \o SubSeq(l, i + 1, Len(l))
      /\ value' = [v EXCEPT ![t] = tim - Due(l, v, i)]

(* __osInsertTimer: t goes before the first timer that is not due earlier. *)
InsertTimer(l, v, t, tim) ==
  LET i   == Cardinality({n \in DOMAIN l : Due(l, v, n) < tim})
      rel == tim - Due(l, v, i)
  IN  /\ timerList' = SubSeq(l, 1, i) \o <<t>> \o SubSeq(l, i + 1, Len(l))
      /\ value' = [u \in Timers |-> IF u = t THEN rel
                                    ELSE IF i < Len(l) /\ u = l[i + 1] THEN v[u] - rel
                                    ELSE v[u]]

-----------------------------------------------------------------------------
(* osSetTimer.                                                             *)

(* The thread that calls is not the VI manager.                            *)
InThread == handler = "off" /\ events = 0

(* The first half, on a timer that is not set.  __osTimerCounter is behind *)
(* the counter when timers are waiting or an interrupt is on its way.      *)
OsSetTimer(t, countdown, again) ==
  LET tim == IF countdown = 0 THEN again ELSE countdown
  IN  /\ InThread
      /\ tim > 0
      /\ t \notin Members
      /\ \A i \in DOMAIN setting : setting[i].timer # t
      /\ ~mesg[t]
      /\ InsertTimer(timerList, value, t, tim)
      /\ interval' = [interval EXCEPT ![t] = again]
      /\ setting' = Append(setting, [timer |-> t, time |-> value'[t]])
      /\ age' = [age EXCEPT ![t] = 0]
      /\ wait' = [wait EXCEPT ![t] = tim]
      /\ stale' = [stale EXCEPT ![t] =
                     IF timerList = << >> /\ ~hit THEN 0 ELSE (count - timerCounter) % W]
      /\ UNCHANGED <<hardware, events, handler, lag, timerCounter, mesg>>

(* The second half: the compare register is programmed for a new head.     *)
SetTimerArm(n) ==
  /\ InThread
  /\ setting # << >>
  /\ setting' = SubSeq(setting, 1, Len(setting) - 1)
  /\ LET top == setting[Len(setting)]
     IN  IF timerList # << >> /\ Head(timerList) = top.timer
         THEN SetTimerIntr(top.time, n)
         ELSE n = 0 /\ UNCHANGED <<hardware, timerCounter, age>>
  /\ UNCHANGED <<events, handler, lag, listVars, mesg, wait, stale>>

(* The program takes the message of a timer.                               *)
Receive(t) ==
  /\ InThread
  /\ mesg[t]
  /\ mesg' = [mesg EXCEPT ![t] = FALSE]
  /\ UNCHANGED <<hardware, events, handler, lag, listVars, timerCounter, setting, history>>

-----------------------------------------------------------------------------
(* __osTimerInterrupt.                                                     *)

HandlerStart ==
  /\ handler = "off"
  /\ events > 0
  /\ events' = events - 1
  /\ handler' = IF timerList = << >> THEN "off" ELSE "loop"
  /\ UNCHANGED <<hardware, lag, listVars, timerCounter, setting, mesg, history>>

(* No timer is left: compare is set to 0.                                  *)
HandlerEmpty ==
  /\ handler = "loop"
  /\ timerList = << >>
  /\ compare' = 0
  /\ hit' = FALSE
  /\ timerCounter' = 0
  /\ handler' = "off"
  /\ UNCHANGED <<count, events, lag, listVars, setting, mesg, history>>

ElapsedCycles == (count - timerCounter) % W

(* Mutant: the compare register is not programmed for the remainder.       *)
HandlerChargeUnarmed ==
  /\ handler = "loop"
  /\ timerList # << >>
  /\ ElapsedCycles < value[Head(timerList)]
  /\ value' = [value EXCEPT ![Head(timerList)] = @ - ElapsedCycles]
  /\ timerCounter' = count
  /\ handler' = "off"
  /\ UNCHANGED <<hardware, events, lag, timerList, interval, setting, mesg, history>>

(* The head has still to wait; its delta is reduced by the time passed.    *)
HandlerCharge ==
  /\ handler = "loop"
  /\ timerList # << >>
  /\ ElapsedCycles < value[Head(timerList)]
  /\ value' = [value EXCEPT ![Head(timerList)] = @ - ElapsedCycles]
  /\ timerCounter' = count
  /\ handler' = "arm"
  /\ UNCHANGED <<hardware, events, lag, timerList, interval, setting, mesg, history>>

HandlerArm(n) ==
  /\ handler = "arm"
  /\ SetTimerIntr(value[Head(timerList)], n)
  /\ handler' = "off"
  /\ UNCHANGED <<events, lag, listVars, setting, mesg, wait, stale>>

(* Mutant: a timer fires one cycle before its time.                        *)
HandlerFireSoon ==
  /\ handler = "loop"
  /\ timerList # << >>
  /\ ElapsedCycles + 1 >= value[Head(timerList)]
  /\ timerCounter' = count
  /\ LET t    == Head(timerList)
         rest == Tail(timerList)
     IN  /\ mesg' = [mesg EXCEPT ![t] = TRUE]
         /\ IF interval[t] # 0
            THEN InsertTimer(rest, value, t, interval[t])
            ELSE timerList' = rest /\ value' = [value EXCEPT ![t] = 0]
         /\ age' = [age EXCEPT ![t] = 0]
         /\ wait' = [wait EXCEPT ![t] = interval[t]]
         /\ stale' = [stale EXCEPT ![t] = 0]
  /\ UNCHANGED <<hardware, events, handler, lag, interval, setting>>

(* The head fires: its message is sent unless the queue is full, and a     *)
(* periodic timer goes back into the list.                                 *)
HandlerFire ==
  /\ handler = "loop"
  /\ timerList # << >>
  /\ ElapsedCycles >= value[Head(timerList)]
  /\ timerCounter' = count
  /\ LET t    == Head(timerList)
         rest == Tail(timerList)
     IN  /\ mesg' = [mesg EXCEPT ![t] = TRUE]
         /\ IF interval[t] # 0
            THEN InsertTimer(rest, value, t, interval[t])
            ELSE timerList' = rest /\ value' = [value EXCEPT ![t] = 0]
         /\ age' = [age EXCEPT ![t] = 0]
         /\ wait' = [wait EXCEPT ![t] = interval[t]]
         /\ stale' = [stale EXCEPT ![t] = 0]
  /\ UNCHANGED <<hardware, events, handler, lag, interval, setting>>

-----------------------------------------------------------------------------

(* __osTimerServicesInit; compare is as the boot ROM clears it.             *)
Init ==
  /\ count \in 0 .. W - 1
  /\ compare = 0
  /\ hit = FALSE
  /\ events = 0
  /\ handler = "off"
  /\ lag = 0
  /\ timerList = << >>
  /\ value = [t \in Timers |-> 0]
  /\ interval = [t \in Timers |-> 0]
  /\ timerCounter = 0
  /\ setting = << >>
  /\ mesg = [t \in Timers |-> FALSE]
  /\ age = [t \in Timers |-> 0]
  /\ wait = [t \in Timers |-> 0]
  /\ stale = [t \in Timers |-> 0]

Handler ==
  \/ HandlerStart \/ HandlerEmpty \/ HandlerCharge \/ HandlerFire
  \/ \E n \in 0 .. MaxArm : HandlerArm(n)

Next ==
  \/ Tick
  \/ TakeInterrupt
  \/ \E t \in Timers, c \in Countdowns, i \in Intervals : OsSetTimer(t, c, i)
  \/ \E n \in 0 .. MaxArm : SetTimerArm(n)
  \/ \E t \in Timers : Receive(t)
  \/ Handler

(* The counter counts, the interrupt is taken, the VI manager runs.        *)
Fairness ==
  /\ WF_vars(Tick)
  /\ WF_vars(TakeInterrupt)
  /\ WF_vars(Handler)

Spec == Init /\ [][Next]_vars /\ Fairness

-----------------------------------------------------------------------------
(* Properties.                                                             *)

(* Every variable keeps its type; no delta is ever negative, and no timer  *)
(* is twice in the list (timerintr.c:84-90, 157-177).                      *)
TypeOK ==
  /\ count \in 0 .. W - 1
  /\ compare \in 0 .. W - 1
  /\ hit \in BOOLEAN
  /\ events \in 0 .. EventSlots
  /\ handler \in {"off", "loop", "arm"}
  /\ lag \in 0 .. MaxLag
  /\ timerList \in Seq(Timers)
  /\ Cardinality(Members) = Len(timerList)
  /\ value \in [Timers -> Nat]
  /\ interval \in [Timers -> Intervals]
  /\ timerCounter \in 0 .. W - 1
  /\ setting \in Seq([timer : Timers, time : Nat])
  /\ mesg \in [Timers -> BOOLEAN]
  /\ age \in [Timers -> 0 .. AgeLimit]
  /\ wait \in [Timers -> Waits \cup {0}]
  /\ stale \in [Timers -> 0 .. W - 1]

(* A timer fires before its time by at most what the time base was behind  *)
(* when it was set (settimer.c:31, timerintr.c:157-165): insertions,       *)
(* re-arming and late handlers of other timers never add to that.          *)
EarlyByStaleness ==
  [][\A t \in Timers : HandlerFire /\ t = Head(timerList) =>
       age[t] + stale[t] >= wait[t]]_vars

(* "After `countdown` CPU-counter cycles the kernel posts `msg`"           *)
(* (settimer.c:4): not before.                                             *)
NeverEarly ==
  [][\A t \in Timers : HandlerFire /\ t = Head(timerList) => age[t] >= wait[t]]_vars

(* The delta list is the set of timers with their waits from a common base *)
(* (timerintr.c:9-12): inserting, charging and expiring change one wait or *)
(* all of them alike, whatever the order of the list.                      *)
Remaining ==
  [t \in Members |-> LET i == CHOOSE i \in DOMAIN timerList : timerList[i] = t
                     IN  Due(timerList, value, i)]

Abstract == INSTANCE TimerSet WITH due <- Remaining

ListIsTimerSet == Abstract!SSpec

(* A timer that is set fires, whichever others are set, re-armed or fired  *)
(* around it and however short its wait: no interrupt is lost for good.    *)
TimersFire ==
  \A t \in Timers : (t \in Members /\ ~mesg[t]) ~> mesg[t]
===============================================================================
