------------------------------- MODULE OsKernel -------------------------------
(***************************************************************************)
(* The libultra kernel: threads, the priority scheduler, message queues,   *)
(* and the exception handler that turns interrupts into messages           *)
(* (src/src/libultra/os).                                                  *)
(*                                                                         *)
(* Every API call runs with interrupts disabled, so it is one action, from *)
(* its entry to its return or to the point where it gives up the CPU.  A   *)
(* call that blocks leaves its continuation in pend and is re-evaluated    *)
(* from its while loop when the thread is dispatched again.  The exception *)
(* handler is a loop over the pending causes; each of its turns is an      *)
(* action, and nothing else runs until it redispatches.                    *)
(*                                                                         *)
(* The intrusive next-linked thread lists are sequences.  That is exact as *)
(* long as no thread is on two lists, which OnOneList states.  The    *)
(* ring buffer of a message queue is the sequence of its valid entries,    *)
(* oldest first; MesgRing models the ring itself.                          *)
(***************************************************************************)
EXTENDS Integers, Sequences, FiniteSets

CONSTANTS
  Threads,      (* the OSThread structures of the program                   *)
  Idle,         (* the idle thread: never blocks, never stopped             *)
  NoThread,     (* the NULL thread pointer                                  *)
  Queues,       (* the OSMesgQueue structures                               *)
  Capacity,     (* msgCount of each queue                                   *)
  Messages,     (* the messages the program sends                           *)
  Priorities,   (* the priorities the program uses                          *)
  Events,       (* the event sources that can fire                          *)
  Calls         (* the API calls the program makes                          *)

(* The order in which next_interrupt and rcp look at the causes.           *)
EventOrder == [counter |-> 1, prenmi |-> 2, cart |-> 3, sp |-> 4, vi |-> 5,
               ai |-> 6, si |-> 7, pi |-> 8, dp |-> 9, sw2 |-> 10, sw1 |-> 11]

(* Exceptions the running thread raises itself.                            *)
Traps == {"fault", "cpu_break"}

ASSUME KernelAssumption ==
  /\ Idle \in Threads
  /\ NoThread \notin Threads
  /\ Capacity \in [Queues -> Nat \ {0}]
  /\ Priorities \subseteq Nat
  /\ 0 \in Priorities
  /\ Events \subseteq DOMAIN EventOrder \cup Traps

STOPPED  == "STOPPED"
RUNNABLE == "RUNNABLE"
RUNNING  == "RUNNING"
WAITING  == "WAITING"
States   == {STOPPED, RUNNABLE, RUNNING, WAITING}

RunQ    == <<"run">>          \* &__osRunQueue
Mt(q)   == <<"mt", q>>        \* &mq->mtqueue: threads waiting for a message
Full(q) == <<"full", q>>      \* &mq->fullqueue: threads waiting for a slot
NoQ     == <<"null">>         \* a NULL queue pointer
WaitLists == {Mt(q) : q \in Queues} \cup {Full(q) : q \in Queues}
Lists     == {RunQ} \cup WaitLists

(* A message call in progress; NoCall when the thread is in its own code;  *)
(* InBind when it is in osSetEventMesg, past the notice it sent.           *)
MesgCalls == [op : {"recv", "send", "jam"}, q : Queues, m : Messages]
NoCall == [op |-> "none"]
InBind == [op |-> "bind"]

VARIABLES
  list,      (* the thread lists, highest priority first                    *)
  running,   (* __osRunningThread                                           *)
  tstate,    (* t->state                                                    *)
  tqueue,    (* t->queue: the list a thread was last put on                 *)
  pri,       (* t->priority                                                 *)
  active,    (* the threads linked from __osActiveQueue                     *)
  msgs,      (* the buffered messages of each queue                         *)
  pend,      (* what each thread has still to do of the call it is in       *)
  eventTab,  (* __osEventStateTab: the queue and message of an event        *)
  shutdown,  (* __osShutdown                                                *)
  preNMI,    (* __osPreNMI                                                  *)
  k0,        (* the thread an exception interrupted, NoThread outside       *)
  causes     (* s0/s1: the causes the exception handler has still to serve  *)

threadVars == <<list, running, tstate, tqueue>>
eventVars  == <<eventTab, shutdown, preNMI>>
excVars    == <<k0, causes>>
vars == <<threadVars, pri, active, msgs, pend, eventVars, excVars>>

(* What the buffers can hold: a queue never has more messages than slots.   *)
Buffers == {f \in [Queues -> Seq(Messages)] : \A q \in Queues : Len(f[q]) <= Capacity[q]}

NoBinding == [q |-> NoQ]
Bindings  == [q : Queues, m : Messages]

-----------------------------------------------------------------------------
(* Thread lists.                                                           *)

(* Mutant: the walk stops one node after the first equal or lower one.     *)
OneNodeTooFar(s, p, prio) ==
  LET i == CHOOSE i \in 1 .. Len(s) + 1 :
             /\ \A j \in 1 .. i - 1 : prio[s[j]] > p
             /\ i <= Len(s) => prio[s[i]] <= p
  IN  IF i <= Len(s) THEN i + 1 ELSE i

(* The place before the first element of lower priority than p.            *)
InsertPos(s, p, prio) ==
  CHOOSE i \in 1 .. Len(s) + 1 :
    /\ \A j \in 1 .. i - 1 : prio[s[j]] >= p
    /\ i <= Len(s) => prio[s[i]] < p

InsertThread(s, t, prio) ==
  LET i == InsertPos(s, prio[t], prio)
  IN  [j \in 1 .. Len(s) + 1 |->
         IF j < i THEN s[j] ELSE IF j = i THEN t ELSE s[j - 1]]

(* The list without t, which the walk of __osDequeueThread may not find.   *)
Unlinked(s, t) ==
  IF \E i \in DOMAIN s : s[i] = t
  THEN LET i == CHOOSE i \in DOMAIN s : s[i] = t /\ \A j \in 1 .. i - 1 : s[j] # t
       IN  [j \in 1 .. Len(s) - 1 |-> IF j < i THEN s[j] ELSE s[j + 1]]
  ELSE s

(* __osEnqueueThread, __osPopThread and __osDequeueThread on the lists L.  *)
Enqueued(L, l, t, prio) == [L EXCEPT ![l] = InsertThread(@, t, prio)]
Popped(L, l) == [L EXCEPT ![l] = Tail(@)]
Dequeued(L, l, t) == [L EXCEPT ![l] = Unlinked(@, t)]

-----------------------------------------------------------------------------
(* The scheduler.  L, S, Q stand for the lists, states and queue pointers  *)
(* the caller has reached; prio for the priorities.                        *)

(* __osDispatchThread.                                                     *)
DispatchThread(L, S, Q) ==
  LET next == Head(L[RunQ])
  IN  /\ L[RunQ] # << >>
      /\ list' = Popped(L, RunQ)
      /\ running' = next
      /\ tstate' = [S EXCEPT ![next] = RUNNING]
      /\ tqueue' = Q

(* __osEnqueueAndYield(l), with NoQ for the NULL argument.                 *)
EnqueueAndYield(L, S, Q, l, prio) ==
  IF l = NoQ
  THEN DispatchThread(L, S, Q)
  ELSE DispatchThread(Enqueued(L, l, running, prio), S, [Q EXCEPT ![running] = l])

(* Mutant: the caller never yields.                                        *)
ReturnAlways(L, S, Q, prio) ==
  list' = L /\ tstate' = S /\ tqueue' = Q /\ running' = running

(* The tail shared by osStartThread and osSetThreadPri: the caller yields  *)
(* only to a thread of higher priority.                                    *)
PreemptOrReturn(L, S, Q, prio) ==
  IF L[RunQ] # << >> /\ prio[running] < prio[Head(L[RunQ])]
  THEN EnqueueAndYield(L, [S EXCEPT ![running] = RUNNABLE], Q, RunQ, prio)
  ELSE /\ list' = L
       /\ tstate' = S
       /\ tqueue' = Q
       /\ running' = running

(* osStartThread(t).                                                       *)
StartThread(L, Q, t) ==
  IF tstate[t] = WAITING \/ (tstate[t] = STOPPED /\ tqueue[t] \in {NoQ, RunQ})
  THEN PreemptOrReturn(Enqueued(L, RunQ, t, pri), [tstate EXCEPT ![t] = RUNNABLE],
                       [Q EXCEPT ![t] = RunQ], pri)
  ELSE IF tstate[t] = STOPPED
  THEN LET L1   == Enqueued(L, tqueue[t], t, pri)
           head == Head(L1[tqueue[t]])
       IN  PreemptOrReturn(Enqueued(Popped(L1, tqueue[t]), RunQ, head, pri),
                           [tstate EXCEPT ![t] = WAITING],
                           [Q EXCEPT ![head] = RunQ], pri)
  ELSE PreemptOrReturn(L, tstate, Q, pri)

(* Mutant: the head waiter is started without being popped.                *)
WakeUnpopped(l) ==
  IF list[l] = << >> THEN UNCHANGED threadVars ELSE StartThread(list, tqueue, Head(list[l]))

(* osStartThread(__osPopThread(l)) when l has a waiter.                    *)
WakeHead(l) ==
  IF list[l] = << >>
  THEN UNCHANGED threadVars
  ELSE StartThread(Popped(list, l), tqueue, Head(list[l]))

-----------------------------------------------------------------------------
(* Message queues.                                                         *)

(* The body of the while loop of a blocking call that cannot proceed.      *)
BlockOn(c, l) ==
  /\ pend' = [pend EXCEPT ![running] = c]
  /\ EnqueueAndYield(list, [tstate EXCEPT ![running] = WAITING], tqueue, l, pri)
  /\ UNCHANGED msgs

Returned == [pend EXCEPT ![running] = NoCall]

(* Mutants: a receiver waits with the senders; a receiver leaves the        *)
(* senders asleep.                                                         *)
RecvOnFullQueue(c) ==
  IF msgs[c.q] = << >>
  THEN BlockOn(c, Full(c.q))
  ELSE /\ msgs' = [msgs EXCEPT ![c.q] = Tail(@)]
       /\ pend' = Returned
       /\ WakeHead(Full(c.q))
RecvSilently(c) ==
  IF msgs[c.q] = << >>
  THEN BlockOn(c, Mt(c.q))
  ELSE /\ msgs' = [msgs EXCEPT ![c.q] = Tail(@)]
       /\ pend' = Returned
       /\ UNCHANGED threadVars

RecvMesg(c) ==
  IF msgs[c.q] = << >>
  THEN BlockOn(c, Mt(c.q))
  ELSE /\ msgs' = [msgs EXCEPT ![c.q] = Tail(@)]
       /\ pend' = Returned
       /\ WakeHead(Full(c.q))

SendMesg(c) ==
  IF Len(msgs[c.q]) >= Capacity[c.q]
  THEN BlockOn(c, Full(c.q))
  ELSE /\ msgs' = [msgs EXCEPT ![c.q] = Append(@, c.m)]
       /\ pend' = Returned
       /\ WakeHead(Mt(c.q))

JamMesg(c) ==
  IF Len(msgs[c.q]) >= Capacity[c.q]
  THEN BlockOn(c, Full(c.q))
  ELSE /\ msgs' = [msgs EXCEPT ![c.q] = <<c.m>> \o @]
       /\ pend' = Returned
       /\ WakeHead(Mt(c.q))

DoCall(c) ==
  CASE c.op = "recv" -> RecvMesg(c)
    [] c.op = "send" -> SendMesg(c)
    [] c.op = "jam"  -> JamMesg(c)

(* Whether the call would have to wait.                                    *)
MustWait(c) ==
  IF c.op = "recv" THEN msgs[c.q] = << >> ELSE Len(msgs[c.q]) >= Capacity[c.q]

-----------------------------------------------------------------------------
(* API calls of the running thread.                                        *)

(* Interrupts are enabled and the running thread is in its own code.       *)
InThread == k0 = NoThread /\ pend[running] = NoCall

(* osRecvMesg, osSendMesg, osJamMesg.  A call with OS_MESG_NOBLOCK that    *)
(* would have to wait returns -1 and changes nothing.                      *)
CallMesg(c, block) ==
  /\ InThread
  /\ c.op \in Calls
  /\ running = Idle => ~block
  /\ MustWait(c) => block
  /\ DoCall(c)
  /\ UNCHANGED <<pri, active, eventVars, excVars>>

(* A dispatched thread goes round the while loop of its blocking call.     *)
ResumeMesg ==
  /\ k0 = NoThread
  /\ pend[running] \in MesgCalls
  /\ DoCall(pend[running])
  /\ UNCHANGED <<pri, active, eventVars, excVars>>

OsYieldThread ==
  /\ InThread
  /\ "yield" \in Calls
  /\ EnqueueAndYield(list, [tstate EXCEPT ![running] = RUNNABLE], tqueue, RunQ, pri)
  /\ UNCHANGED <<pri, active, msgs, pend, eventVars, excVars>>

OsCreateThread(t, p) ==
  /\ InThread
  /\ "create" \in Calls
  /\ t \notin active
  /\ pri' = [pri EXCEPT ![t] = p]
  /\ tqueue' = [tqueue EXCEPT ![t] = NoQ]
  /\ tstate' = [tstate EXCEPT ![t] = STOPPED]
  /\ pend' = [pend EXCEPT ![t] = NoCall]
  /\ active' = active \cup {t}
  /\ UNCHANGED <<list, running, msgs, eventVars, excVars>>

(* The program starts the threads it created or stopped, in the states of  *)
(* Startable (libultra's own callers pop a WAITING thread first).          *)
OsStartThread(t) ==
  /\ InThread
  /\ t \in active
  /\ tstate[t] \in {STOPPED} \cup (Calls \cap {WAITING})
  /\ StartThread(list, tqueue, t)
  /\ UNCHANGED <<pri, active, msgs, pend, eventVars, excVars>>

OsStopThread(t) ==
  /\ InThread
  /\ "stop" \in Calls
  /\ t \in active \ {Idle}
  /\ \/ /\ tstate[t] = RUNNING
        /\ EnqueueAndYield(list, [tstate EXCEPT ![running] = STOPPED], tqueue, NoQ, pri)
     \/ /\ tstate[t] \in {RUNNABLE, WAITING}
        /\ list' = Dequeued(list, tqueue[t], t)
        /\ tstate' = [tstate EXCEPT ![t] = STOPPED]
        /\ UNCHANGED <<running, tqueue>>
  /\ UNCHANGED <<pri, active, msgs, pend, eventVars, excVars>>

(* Mutant: a destroyed thread stays linked.                                *)
DestroyLinked(t) ==
  /\ InThread
  /\ "destroy" \in Calls
  /\ t \in active \ {Idle}
  /\ active' = active \ {t}
  /\ pend' = [pend EXCEPT ![t] = NoCall]
  /\ IF t = running
     THEN DispatchThread(list, tstate, tqueue)
     ELSE UNCHANGED threadVars
  /\ UNCHANGED <<pri, msgs, eventVars, excVars>>

OsDestroyThread(t) ==
  /\ InThread
  /\ "destroy" \in Calls
  /\ t \in active \ {Idle}
  /\ active' = active \ {t}
  /\ pend' = [pend EXCEPT ![t] = NoCall]
  /\ LET L == IF tstate[t] # STOPPED THEN Dequeued(list, tqueue[t], t) ELSE list
     IN  IF t = running
         THEN DispatchThread(L, tstate, tqueue)
         ELSE /\ list' = L
              /\ UNCHANGED <<running, tstate, tqueue>>
  /\ UNCHANGED <<pri, msgs, eventVars, excVars>>

(* Mutant: the new priority does not move the thread in its list.          *)
SetPriInPlace(t, p) ==
  /\ InThread
  /\ "setpri" \in Calls
  /\ t \in active
  /\ pri[t] # p
  /\ pri' = [pri EXCEPT ![t] = p]
  /\ PreemptOrReturn(list, tstate, tqueue, pri')
  /\ UNCHANGED <<active, msgs, pend, eventVars, excVars>>

OsSetThreadPri(t, p) ==
  /\ InThread
  /\ "setpri" \in Calls
  /\ t \in active
  /\ pri[t] # p
  /\ pri' = [pri EXCEPT ![t] = p]
  /\ LET L == IF t # running /\ tstate[t] # STOPPED
              THEN Enqueued(Dequeued(list, tqueue[t], t), tqueue[t], t, pri')
              ELSE list
     IN  PreemptOrReturn(L, tstate, tqueue, pri')
  /\ UNCHANGED <<active, msgs, pend, eventVars, excVars>>

(* osSetEventMesg; the late pre-NMI notice is an osSendMesg with NOBLOCK,   *)
(* whose receiver may take the CPU before __osPreNMI is set.               *)
OsSetEventMesg(e, b) ==
  /\ InThread
  /\ "bind" \in Calls
  /\ eventTab' = [eventTab EXCEPT ![e] = b]
  /\ IF e = "prenmi" /\ shutdown /\ ~preNMI /\ Len(msgs[b.q]) < Capacity[b.q]
     THEN /\ msgs' = [msgs EXCEPT ![b.q] = Append(@, b.m)]
          /\ WakeHead(Mt(b.q))
     ELSE UNCHANGED <<threadVars, msgs>>
  /\ IF running' = running
     THEN preNMI' = (preNMI \/ e = "prenmi") /\ UNCHANGED pend
     ELSE pend' = [pend EXCEPT ![running] = InBind] /\ UNCHANGED preNMI
  /\ UNCHANGED <<pri, active, shutdown, excVars>>

(* The sender of the notice has the CPU again.  Interrupts have stayed      *)
(* disabled for it since it entered osSetEventMesg.                         *)
FinishBind ==
  /\ k0 = NoThread
  /\ pend[running] = InBind
  /\ preNMI' = TRUE
  /\ pend' = Returned
  /\ UNCHANGED <<threadVars, pri, active, msgs, eventTab, shutdown, excVars>>

-----------------------------------------------------------------------------
(* The exception handler.                                                  *)

(* savecontext: the causes pending at entry, or a trap of the thread.       *)
ExceptionEntry(S) ==
  /\ InThread
  /\ S # {}
  /\ S \subseteq DOMAIN EventOrder \/ \E e \in Traps : S = {e} /\ running # Idle
  /\ k0' = running
  /\ causes' = S
  /\ tstate' = [tstate EXCEPT ![running] = RUNNABLE]
  /\ UNCHANGED <<list, running, tqueue, pri, active, msgs, pend, eventVars>>

(* Mutants: an event is posted to a full queue; an event wakes nobody.     *)
PostUnchecked(e) ==
  LET b == eventTab[e]
  IN  /\ msgs' = IF b # NoBinding THEN [msgs EXCEPT ![b.q] = Append(@, b.m)] ELSE msgs
      /\ UNCHANGED <<list, tqueue>>
PostSilently(e) ==
  LET b == eventTab[e]
  IN  /\ msgs' = IF b # NoBinding /\ Len(msgs[b.q]) < Capacity[b.q]
                 THEN [msgs EXCEPT ![b.q] = Append(@, b.m)] ELSE msgs
      /\ UNCHANGED <<list, tqueue>>

(* send_mesg: post the event and put the head waiter on the run queue.      *)
(* The waiter's state stays WAITING until it is dispatched.                *)
PostEvent(e) ==
  LET b == eventTab[e]
  IN  IF b # NoBinding /\ Len(msgs[b.q]) < Capacity[b.q]
      THEN /\ msgs' = [msgs EXCEPT ![b.q] = Append(@, b.m)]
           /\ IF list[Mt(b.q)] # << >>
              THEN LET w == Head(list[Mt(b.q)])
                   IN  /\ list' = Enqueued(Popped(list, Mt(b.q)), RunQ, w, pri)
                       /\ tqueue' = [tqueue EXCEPT ![w] = RunQ]
              ELSE UNCHANGED <<list, tqueue>>
      ELSE UNCHANGED <<msgs, list, tqueue>>

IsNextCause(e) ==
  e \in causes /\ (e \notin Traps => \A f \in causes : EventOrder[e] <= EventOrder[f])

(* One turn of next_interrupt, and handle_break.                           *)
ServeCause(e) ==
  /\ k0 # NoThread
  /\ IsNextCause(e)
  /\ e \notin {"prenmi", "fault"}
  /\ PostEvent(e)
  /\ causes' = causes \ {e}
  /\ UNCHANGED <<running, tstate, pri, active, pend, eventVars, k0>>

(* Mutant: every pre-NMI interrupt is posted.                              *)
ServeEveryPreNmi ==
  /\ k0 # NoThread
  /\ IsNextCause("prenmi")
  /\ PostEvent("prenmi")
  /\ shutdown' = TRUE
  /\ causes' = {}
  /\ UNCHANGED <<running, tstate, pri, active, pend, eventTab, preNMI, k0>>

(* prenmi: the first one is posted; either way the handler redispatches    *)
(* at once, leaving the other causes to the next exception.                *)
ServePreNmi ==
  /\ k0 # NoThread
  /\ IsNextCause("prenmi")
  /\ IF shutdown THEN UNCHANGED <<msgs, list, tqueue>> ELSE PostEvent("prenmi")
  /\ shutdown' = TRUE
  /\ causes' = {}
  /\ UNCHANGED <<running, tstate, pri, active, pend, eventTab, preNMI, k0>>

(* Mutant: a ready thread of equal priority displaces the interrupted one.  *)
RedispatchEqual ==
  /\ k0 # NoThread
  /\ causes = {}
  /\ IF list[RunQ] = << >> \/ pri[k0] > pri[Head(list[RunQ])]
     THEN /\ running' = k0
          /\ tstate' = [tstate EXCEPT ![k0] = RUNNING]
          /\ UNCHANGED <<list, tqueue>>
     ELSE DispatchThread(Enqueued(list, RunQ, k0, pri), tstate,
                         [tqueue EXCEPT ![k0] = RunQ])
  /\ k0' = NoThread
  /\ UNCHANGED <<pri, active, msgs, pend, eventVars, causes>>

(* redispatch and enqueueRunning: the interrupted thread is put back on top *)
(* of the run queue and popped again, unless a thread of higher priority is *)
(* ready; then it goes behind its equals.                                  *)
Redispatch ==
  /\ k0 # NoThread
  /\ causes = {}
  /\ IF list[RunQ] = << >> \/ pri[k0] >= pri[Head(list[RunQ])]
     THEN /\ running' = k0
          /\ tstate' = [tstate EXCEPT ![k0] = RUNNING]
          /\ UNCHANGED <<list, tqueue>>
     ELSE DispatchThread(Enqueued(list, RunQ, k0, pri), tstate,
                         [tqueue EXCEPT ![k0] = RunQ])
  /\ k0' = NoThread
  /\ UNCHANGED <<pri, active, msgs, pend, eventVars, causes>>

(* panic: stop the faulted thread and post the fault before dispatching.   *)
Panic ==
  /\ k0 # NoThread
  /\ "fault" \in causes
  /\ LET b     == eventTab["fault"]
         post  == b # NoBinding /\ Len(msgs[b.q]) < Capacity[b.q]
         wakes == post /\ list[Mt(b.q)] # << >>
         w     == Head(list[Mt(b.q)])
         S     == [tstate EXCEPT ![k0] = STOPPED]
     IN  /\ msgs' = IF post THEN [msgs EXCEPT ![b.q] = Append(@, b.m)] ELSE msgs
         /\ IF wakes
            THEN DispatchThread(Enqueued(Popped(list, Mt(b.q)), RunQ, w, pri), S,
                                [tqueue EXCEPT ![w] = RunQ])
            ELSE DispatchThread(list, S, tqueue)
  /\ k0' = NoThread
  /\ causes' = {}
  /\ UNCHANGED <<pri, active, pend, eventVars>>

-----------------------------------------------------------------------------

(* The boot thread has been started and has become the idle thread.         *)
Init ==
  /\ list = [l \in Lists |-> << >>]
  /\ running = Idle
  /\ tstate = [t \in Threads |-> IF t = Idle THEN RUNNING ELSE STOPPED]
  /\ tqueue = [t \in Threads |-> IF t = Idle THEN RunQ ELSE NoQ]
  /\ pri = [t \in Threads |-> 0]
  /\ active = {Idle}
  /\ msgs = [q \in Queues |-> << >>]
  /\ pend = [t \in Threads |-> NoCall]
  /\ eventTab = [e \in Events |-> NoBinding]
  /\ shutdown = FALSE
  /\ preNMI = FALSE
  /\ k0 = NoThread
  /\ causes = {}

Next ==
  \/ \E c \in MesgCalls, block \in BOOLEAN : CallMesg(c, block)
  \/ ResumeMesg
  \/ OsYieldThread
  \/ \E t \in Threads, p \in Priorities : OsCreateThread(t, p)
  \/ \E t \in Threads : OsStartThread(t)
  \/ \E t \in Threads : OsStopThread(t)
  \/ \E t \in Threads : OsDestroyThread(t)
  \/ \E t \in Threads, p \in Priorities : OsSetThreadPri(t, p)
  \/ \E e \in Events, b \in Bindings : OsSetEventMesg(e, b)
  \/ FinishBind
  \/ \E S \in SUBSET Events : ExceptionEntry(S)
  \/ \E e \in Events : ServeCause(e)
  \/ ServePreNmi
  \/ Redispatch
  \/ Panic

Spec == Init /\ [][Next]_vars

-----------------------------------------------------------------------------
(* Properties.                                                             *)

TypeOK ==
  /\ list \in [Lists -> Seq(Threads)]
  /\ running \in Threads
  /\ tstate \in [Threads -> States]
  /\ tqueue \in [Threads -> Lists \cup {NoQ}]
  /\ pri \in [Threads -> Priorities]
  /\ active \in SUBSET Threads
  /\ msgs \in Buffers
  /\ pend \in [Threads -> MesgCalls \cup {NoCall, InBind}]
  /\ eventTab \in [Events -> Bindings \cup {NoBinding}]
  /\ shutdown \in BOOLEAN
  /\ preNMI \in BOOLEAN
  /\ k0 \in Threads \cup {NoThread}
  /\ causes \in SUBSET Events

On(t, l) == \E i \in DOMAIN list[l] : list[l][i] = t

(* A thread is on at most one list, at most once, and it is the list its   *)
(* queue field names; so the intrusive next field never serves two lists.  *)
OnOneList ==
  \A l \in Lists : \A i \in DOMAIN list[l] :
    /\ tqueue[list[l][i]] = l
    /\ \A j \in DOMAIN list[l] : list[l][i] = list[l][j] => i = j

(* The state field agrees with where the thread is: only the running       *)
(* thread is RUNNING, a RUNNABLE thread is on the run queue, a WAITING one *)
(* on a wait list (or already moved to the run queue by an interrupt), a   *)
(* STOPPED or destroyed thread on none.                                    *)
StatesAgree ==
  /\ running \in active
  /\ k0 \in {NoThread, running}
  /\ tstate[running] = IF k0 = NoThread THEN RUNNING ELSE RUNNABLE
  /\ \A l \in Lists : ~On(running, l)
  /\ \A t \in Threads \ {running} :
       LET s == IF t \in active THEN tstate[t] ELSE STOPPED
       IN  /\ s # RUNNING
           /\ s \in {RUNNABLE, WAITING} <=> \E l \in Lists : On(t, l)
           /\ s = RUNNABLE => On(t, RunQ)

(* A thread waits on a list exactly for the call it is blocked in.         *)
WaitersAgree ==
  \A t \in Threads, q \in Queues :
    /\ On(t, Mt(q)) => pend[t] # NoCall /\ pend[t].op = "recv" /\ pend[t].q = q
    /\ On(t, Full(q)) => pend[t] # NoCall /\ pend[t].op \in {"send", "jam"} /\ pend[t].q = q

(* Every list is in priority order, so popping its head takes the most     *)
(* urgent thread, whatever priorities were changed meanwhile.              *)
Sorted ==
  \A l \in Lists : \A i, j \in DOMAIN list[l] :
    i < j => pri[list[l][i]] >= pri[list[l][j]]

(* Outside the exception handler no ready thread has a higher priority     *)
(* than the running one.                                                   *)
HighestRuns ==
  k0 = NoThread => \A i \in DOMAIN list[RunQ] : pri[list[RunQ][i]] <= pri[running]

(* Threads that were woken for queue q and have not yet retried.            *)
Woken(q, ops) ==
  {t \in active : pend[t].op \in ops /\ pend[t].q = q /\ tqueue[t] = RunQ}

(* No lost wakeup: while a thread still waits for a message, every message  *)
(* in the buffer has a woken receiver coming for it.                        *)
NoLostMessageWakeup ==
  \A q \in Queues :
    list[Mt(q)] # << >> => Len(msgs[q]) <= Cardinality(Woken(q, {"recv"}))

(* And while a sender still waits, every free slot has a woken sender       *)
(* coming for it.                                                           *)
NoLostSlotWakeup ==
  \A q \in Queues :
    list[Full(q)] # << >> =>
      Capacity[q] - Len(msgs[q]) <= Cardinality(Woken(q, {"send", "jam"}))

(* An interrupt takes the CPU from a thread only for one of higher          *)
(* priority: equals do not displace each other (redispatch).                *)
InterruptPreemption ==
  [][k0 # NoThread /\ k0' = NoThread /\ "fault" \notin causes =>
       running' = k0 \/ pri[running'] > pri[k0]]_vars

(* A thread that yields goes behind every ready thread of its priority:    *)
(* each of them runs before it does.                                       *)
YieldIsRoundRobin ==
  [][\A t \in Threads :
       OsYieldThread /\ On(t, RunQ) /\ pri[t] = pri[running] =>
         \/ t = running'
         \/ \E i, j \in DOMAIN list'[RunQ] :
              i < j /\ list'[RunQ][i] = t /\ list'[RunQ][j] = running]_vars

(* The reset notice is posted at the step after which the program has both  *)
(* been interrupted and registered for it, in whichever order; and again   *)
(* only by a registration made while another one is cut off between the    *)
(* notice it sent and __osPreNMI (seteventmesg.c:40-42; by its line 13 the  *)
(* notice is sent at most once).  A cut registration that is destroyed     *)
(* never sets it, so this is said of programs that destroy no thread.      *)
PreNmiNotice ==
  [][ServePreNmi \/ (\E b \in Bindings : OsSetEventMesg("prenmi", b)) =>
       LET q     == eventTab'["prenmi"].q
           bound == eventTab["prenmi"] # NoBinding
           first == shutdown' /\ eventTab'["prenmi"] # NoBinding /\ ~(shutdown /\ bound)
           cut   == \E t \in Threads : pend[t] = InBind
       IN  /\ first /\ Len(msgs[q]) < Capacity[q] => msgs' # msgs
           /\ msgs' # msgs => first \/ (shutdown /\ cut)]_vars
===============================================================================
