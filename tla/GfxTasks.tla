-------------------------------- MODULE GfxTasks --------------------------------
(***************************************************************************)
(* The graphics task manager (nugfxtaskmgr.c): the ring of task records an *)
(* application fills, the count of tasks in flight, the manager thread that*)
(* retires finished tasks and hands their frames to the VI no faster than  *)
(* every other retrace, and the switch of the display.  The RCP scheduler, *)
(* whose own module is NuSched, is here the two queues and one task at a   *)
(* time; of the VI there are the frame buffers now and next on display.    *)
(*                                                                         *)
(* The application is the graphics thread, below the manager, which is     *)
(* below the event handler: an application step needs both to be blocked.  *)
(* It starts a task only while fewer than GfxPending are in flight, which  *)
(* is what the graphics thread passes nuGfxTaskSpool to it for.            *)
(***************************************************************************)
EXTENDS Integers, Sequences, FiniteSets

CONSTANTS
  GfxTaskNum,   (* NU_GFX_TASK_NUM                                         *)
  GfxMesgs,     (* the slots of the scheduler's and the manager's queue    *)
  GfxPending,   (* the application's limit on the tasks in flight          *)
  CfbNum,       (* the number of frame buffers                             *)
  Pace,         (* 2: the retraces from one swap to the next               *)
  ShowAge,      (* 0x20 and 0x36 of nuScEventHandler, scaled: the ages at  *)
  DarkAge,      (* which a task is shown anyway, and the display goes off  *)
  SlowTasks,    (* the kinds of task, by "swaps", that reach ShowAge       *)
  GfxResetFrames (* the retraces from the pre-NMI to the before-reset state *)

(* A task reaches ShowAge only if it is slow itself, and none DarkAge while *)
(* the manager is at older ones: 54 retraces, where it takes at most four  *)
(* for each.                                                               *)
ASSUME GfxAssumption ==
  /\ GfxTaskNum \in Nat /\ GfxMesgs \in Nat \ {0} /\ Pace \in Nat \ {0} /\ CfbNum \in Nat \ {0}
  /\ GfxPending \in 1 .. GfxTaskNum - 1
  /\ GfxPending <= CfbNum
  /\ ShowAge \in Nat /\ DarkAge \in Nat
  /\ SlowTasks \subseteq BOOLEAN
  /\ Pace * GfxPending < ShowAge /\ ShowAge < DarkAge
  /\ (Pace + 2) * (GfxPending - 1) < DarkAge
  /\ GfxResetFrames \in Nat

VARIABLES
  record,       (* nuGfxTask                                               *)
  recordPtr,    (* nuGfxTask_ptr                                           *)
  spool,        (* nuGfxTaskSpool                                          *)
  frame,        (* the frame being submitted: its buffer is nuGfxCfb_ptr   *)
  appPc,        (* the application: idle, send, black, drain               *)
  requestMQ,    (* graphicsRequestMQ                                       *)
  schedPc,      (* the scheduler's graphics thread: recv, ready, run, post *)
  curTask,      (* its task                                                *)
  taskAge,      (* retraces since the task started, D_800B6784 counted out *)
  taskMgrMQ,    (* nuGfxTaskMgrMesgQ                                       *)
  mgrPc,        (* the manager: recv, pace, register, wait, swap, retire,  *)
                (* display, on, end                                        *)
  mgrTask,      (* its task                                                *)
  sinceSwap,    (* nuScRetraceCounter - D_800D8980, up to Pace             *)
  client,       (* nuGfxRetraceWait's client: none, waiting, woken         *)
  due,          (* the VI has swapped, the event handler has not run yet   *)
  late,         (* a retrace came since the manager last waited            *)
  scan,         (* the frame on display and the next one                   *)
  black,        (* the VI is asked to be black                             *)
  display,      (* nuGfxDisplay: off, trigger, on                          *)
  preNMIFlag,   (* nuScPreNMIFlag: YET, GET, BEFORE_RESET                  *)
  beforeResetFrame,
  content       (* history: the frame each buffer was last drawn with      *)

appState   == <<record, recordPtr, frame, appPc>>
schedState == <<schedPc, curTask, content>>
mgrState   == <<mgrPc, mgrTask>>
resetState == <<preNMIFlag, beforeResetFrame>>
gfxVars    == <<appState, spool, requestMQ, schedState, taskAge, taskMgrMQ, mgrState,
                sinceSwap, client, due, late, scan, black, display, resetState>>

Records == 0 .. GfxTaskNum - 1
NoTask == -1
NoFrame == -1
(* Frames are counted modulo twice the buffers, enough to tell two frames  *)
(* of one buffer apart.                                                    *)
Frames == 0 .. 2 * CfbNum - 1
Blank == [frame |-> 0, swaps |-> FALSE]
Cfb(f) == f % CfbNum

-----------------------------------------------------------------------------
(* The application.                                                        *)

MgrBlocked == (mgrPc = "recv" /\ taskMgrMQ = <<>>) \/ (mgrPc = "wait" /\ client # "woken")
AppRuns == MgrBlocked /\ ~due

(* nuGfxTaskStart up to the send: the record is filled and counted, and the*)
(* last task of a frame moves on to the next buffer.                       *)
GfxTaskStart(swaps) ==
  /\ AppRuns /\ appPc = "idle" /\ spool < GfxPending
  /\ record' = [record EXCEPT ![recordPtr] = [frame |-> frame, swaps |-> swaps]]
  /\ frame' = IF swaps THEN (frame + 1) % (2 * CfbNum) ELSE frame
  /\ spool' = spool + 1
  /\ appPc' = "send"
  /\ UNCHANGED <<recordPtr, requestMQ, schedState, taskAge, taskMgrMQ, mgrState, sinceSwap,
                 client, due, late, scan, black, display, resetState>>

GfxTaskSend ==
  /\ AppRuns /\ appPc = "send" /\ Len(requestMQ) < GfxMesgs
  /\ requestMQ' = Append(requestMQ, recordPtr)
  /\ recordPtr' = (recordPtr + 1) % GfxTaskNum
  /\ appPc' = "idle"
  /\ UNCHANGED <<record, frame, spool, schedState, taskAge, taskMgrMQ, mgrState, sinceSwap,
                 client, due, late, scan, black, display, resetState>>

AppElse == UNCHANGED <<record, recordPtr, frame, spool, requestMQ, schedState, taskAge, taskMgrMQ,
                       mgrState, sinceSwap, client, due, late, scan, resetState>>

GfxDisplayOn ==
  /\ AppRuns /\ appPc = "idle"
  /\ display' = "trigger"
  /\ AppElse /\ UNCHANGED <<black, appPc>>

(* nuGfxDisplayOff: the flag, then the VI.                                 *)
GfxDisplayOff ==
  /\ AppRuns /\ appPc = "idle"
  /\ display' = "off" /\ appPc' = "black"
  /\ AppElse /\ UNCHANGED black

GfxDisplayBlack ==
  /\ AppRuns /\ appPc = "black"
  /\ black' = TRUE /\ appPc' = "idle"
  /\ AppElse /\ UNCHANGED display

(* nuGfxTaskAllEndWait.                                                    *)
GfxTaskAllEndWait ==
  /\ AppRuns /\ appPc = "idle" /\ appPc' = "drain"
  /\ AppElse /\ UNCHANGED <<black, display>>
GfxTaskAllEnd ==
  /\ AppRuns /\ appPc = "drain" /\ spool = 0 /\ appPc' = "idle"
  /\ AppElse /\ UNCHANGED <<black, display>>

-----------------------------------------------------------------------------
(* nuScExecuteGraphics.                                                    *)

SchedElse == UNCHANGED <<appState, spool, mgrState, sinceSwap, client, due, late, scan, black, display,
                         resetState>>

(* In the before-reset state a task is not drawn: it goes back at once.    *)
SchedTake ==
  /\ schedPc = "recv" /\ requestMQ # <<>>
  /\ curTask' = Head(requestMQ) /\ requestMQ' = Tail(requestMQ)
  /\ schedPc' = IF preNMIFlag = "BEFORE_RESET" THEN "post" ELSE "ready"
  /\ SchedElse /\ UNCHANGED <<content, taskAge, taskMgrMQ>>

(* Mutant: only the buffer on display is waited for.                       *)
CfbNotShown(b) == ~(scan.curr # NoFrame /\ Cfb(scan.curr) = b)

(* nuScWaitTaskReady: the buffer is neither on display nor next.           *)
CfbFree(b) == ~(scan.curr # NoFrame /\ Cfb(scan.curr) = b) /\ ~(scan.next # NoFrame /\ Cfb(scan.next) = b)

SchedStart ==
  LET f == record[curTask].frame
  IN  /\ schedPc = "ready" /\ CfbFree(Cfb(f))
      /\ schedPc' = "run" /\ taskAge' = 0
      /\ content' = [content EXCEPT ![Cfb(f)] = f]
      /\ SchedElse /\ UNCHANGED <<requestMQ, curTask, taskMgrMQ>>

(* The RSP and the RDP are done: D_800B6784 is forgotten.                  *)
SchedDone ==
  /\ schedPc = "run" /\ schedPc' = "post" /\ taskAge' = 0
  /\ SchedElse /\ UNCHANGED <<requestMQ, curTask, content, taskMgrMQ>>

SchedPost ==
  /\ schedPc = "post" /\ Len(taskMgrMQ) < GfxMesgs
  /\ taskMgrMQ' = Append(taskMgrMQ, curTask)
  /\ schedPc' = "recv" /\ curTask' = NoTask
  /\ SchedElse /\ UNCHANGED <<requestMQ, content, taskAge>>

-----------------------------------------------------------------------------
(* A retrace: the VI manager, then nuScEventHandler.  A stretch of the     *)
(* manager's work is shorter than the time between two retraces.           *)

Retrace_ ==
  /\ ~due /\ due' = TRUE
  /\ MgrBlocked \/ ~late
  /\ schedPc = "run" /\ record[curTask].swaps \notin SlowTasks => taskAge + 1 < ShowAge
  /\ late' = ~MgrBlocked
  /\ scan' = [scan EXCEPT !.curr = scan.next]
  /\ UNCHANGED <<appState, spool, requestMQ, schedState, taskAge, taskMgrMQ, mgrState, sinceSwap,
                 client, black, display, resetState>>

Least(a, b) == IF a < b THEN a ELSE b

(* The task's frame at ShowAge; the display off at DarkAge, unless the      *)
(* game's gate D_800B67C0 is up; the clients; and the end of the time that *)
(* a pre-NMI leaves, when the screen goes black, the display left alone.   *)
HandleRetrace(gate) ==
  LET dark == schedPc = "run" /\ taskAge' = DarkAge /\ ~gate
      over == preNMIFlag # "YET" /\ beforeResetFrame = 0
  IN  /\ due /\ due' = FALSE
      /\ sinceSwap' = Least(sinceSwap + 1, Pace)
      /\ taskAge' = IF schedPc = "run" THEN Least(taskAge + 1, DarkAge + 1) ELSE taskAge
      /\ scan' = IF schedPc = "run" /\ taskAge' = ShowAge
                 THEN [scan EXCEPT !.next = record[curTask].frame] ELSE scan
      /\ display' = IF dark THEN "off" ELSE display
      /\ black' = (black \/ dark \/ over)
      /\ client' = IF client = "waiting" THEN "woken" ELSE client
      /\ preNMIFlag' = IF over THEN "BEFORE_RESET" ELSE preNMIFlag
      /\ beforeResetFrame' = IF preNMIFlag = "YET" \/ over THEN beforeResetFrame ELSE beforeResetFrame - 1
      /\ UNCHANGED <<appState, spool, requestMQ, schedState, taskMgrMQ, mgrState, late>>

(* The pre-NMI, once (the kernel's own part is in OsKernel): the event      *)
(* handler sets the flag and the time left; the game's hook is left out.   *)
HandlePreNmi ==
  /\ preNMIFlag = "YET"
  /\ preNMIFlag' = "GET" /\ beforeResetFrame' = GfxResetFrames
  /\ UNCHANGED <<appState, spool, requestMQ, schedState, taskAge, taskMgrMQ, mgrState, sinceSwap,
                 client, due, late, scan, black, display>>

-----------------------------------------------------------------------------
(* nuGfxTaskMgr.                                                           *)

MgrTo(pc) ==
  /\ ~due
  /\ mgrPc' = pc
  /\ late' = (late /\ pc \notin {"recv", "wait"})
  /\ UNCHANGED <<recordPtr, frame, appPc, requestMQ, schedState, taskAge, due, resetState>>

(* The task leaves the count; what its record holds is not read again, and *)
(* forgotten.                                                              *)
Retired ==
  /\ spool' = spool - 1
  /\ record' = [record EXCEPT ![mgrTask] = Blank]
  /\ mgrTask' = NoTask

MgrRecv ==
  /\ mgrPc = "recv" /\ taskMgrMQ # <<>>
  /\ mgrTask' = Head(taskMgrMQ) /\ taskMgrMQ' = Tail(taskMgrMQ)
  /\ MgrTo(IF record[mgrTask'].swaps THEN "pace" ELSE "end")
  /\ UNCHANGED <<record, spool, sinceSwap, client, scan, black, display>>

MgrPace ==
  /\ mgrPc = "pace"
  /\ IF sinceSwap >= Pace THEN MgrTo("swap") /\ sinceSwap' = 0
     ELSE MgrTo("register") /\ UNCHANGED sinceSwap
  /\ UNCHANGED <<record, mgrTask, taskMgrMQ, spool, client, scan, black, display>>

(* nuGfxRetraceWait(1).                                                    *)
MgrRegister ==
  /\ mgrPc = "register" /\ MgrTo("wait") /\ client' = "waiting"
  /\ UNCHANGED <<record, mgrTask, taskMgrMQ, spool, sinceSwap, scan, black, display>>
MgrWoken ==
  /\ mgrPc = "wait" /\ client = "woken" /\ MgrTo("pace") /\ client' = "none"
  /\ UNCHANGED <<record, mgrTask, taskMgrMQ, spool, sinceSwap, scan, black, display>>

MgrSwap ==
  /\ mgrPc = "swap" /\ MgrTo("retire")
  /\ scan' = [scan EXCEPT !.next = record[mgrTask].frame]
  /\ UNCHANGED <<record, mgrTask, taskMgrMQ, spool, sinceSwap, client, black, display>>

MgrRetire ==
  /\ mgrPc = "retire" /\ MgrTo("display") /\ Retired
  /\ UNCHANGED <<taskMgrMQ, sinceSwap, client, scan, black, display>>

MgrDisplay ==
  /\ mgrPc = "display"
  /\ IF display = "trigger" THEN MgrTo("on") /\ black' = FALSE
     ELSE MgrTo("recv") /\ UNCHANGED black
  /\ UNCHANGED <<record, mgrTask, taskMgrMQ, spool, sinceSwap, client, scan, display>>
MgrOn ==
  /\ mgrPc = "on" /\ MgrTo("recv") /\ display' = "on"
  /\ UNCHANGED <<record, mgrTask, taskMgrMQ, spool, sinceSwap, client, scan, black>>

(* NU_SC_GTASKEND_MSG.                                                     *)
MgrEnd ==
  /\ mgrPc = "end" /\ MgrTo("recv") /\ Retired
  /\ UNCHANGED <<taskMgrMQ, sinceSwap, client, scan, black, display>>

-----------------------------------------------------------------------------
(* nuGfxTaskMgrInit, two retraces or more after the counter started.       *)
GfxInit ==
  /\ record = [r \in Records |-> Blank]
  /\ recordPtr = 0 /\ spool = 0 /\ frame = 0 /\ appPc = "idle"
  /\ requestMQ = <<>> /\ schedPc = "recv" /\ curTask = NoTask /\ taskAge = 0
  /\ taskMgrMQ = <<>> /\ mgrPc = "recv" /\ mgrTask = NoTask
  /\ sinceSwap = Pace /\ client = "none" /\ due = FALSE /\ late = FALSE
  /\ scan = [curr |-> NoFrame, next |-> NoFrame]
  /\ black = TRUE /\ display = "off"
  /\ preNMIFlag = "YET" /\ beforeResetFrame = 0
  /\ content = [b \in 0 .. CfbNum - 1 |-> NoFrame]

AppCall == (\E swaps \in BOOLEAN : GfxTaskStart(swaps)) \/ GfxDisplayOn \/ GfxDisplayOff \/ GfxTaskAllEndWait
AppStep == GfxTaskSend \/ GfxDisplayBlack \/ GfxTaskAllEnd
SchedStep == SchedTake \/ SchedStart \/ SchedDone \/ SchedPost
MgrStep == MgrRecv \/ MgrPace \/ MgrRegister \/ MgrWoken \/ MgrSwap \/ MgrRetire \/ MgrDisplay
           \/ MgrOn \/ MgrEnd

HandlerStep == HandlePreNmi \/ \E gate \in BOOLEAN : HandleRetrace(gate)

GfxNext == AppCall \/ AppStep \/ SchedStep \/ MgrStep \/ Retrace_ \/ HandlerStep

GfxSpec == GfxInit /\ [][GfxNext]_gfxVars

-----------------------------------------------------------------------------
(* The tasks of the manager's and of the scheduler's, and the one in hand. *)
MgrHolds == IF mgrPc \in {"pace", "register", "wait", "swap", "retire", "end"} THEN <<mgrTask>> ELSE <<>>
InFlight ==
  MgrHolds \o taskMgrMQ \o (IF curTask = NoTask THEN <<>> ELSE <<curTask>>) \o requestMQ
  \o (IF appPc = "send" THEN <<recordPtr>> ELSE <<>>)

(* The spool counts what is in flight, exactly, so that a drain waits for  *)
(* all of it and no longer; and no record is in flight twice, which is what*)
(* filling one before the manager is done with it would make of the ring.  *)
SpoolCounts ==
  /\ spool = Len(InFlight)
  /\ Cardinality({InFlight[i] : i \in DOMAIN InFlight}) = Len(InFlight)

(* A frame on display, or next, is the one its task drew, not overwritten  *)
(* since, until a reset lets tasks go back undrawn; and nothing is ever    *)
(* drawn to a buffer on display, except by a task that took so long that   *)
(* the event handler showed it as it was.                                  *)
DrawnWhole(f) == content[Cfb(f)] = f \/ preNMIFlag = "BEFORE_RESET"
FramesWhole ==
  /\ \A f \in {scan.curr, scan.next} \ {NoFrame} : DrawnWhole(f)
  /\ schedPc = "run" /\ taskAge < ShowAge => CfbFree(Cfb(record[curTask].frame))
  /\ mgrPc = "swap" => DrawnWhole(record[mgrTask].frame)

(* Off means black, whichever of the application, the manager and the event*)
(* handler last had a hand in it; and on means not black, until a reset    *)
(* blanks the screen whatever the display is.                              *)
DisplayAgrees ==
  /\ display = "off" /\ appPc # "black" => black
  /\ display = "on" => ~black \/ preNMIFlag = "BEFORE_RESET"

(* nuGfxTaskAllEndWait returns.                                            *)
DrainEnds == []<>(appPc # "drain")

(* The graphics task manager, and the scheduler and event handler as far as*)
(* they are part of it: the count of tasks in flight is exact, no frame is *)
(* shown half drawn, and the screen is dark when the display is off; and,  *)
(* before a reset, only then.                                              *)
GfxInv == SpoolCounts /\ FramesWhole /\ DisplayAgrees
================================================================================
