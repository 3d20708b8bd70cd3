------------------------------- MODULE NuSched -------------------------------
(***************************************************************************)
(* The nusys RCP scheduler (src/src/libnusys/nusched.c): an event handler  *)
(* thread, an audio thread and a graphics thread share the one RSP.  Audio *)
(* may take the RSP from a running graphics task, by asking it to yield    *)
(* and starting it again afterwards.                                       *)
(*                                                                         *)
(* The kernel is used through what OsKernel establishes: the thread of     *)
(* highest priority that is not blocked runs (HighestRuns), and a thread   *)
(* blocked on a queue is ready as soon as the queue lets it go on          *)
(* (NoLostMessageWakeup).  So a step of a thread needs every thread of     *)
(* higher priority to be blocked; interrupts may come between any two      *)
(* steps.  What the code does with interrupts masked is one step.          *)
(***************************************************************************)
EXTENDS Integers, Sequences

CONSTANTS
  GfxTasks,        (* the graphics tasks clients submit                     *)
  AudioTasks,      (* the audio tasks clients submit                        *)
  NoTask,          (* the NULL task pointer                                 *)
  FirstTask,       (* the first record of the ring nuGfxTask                *)
  NextTask,        (* the record after each record of the ring              *)
  NoRdp,           (* the graphics tasks with the flag NU_SC_NORDP          *)
  SwapTasks,       (* the graphics tasks with the flag NU_SC_SWAPBUFFER     *)
  Framebuffers,
  FirstShown,      (* the framebuffer shown when FirstTask is next          *)
  Framebuffer,     (* the framebuffer of each graphics task                 *)
  FrameBufferNum,  (* nusched.frameBufferNum                                *)
  MaxMesgs,        (* NU_SC_MAX_MESGS, the slots of each queue              *)
  FrameRate,       (* nusched.frameRate                                     *)
  RetraceCount,    (* nusched.retraceCount: the numFields of the program    *)
  SwapAge,         (* 0x20: retraces after which a task is shown anyway     *)
  OffAge,          (* 0x36: retraces after which the display goes off       *)
  ResetButton,     (* whether the reset button may be pressed               *)
  ManagerLag       (* the retraces the task manager may let pass before it  *)
                   (* hands a finished frame to the VI                      *)

(* The retraces between the pre-NMI and the state before reset.            *)
BeforeResetFrames == (FrameRate \div 2) \div RetraceCount - 3

ASSUME NuSchedAssumption ==
  /\ GfxTasks \cap AudioTasks = {}
  /\ NoTask \notin GfxTasks \cup AudioTasks
  /\ NextTask \in [GfxTasks -> GfxTasks]
  /\ FirstTask \in GfxTasks
  /\ NoRdp \subseteq GfxTasks
  /\ SwapTasks \subseteq GfxTasks
  /\ FirstShown \in Framebuffers
  /\ Framebuffer \in [GfxTasks -> Framebuffers]
  /\ MaxMesgs \in Nat \ {0}
  /\ FrameRate \in Nat
  /\ RetraceCount \in Nat \ {0}
  /\ SwapAge \in Nat
  /\ OffAge \in Nat
  /\ ResetButton \in BOOLEAN
  /\ ManagerLag \in Nat
  /\ ManagerLag < SwapAge
  /\ SwapAge < OffAge
  /\ BeforeResetFrames >= 0

VARIABLES
  retraceMQ,              (* events for the handler, oldest first           *)
  audioRequestMQ,
  graphicsRequestMQ,
  rspMQ,                  (* the number of RSP_DONE messages                *)
  rdpMQ,                  (* the number of RDP_DONE messages                *)
  waitMQ,                 (* the number of messages in waitMQ               *)
  doneMQ,                 (* the graphics tasks acknowledged to the manager *)
  submitted,              (* the tasks whose client waits for them          *)
  taskPtr,                (* nuGfxTask_ptr: the next record to submit       *)
  curAudioTask,
  curGraphicsTask,
  graphicsTaskSuspended,
  client,                 (* the graphics thread is a client for retraces   *)
  preNMIFlag,             (* nuScPreNMIFlag                                 *)
  beforeResetFrame,
  resetPressed,           (* the pre-NMI interrupt has come                 *)
  inFlight,               (* D_800B6784                                     *)
  age,                    (* nuScRetraceCounter - D_8012F4D4, up to OffAge+1*)
  viCurrent, viNext,      (* the framebuffers shown and to be shown         *)
  lag,                    (* the retraces the manager has let pass          *)
  aPc, aTask, aGfx,       (* the audio thread: audioTask and gfxTask        *)
  yieldFlag,
  gPc, gTask,             (* the graphics thread                            *)
  rsp,                    (* the task on the RSP, and the signals           *)
  saved,                  (* the tasks with OS_TASK_YIELDED in their flags  *)
  rspWork, rdpWork        (* the tasks the RSP or RDP began and not finished*)

queues == <<retraceMQ, audioRequestMQ, graphicsRequestMQ, rspMQ, rdpMQ, waitMQ, doneMQ>>
shared == <<curAudioTask, curGraphicsTask, graphicsTaskSuspended, client>>
reset  == <<preNMIFlag, beforeResetFrame, resetPressed>>
swap   == <<inFlight, age, viCurrent, viNext, lag>>
audio  == <<aPc, aTask, aGfx, yieldFlag>>
gfx    == <<gPc, gTask>>
hw     == <<rsp, saved, rspWork, rdpWork>>
vars   == <<queues, submitted, taskPtr, shared, reset, swap, audio, gfx, hw>>

MinOf(m, n) == IF m < n THEN m ELSE n

-----------------------------------------------------------------------------
(* Priorities: event handler over audio over graphics over the clients.    *)

HandlerBlocked == retraceMQ = << >>

AudioBlocked ==
  \/ aPc = "request" /\ audioRequestMQ = << >>
  \/ aPc \in {"yielding", "running"} /\ rspMQ = 0
  \/ aPc = "wake" /\ waitMQ >= MaxMesgs
  \/ aPc = "repost" /\ rspMQ >= MaxMesgs

GraphicsBlocked ==
  \/ gPc = "request" /\ graphicsRequestMQ = << >>
  \/ gPc \in {"waitfb", "suspended"} /\ waitMQ = 0
  \/ gPc = "rsp" /\ rspMQ = 0
  \/ gPc = "rdp" /\ rdpMQ = 0
  \/ gPc = "ack" /\ Len(doneMQ) >= MaxMesgs

AudioRuns    == HandlerBlocked /\ ~AudioBlocked
GraphicsRuns == HandlerBlocked /\ AudioBlocked /\ ~GraphicsBlocked
ClientRuns   == HandlerBlocked /\ AudioBlocked /\ GraphicsBlocked

BeforeReset == preNMIFlag = "BEFORE_RESET"

-----------------------------------------------------------------------------
(* The RSP.                                                                *)

(* Mutant: the task is loaded without clearing the signals.                *)
SpTaskStartKeepSignals(t) ==
  /\ rsp' = [rsp EXCEPT !.task = t]
  /\ saved' = saved \ {t}
  /\ rspWork' = rspWork \cup {t}

(* osSpTaskLoad and osSpTaskStartGo: a task with OS_TASK_YIELDED goes on   *)
(* from its yield buffer and loses the flag.                               *)
SpTaskStart(t) ==
  /\ rsp' = [task |-> t, yield |-> FALSE, yielded |-> FALSE]
  /\ saved' = saved \ {t}
  /\ rspWork' = rspWork \cup {t}

(* osSpTaskYielded(t) when the RSP has stopped.                            *)
SpTaskYielded(t) ==
  saved' = IF rsp.yield /\ rsp.yielded THEN saved \cup {t} ELSE saved

(* The RSP stops and raises its interrupt: the task is done, or it has     *)
(* saved itself because it was asked to yield.                             *)
RspDone ==
  /\ rsp.task # NoTask
  /\ \/ /\ rspWork' = rspWork \ {rsp.task}
        /\ rsp' = [rsp EXCEPT !.task = NoTask]
     \/ /\ rsp.yield
        /\ rspWork' = rspWork
        /\ rsp' = [rsp EXCEPT !.task = NoTask, !.yielded = TRUE]
  /\ rspMQ' = MinOf(rspMQ + 1, MaxMesgs)
  /\ UNCHANGED <<retraceMQ, audioRequestMQ, graphicsRequestMQ, rdpMQ, waitMQ, doneMQ,
                 submitted, taskPtr, shared, reset, swap, audio, gfx, saved, rdpWork>>

(* The RDP has drawn all of a task, and raises its interrupt.              *)
RdpDone ==
  \E t \in rdpWork :
    /\ rdpWork' = rdpWork \ {t}
    /\ rdpMQ' = MinOf(rdpMQ + 1, MaxMesgs)
    /\ UNCHANGED <<retraceMQ, audioRequestMQ, graphicsRequestMQ, rspMQ, waitMQ, doneMQ,
                   submitted, taskPtr, shared, reset, swap, audio, gfx, rsp, saved, rspWork>>

-----------------------------------------------------------------------------
(* Retraces and the reset button.                                          *)

(* The VI manager shows the next framebuffer and posts the retrace.  The   *)
(* graphics task manager paces the frames it hands over, two retraces      *)
(* apart, so it lets only a few retraces pass.                             *)
Retrace ==
  /\ doneMQ # << >> => lag < ManagerLag
  /\ lag' = IF doneMQ = << >> THEN 0 ELSE lag + 1
  /\ viCurrent' = viNext
  /\ retraceMQ' = IF Len(retraceMQ) < MaxMesgs THEN Append(retraceMQ, "VIDEO") ELSE retraceMQ
  /\ UNCHANGED <<audioRequestMQ, graphicsRequestMQ, rspMQ, rdpMQ, waitMQ, doneMQ,
                 submitted, taskPtr, shared, reset, inFlight, age, viNext, audio, gfx, hw>>

PreNmi ==
  /\ ResetButton /\ ~resetPressed
  /\ resetPressed' = TRUE
  /\ retraceMQ' = IF Len(retraceMQ) < MaxMesgs THEN Append(retraceMQ, "PRE_NMI") ELSE retraceMQ
  /\ UNCHANGED <<audioRequestMQ, graphicsRequestMQ, rspMQ, rdpMQ, waitMQ, doneMQ,
                 submitted, taskPtr, shared, preNMIFlag, beforeResetFrame, swap, audio, gfx, hw>>

(* nuScEventHandler, VIDEO_MSG: the task in flight is shown after SwapAge   *)
(* retraces and forgotten after OffAge, unless the game's gate D_800B67C0   *)
(* forbids it; clients get their retrace; the countdown to the reset.      *)
HandleVideo(gate) ==
  /\ Head(retraceMQ) = "VIDEO"
  /\ age' = MinOf(age + 1, OffAge + 1)
  /\ viNext' = IF inFlight # NoTask /\ age' = SwapAge THEN Framebuffer[inFlight] ELSE viNext
  /\ inFlight' = IF age' = OffAge /\ ~gate THEN NoTask ELSE inFlight
  /\ waitMQ' = IF client THEN MinOf(waitMQ + 1, MaxMesgs) ELSE waitMQ
  /\ IF preNMIFlag # "YET" /\ beforeResetFrame # 0
     THEN /\ beforeResetFrame' = beforeResetFrame - 1
          /\ preNMIFlag' = preNMIFlag
     ELSE /\ preNMIFlag' = IF preNMIFlag = "YET" THEN "YET" ELSE "BEFORE_RESET"
          /\ UNCHANGED beforeResetFrame

(* nuScEventHandler, PRE_NMI_MSG.                                          *)
HandlePreNmi ==
  /\ Head(retraceMQ) = "PRE_NMI"
  /\ preNMIFlag' = "GET"
  /\ beforeResetFrame' = BeforeResetFrames
  /\ UNCHANGED <<age, viNext, inFlight, waitMQ>>

EventHandler ==
  /\ ~HandlerBlocked
  /\ HandlePreNmi \/ \E gate \in BOOLEAN : HandleVideo(gate)
  /\ retraceMQ' = Tail(retraceMQ)
  /\ UNCHANGED <<audioRequestMQ, graphicsRequestMQ, rspMQ, rdpMQ, doneMQ,
                 submitted, taskPtr, shared, resetPressed, viCurrent, lag, audio, gfx, hw>>

-----------------------------------------------------------------------------
(* nuScExecuteAudio.                                                       *)

(* Take a request; before the reset it is only acknowledged.               *)
AudioRequest ==
  /\ AudioRuns
  /\ aPc = "request"
  /\ audioRequestMQ' = Tail(audioRequestMQ)
  /\ aTask' = Head(audioRequestMQ)
  /\ yieldFlag' = "NONE"
  /\ aPc' = IF BeforeReset THEN "ack" ELSE "look"
  /\ UNCHANGED <<retraceMQ, graphicsRequestMQ, rspMQ, rdpMQ, waitMQ, doneMQ,
                 submitted, taskPtr, shared, reset, swap, aGfx, gfx, hw>>

AudioLook ==
  /\ AudioRuns
  /\ aPc = "look"
  /\ aGfx' = curGraphicsTask
  /\ aPc' = IF curGraphicsTask # NoTask THEN "yield" ELSE "start"
  /\ UNCHANGED <<queues, submitted, taskPtr, shared, reset, swap, aTask, yieldFlag, gfx, hw>>

(* osSpTaskYield, on whatever the RSP is doing by now.                     *)
AudioYield ==
  /\ AudioRuns
  /\ aPc = "yield"
  /\ rsp' = [rsp EXCEPT !.yield = TRUE]
  /\ aPc' = "yielding"
  /\ UNCHANGED <<queues, submitted, taskPtr, shared, reset, swap, aTask, aGfx, yieldFlag, gfx,
                 saved, rspWork, rdpWork>>

(* Mutant: a task that had finished is taken for one that yielded.         *)
AudioYieldingAlways ==
  /\ AudioRuns
  /\ aPc = "yielding"
  /\ rspMQ' = rspMQ - 1
  /\ SpTaskYielded(aGfx)
  /\ yieldFlag' = "YIELD"
  /\ aPc' = "start"
  /\ UNCHANGED <<retraceMQ, audioRequestMQ, graphicsRequestMQ, rdpMQ, waitMQ, doneMQ,
                 submitted, taskPtr, shared, reset, swap, aTask, aGfx, gfx, rsp, rspWork, rdpWork>>

(* Mutant: a task that yielded is taken for one that had finished.         *)
AudioYieldingNever ==
  /\ AudioRuns
  /\ aPc = "yielding"
  /\ rspMQ' = rspMQ - 1
  /\ SpTaskYielded(aGfx)
  /\ yieldFlag' = "YIELDED"
  /\ aPc' = "start"
  /\ UNCHANGED <<retraceMQ, audioRequestMQ, graphicsRequestMQ, rdpMQ, waitMQ, doneMQ,
                 submitted, taskPtr, shared, reset, swap, aTask, aGfx, gfx, rsp, rspWork, rdpWork>>

(* The RSP has stopped: did the task yield, or had it finished?            *)
AudioYielding ==
  /\ AudioRuns
  /\ aPc = "yielding"
  /\ rspMQ' = rspMQ - 1
  /\ SpTaskYielded(aGfx)
  /\ yieldFlag' = IF rsp.yielded THEN "YIELD" ELSE "YIELDED"
  /\ aPc' = "start"
  /\ UNCHANGED <<retraceMQ, audioRequestMQ, graphicsRequestMQ, rdpMQ, waitMQ, doneMQ,
                 submitted, taskPtr, shared, reset, swap, aTask, aGfx, gfx, rsp, rspWork, rdpWork>>

AudioStart ==
  /\ AudioRuns
  /\ aPc = "start"
  /\ curAudioTask' = aTask
  /\ SpTaskStart(aTask)
  /\ aPc' = "running"
  /\ UNCHANGED <<queues, submitted, taskPtr, curGraphicsTask, graphicsTaskSuspended, client, reset,
                 swap, aTask, aGfx, yieldFlag, gfx, rdpWork>>

AudioRunning ==
  /\ AudioRuns
  /\ aPc = "running"
  /\ rspMQ' = rspMQ - 1
  /\ curAudioTask' = NoTask
  /\ aPc' = "release"
  /\ UNCHANGED <<retraceMQ, audioRequestMQ, graphicsRequestMQ, rdpMQ, waitMQ, doneMQ,
                 submitted, taskPtr, curGraphicsTask, graphicsTaskSuspended, client, reset, swap,
                 aTask, aGfx, yieldFlag, gfx, hw>>

AfterRelease ==
  CASE yieldFlag = "YIELD"   -> "resume"
    [] yieldFlag = "YIELDED" -> "repost"
    [] yieldFlag = "NONE"    -> "ack"

(* Mutant: the suspended graphics thread is not released.                  *)
AudioReleaseNobody ==
  /\ AudioRuns
  /\ aPc = "release"
  /\ aPc' = AfterRelease
  /\ UNCHANGED <<queues, submitted, taskPtr, shared, reset, swap, aTask, aGfx, yieldFlag, gfx, hw>>

(* Is the graphics thread suspended?                                       *)
AudioRelease ==
  /\ AudioRuns
  /\ aPc = "release"
  /\ aPc' = IF graphicsTaskSuspended # NoTask THEN "wake" ELSE AfterRelease
  /\ UNCHANGED <<queues, submitted, taskPtr, shared, reset, swap, aTask, aGfx, yieldFlag, gfx, hw>>

AudioWake ==
  /\ AudioRuns
  /\ aPc = "wake"
  /\ waitMQ' = waitMQ + 1
  /\ aPc' = AfterRelease
  /\ UNCHANGED <<retraceMQ, audioRequestMQ, graphicsRequestMQ, rspMQ, rdpMQ, doneMQ,
                 submitted, taskPtr, shared, reset, swap, aTask, aGfx, yieldFlag, gfx, hw>>

(* The yielded graphics task goes on.                                      *)
AudioResume ==
  /\ AudioRuns
  /\ aPc = "resume"
  /\ SpTaskStart(aGfx)
  /\ aPc' = "ack"
  /\ UNCHANGED <<queues, submitted, taskPtr, shared, reset, swap, aTask, aGfx, yieldFlag, gfx, rdpWork>>

(* The completion taken from the finished graphics task is given back.     *)
AudioRepost ==
  /\ AudioRuns
  /\ aPc = "repost"
  /\ rspMQ' = rspMQ + 1
  /\ aPc' = "ack"
  /\ UNCHANGED <<retraceMQ, audioRequestMQ, graphicsRequestMQ, rdpMQ, waitMQ, doneMQ,
                 submitted, taskPtr, shared, reset, swap, aTask, aGfx, yieldFlag, gfx, hw>>

(* The audio client has one task at a time, so its queue is never full.    *)
AudioAck ==
  /\ AudioRuns
  /\ aPc = "ack"
  /\ submitted' = submitted \ {aTask}
  /\ aPc' = "request"
  /\ UNCHANGED <<queues, taskPtr, shared, reset, swap, aTask, aGfx, yieldFlag, gfx, hw>>

-----------------------------------------------------------------------------
(* nuScExecuteGraphics and nuScWaitTaskReady.                              *)

GraphicsRequest ==
  /\ GraphicsRuns
  /\ gPc = "request"
  /\ graphicsRequestMQ' = Tail(graphicsRequestMQ)
  /\ gTask' = Head(graphicsRequestMQ)
  /\ gPc' = IF BeforeReset THEN "ack" ELSE "ready"
  /\ UNCHANGED <<retraceMQ, audioRequestMQ, rspMQ, rdpMQ, waitMQ, doneMQ,
                 submitted, taskPtr, shared, reset, swap, audio, hw>>

(* nuScWaitTaskReady: become a client for retraces.                        *)
WaitTaskReady ==
  /\ GraphicsRuns
  /\ gPc = "ready"
  /\ IF FrameBufferNum = 1
     THEN gPc' = "gate" /\ UNCHANGED client
     ELSE gPc' = "checkfb" /\ client' = TRUE
  /\ UNCHANGED <<queues, submitted, taskPtr, curAudioTask, curGraphicsTask, graphicsTaskSuspended,
                 reset, swap, audio, gTask, hw>>

(* Mutant: only the framebuffer on screen is looked at.                    *)
CheckCurrentOnly ==
  /\ GraphicsRuns
  /\ gPc = "checkfb"
  /\ IF Framebuffer[gTask] = viCurrent
     THEN gPc' = "waitfb" /\ UNCHANGED client
     ELSE gPc' = "gate" /\ client' = FALSE
  /\ UNCHANGED <<queues, submitted, taskPtr, curAudioTask, curGraphicsTask, graphicsTaskSuspended,
                 reset, swap, audio, gTask, hw>>

(* The loop condition; leaving the loop removes the client.  A retrace     *)
(* between the two reads only makes the next framebuffer the current one.  *)
CheckFramebuffer ==
  /\ GraphicsRuns
  /\ gPc = "checkfb"
  /\ IF Framebuffer[gTask] \in {viCurrent, viNext}
     THEN gPc' = "waitfb" /\ UNCHANGED client
     ELSE gPc' = "gate" /\ client' = FALSE
  /\ UNCHANGED <<queues, submitted, taskPtr, curAudioTask, curGraphicsTask, graphicsTaskSuspended,
                 reset, swap, audio, gTask, hw>>

WaitFramebuffer ==
  /\ GraphicsRuns
  /\ gPc = "waitfb"
  /\ waitMQ' = waitMQ - 1
  /\ gPc' = "checkfb"
  /\ UNCHANGED <<retraceMQ, audioRequestMQ, graphicsRequestMQ, rspMQ, rdpMQ, doneMQ,
                 submitted, taskPtr, shared, reset, swap, audio, gTask, hw>>

(* Suspended, the graphics thread takes any message of waitMQ; the check   *)
(* is made again.                                                          *)
Suspended ==
  /\ GraphicsRuns
  /\ gPc = "suspended"
  /\ waitMQ' = waitMQ - 1
  /\ gPc' = "gate"
  /\ UNCHANGED <<retraceMQ, audioRequestMQ, graphicsRequestMQ, rspMQ, rdpMQ, doneMQ,
                 submitted, taskPtr, shared, reset, swap, audio, gTask, hw>>

(* The task goes to the RSP, and the retraces of its display are counted.  *)
StartGraphics ==
  /\ curGraphicsTask' = gTask
  /\ graphicsTaskSuspended' = NoTask
  /\ age' = 0
  /\ inFlight' = gTask
  /\ SpTaskStart(gTask)
  /\ rdpWork' = IF gTask \in NoRdp THEN rdpWork ELSE rdpWork \cup {gTask}
  /\ gPc' = "rsp"

(* Mutant: once released, the graphics thread does not check again.         *)
GateOnce ==
  /\ GraphicsRuns
  /\ gPc = "gate"
  /\ IF curAudioTask # NoTask /\ graphicsTaskSuspended = NoTask
     THEN /\ graphicsTaskSuspended' = gTask
          /\ gPc' = "suspended"
          /\ UNCHANGED <<curGraphicsTask, age, inFlight, rsp, saved, rspWork, rdpWork>>
     ELSE StartGraphics
  /\ UNCHANGED <<queues, submitted, taskPtr, curAudioTask, client, reset, viCurrent, viNext, lag, audio, gTask>>

(* The while loop on curAudioTask, with interrupts masked.                 *)
Gate ==
  /\ GraphicsRuns
  /\ gPc = "gate"
  /\ IF curAudioTask # NoTask
     THEN /\ graphicsTaskSuspended' = gTask
          /\ gPc' = "suspended"
          /\ UNCHANGED <<curGraphicsTask, age, inFlight, rsp, saved, rspWork, rdpWork>>
     ELSE StartGraphics
  /\ UNCHANGED <<queues, submitted, taskPtr, curAudioTask, client, reset, viCurrent, viNext, lag, audio, gTask>>

(* The RSP has finished; taken and noted with interrupts masked.           *)
GraphicsRspDone ==
  /\ GraphicsRuns
  /\ gPc = "rsp"
  /\ rspMQ' = rspMQ - 1
  /\ curGraphicsTask' = NoTask
  /\ gPc' = IF gTask \in NoRdp THEN "done" ELSE "rdp"
  /\ UNCHANGED <<retraceMQ, audioRequestMQ, graphicsRequestMQ, rdpMQ, waitMQ, doneMQ,
                 submitted, taskPtr, curAudioTask, graphicsTaskSuspended, client, reset, swap, audio,
                 gTask, hw>>

GraphicsRdpDone ==
  /\ GraphicsRuns
  /\ gPc = "rdp"
  /\ rdpMQ' = rdpMQ - 1
  /\ gPc' = "done"
  /\ UNCHANGED <<retraceMQ, audioRequestMQ, graphicsRequestMQ, rspMQ, waitMQ, doneMQ,
                 submitted, taskPtr, shared, reset, swap, audio, gTask, hw>>

(* Mutant: the task in flight is not forgotten.                            *)
GraphicsDoneKept ==
  /\ GraphicsRuns
  /\ gPc = "done"
  /\ gPc' = "ack"
  /\ UNCHANGED <<queues, submitted, taskPtr, shared, reset, swap, audio, gTask, hw>>

GraphicsDone ==
  /\ GraphicsRuns
  /\ gPc = "done"
  /\ inFlight' = NoTask
  /\ gPc' = "ack"
  /\ UNCHANGED <<queues, submitted, taskPtr, shared, reset, age, viCurrent, viNext, lag, audio, gTask, hw>>

GraphicsAck ==
  /\ GraphicsRuns
  /\ gPc = "ack"
  /\ doneMQ' = Append(doneMQ, gTask)
  /\ gPc' = "request"
  /\ UNCHANGED <<retraceMQ, audioRequestMQ, graphicsRequestMQ, rspMQ, rdpMQ, waitMQ,
                 submitted, taskPtr, shared, reset, swap, audio, gTask, hw>>

-----------------------------------------------------------------------------
(* The clients: one audio client, and an application that keeps at most as  *)
(* many tasks in flight as the ring has records.                           *)

SubmitAudio(t) ==
  /\ ClientRuns
  /\ t \notin submitted
  /\ Len(audioRequestMQ) < MaxMesgs
  /\ submitted' = submitted \cup {t}
  /\ audioRequestMQ' = Append(audioRequestMQ, t)
  /\ UNCHANGED <<retraceMQ, graphicsRequestMQ, rspMQ, rdpMQ, waitMQ, doneMQ, taskPtr,
                 shared, reset, swap, audio, gfx, hw>>

(* nuGfxTaskStart: the records are used in the order of the ring.           *)
SubmitGraphics ==
  /\ ClientRuns
  /\ taskPtr \notin submitted
  /\ Len(graphicsRequestMQ) < MaxMesgs
  /\ submitted' = submitted \cup {taskPtr}
  /\ graphicsRequestMQ' = Append(graphicsRequestMQ, taskPtr)
  /\ taskPtr' = NextTask[taskPtr]
  /\ UNCHANGED <<retraceMQ, audioRequestMQ, rspMQ, rdpMQ, waitMQ, doneMQ,
                 shared, reset, swap, audio, gfx, hw>>

(* The graphics task manager shows the frame and retires the task.          *)
Retire ==
  /\ ClientRuns
  /\ doneMQ # << >>
  /\ doneMQ' = Tail(doneMQ)
  /\ lag' = 0
  /\ viNext' = IF Head(doneMQ) \in SwapTasks THEN Framebuffer[Head(doneMQ)] ELSE viNext
  /\ submitted' = submitted \ {Head(doneMQ)}
  /\ UNCHANGED <<retraceMQ, audioRequestMQ, graphicsRequestMQ, rspMQ, rdpMQ, waitMQ, taskPtr,
                 shared, reset, inFlight, age, viCurrent, audio, gfx, hw>>

-----------------------------------------------------------------------------

Init ==
  /\ retraceMQ = << >>
  /\ audioRequestMQ = << >>
  /\ graphicsRequestMQ = << >>
  /\ rspMQ = 0 /\ rdpMQ = 0 /\ waitMQ = 0
  /\ doneMQ = << >>
  /\ submitted = {}
  /\ taskPtr = FirstTask
  /\ curAudioTask = NoTask
  /\ curGraphicsTask = NoTask
  /\ graphicsTaskSuspended = NoTask
  /\ client = FALSE
  /\ preNMIFlag = "YET"
  /\ beforeResetFrame = 0
  /\ resetPressed = FALSE
  /\ inFlight = NoTask
  /\ age = 0
  /\ lag = 0
  /\ viCurrent = FirstShown
  /\ viNext = FirstShown
  /\ aPc = "request" /\ aTask = NoTask /\ aGfx = NoTask /\ yieldFlag = "NONE"
  /\ gPc = "request" /\ gTask = NoTask
  /\ rsp = [task |-> NoTask, yield |-> FALSE, yielded |-> FALSE]
  /\ saved = {} /\ rspWork = {} /\ rdpWork = {}

AudioThread ==
  \/ AudioRequest \/ AudioLook \/ AudioYield \/ AudioYielding \/ AudioStart
  \/ AudioRunning \/ AudioRelease \/ AudioWake \/ AudioResume \/ AudioRepost \/ AudioAck

GraphicsThread ==
  \/ GraphicsRequest \/ WaitTaskReady \/ CheckFramebuffer \/ WaitFramebuffer \/ Suspended
  \/ Gate \/ GraphicsRspDone \/ GraphicsRdpDone \/ GraphicsDone \/ GraphicsAck

Next ==
  \/ EventHandler
  \/ AudioThread
  \/ GraphicsThread
  \/ \E t \in AudioTasks : SubmitAudio(t)
  \/ SubmitGraphics
  \/ Retire
  \/ RspDone
  \/ RdpDone
  \/ Retrace
  \/ PreNmi

(* The program runs until it is switched off: retraces go on coming, the   *)
(* handler catches up with them, as its work is short and a retrace is     *)
(* 1/60 s, and then a thread that is ready again and again gets the CPU;   *)
(* the RCP finishes what it is given, also in pieces, since audio takes    *)
(* only a small part of each frame.                                        *)
Fairness ==
  /\ WF_vars(Retrace)
  /\ WF_vars(EventHandler)
  /\ SF_vars(EventHandler /\ retraceMQ' = << >>)
  /\ SF_vars(AudioThread)
  /\ SF_vars(GraphicsThread)
  /\ SF_vars(Retire)
  /\ \A t \in GfxTasks \cup AudioTasks : SF_vars(RspDone /\ t \in rspWork \ rspWork')
  /\ WF_vars(RdpDone)

Spec == Init /\ [][Next]_vars /\ Fairness

-----------------------------------------------------------------------------
(* Properties.                                                             *)

AudioSteps == {"request", "look", "yield", "yielding", "start", "running",
               "release", "wake", "resume", "repost", "ack"}
GraphicsSteps == {"request", "ready", "checkfb", "waitfb", "gate", "suspended",
                  "rsp", "rdp", "done", "ack"}

(* Every variable keeps its type, and no queue overflows.                  *)
TypeOK ==
  /\ retraceMQ \in Seq({"VIDEO", "PRE_NMI"}) /\ Len(retraceMQ) <= MaxMesgs
  /\ audioRequestMQ \in Seq(AudioTasks) /\ Len(audioRequestMQ) <= MaxMesgs
  /\ graphicsRequestMQ \in Seq(GfxTasks) /\ Len(graphicsRequestMQ) <= MaxMesgs
  /\ rspMQ \in 0 .. MaxMesgs
  /\ rdpMQ \in 0 .. MaxMesgs
  /\ waitMQ \in 0 .. MaxMesgs
  /\ doneMQ \in Seq(GfxTasks) /\ Len(doneMQ) <= MaxMesgs
  /\ submitted \subseteq GfxTasks \cup AudioTasks
  /\ taskPtr \in GfxTasks
  /\ curAudioTask \in AudioTasks \cup {NoTask}
  /\ curGraphicsTask \in GfxTasks \cup {NoTask}
  /\ graphicsTaskSuspended \in GfxTasks \cup {NoTask}
  /\ client \in BOOLEAN
  /\ preNMIFlag \in {"YET", "GET", "BEFORE_RESET"}
  /\ beforeResetFrame \in 0 .. BeforeResetFrames
  /\ resetPressed \in BOOLEAN
  /\ inFlight \in GfxTasks \cup {NoTask}
  /\ age \in 0 .. OffAge + 1
  /\ lag \in 0 .. ManagerLag
  /\ viCurrent \in Framebuffers
  /\ viNext \in Framebuffers
  /\ aPc \in AudioSteps
  /\ aTask \in AudioTasks \cup {NoTask}
  /\ aGfx \in GfxTasks \cup {NoTask}
  /\ yieldFlag \in {"NONE", "YIELD", "YIELDED"}
  /\ gPc \in GraphicsSteps
  /\ gTask \in GfxTasks \cup {NoTask}
  /\ rsp \in [task : GfxTasks \cup AudioTasks \cup {NoTask}, yield : BOOLEAN, yielded : BOOLEAN]
  /\ saved \subseteq GfxTasks
  /\ rspWork \subseteq GfxTasks \cup AudioTasks
  /\ rdpWork \subseteq GfxTasks

Starts(t) == rsp'.task = t /\ rsp.task # t

(* The RSP is only given a task when it has stopped and its last message   *)
(* was taken, whatever the audio thread and the graphics thread each know  *)
(* of the other (nusched.c:331-353, 409-437).                              *)
StartsIdleRsp ==
  [][\A t \in GfxTasks \cup AudioTasks : Starts(t) => rsp.task = NoTask /\ rspMQ = 0]_vars

(* A graphics task the RSP gave up half way is started again from its      *)
(* yield buffer, and a finished one not at all; never from the beginning.  *)
ResumesFromSave ==
  [][\A t \in GfxTasks : Starts(t) =>
       IF aPc = "resume" THEN t \in saved /\ t \in rspWork
                         ELSE t \notin saved /\ t \notin rspWork]_vars

(* A thread goes on from its wait for the RSP only when its own task is    *)
(* done: a completion is neither stolen, nor lost, nor made of a yield.    *)
CompletionIsOwn ==
  /\ gPc \in {"rdp", "done"} => gTask \notin rspWork
  /\ gPc = "done" => gTask \notin rdpWork
  /\ aPc \in {"release", "wake", "resume", "repost"} => aTask \notin rspWork

(* The request to yield never hits another task than the one it was for.   *)
YieldIsForGraphics ==
  rsp.yield /\ rsp.task # NoTask => aPc = "yielding" /\ rsp.task = aGfx

(* A graphics task starts only on a framebuffer that is neither shown nor  *)
(* about to be, also when audio kept it waiting after the check            *)
(* (nusched.c:404-431 and 499-511).                                        *)
StartsOffScreen ==
  [][\A t \in GfxTasks :
       Starts(t) /\ aPc # "resume" /\ FrameBufferNum # 1 =>
         Framebuffer[t] \notin {viCurrent, viNext}]_vars

(* The task whose framebuffer the event handler may show is the one the    *)
(* graphics thread is busy with.                                           *)
InFlightIsCurrent ==
  inFlight # NoTask => inFlight = gTask /\ gPc \in {"rsp", "rdp", "done"}

(* A suspended graphics thread has a release to come.                      *)
ReleaseToCome ==
  gPc = "suspended" /\ waitMQ = 0 => curAudioTask # NoTask \/ aPc \in {"release", "wake"}

(* Every task is acknowledged, whatever it waits for on its way.            *)
AllAcknowledged ==
  \A t \in GfxTasks \cup AudioTasks : t \in submitted ~> t \notin submitted

(* "During the pre-reset window, don't touch the RSP; just acknowledge"    *)
(* (nusched.c:320 and 398).                                                *)
RspLeftAlone ==
  [][\A t \in GfxTasks \cup AudioTasks : Starts(t) => ~BeforeReset]_vars
===============================================================================
