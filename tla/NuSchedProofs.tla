------------------------------ MODULE NuSchedProofs ------------------------------
(***************************************************************************)
(* Theorems about the RCP scheduler of nusys, for any number of graphics   *)
(* and audio tasks, any flags and any depth of the queues.                 *)
(*                                                                         *)
(* The scheduler's properties are about two threads that share a processor *)
(* none of them looks at: each acts on what it last knew of the other.     *)
(* The inductive invariant says, for each pair of places the two threads   *)
(* can be in, what the RSP can be doing and whose completion is waiting.   *)
(***************************************************************************)
EXTENDS NuSched, SequenceTheorems, TLAPS

(* The inductive invariant.  Each thread's step says what it knows of the  *)
(* other, and who holds the RSP says what the RSP can be doing.            *)

(* The steps at which the audio thread has the RSP to itself.              *)
AudioHolds == aPc \in {"start", "running", "release", "resume", "repost"}

(* The RSP is idle and no completion is waiting; it runs t; t has ended and *)
(* its completion is waiting; t has saved itself half way, and so is.       *)
Quiet      == rsp.task = NoTask /\ rspMQ = 0
Runs(t)    == rsp.task = t /\ rspMQ = 0 /\ t \in rspWork /\ ~rsp.yielded
Ended(t)   == rsp.task = NoTask /\ rspMQ = 1 /\ t \notin rspWork /\ ~rsp.yielded
Yielded(t) == rsp.task = NoTask /\ rspMQ = 1 /\ t \in rspWork /\ rsp.yield /\ rsp.yielded

GraphicsKnows ==
  /\ gPc # "request" => gTask \in GfxTasks
  /\ curGraphicsTask = IF gPc = "rsp" THEN gTask ELSE NoTask
  /\ graphicsTaskSuspended # NoTask => gPc \in {"suspended", "gate"}
  /\ gPc = "suspended" => graphicsTaskSuspended = gTask

AudioKnows ==
  /\ aPc # "request" => aTask \in AudioTasks
  /\ curAudioTask = IF aPc = "running" THEN aTask ELSE NoTask
  /\ aPc \in {"yield", "yielding"} => gPc = "rsp" /\ aGfx = gTask
  /\ AudioHolds => IF yieldFlag = "NONE" THEN gPc # "rsp" ELSE gPc = "rsp" /\ aGfx = gTask
  /\ aPc \in {"look", "yield", "yielding", "wake"} => yieldFlag = "NONE"
  /\ aPc = "resume" => yieldFlag = "YIELD"
  /\ aPc = "repost" => yieldFlag = "YIELDED"

(* What the RSP is doing, and the last yield of the graphics task while    *)
(* audio has taken its place.                                              *)
RspIs ==
  /\ aPc \in {"start", "release", "resume", "repost"} => Quiet
  /\ aPc \in {"release", "resume", "repost"} => ~rsp.yielded
  /\ aPc = "running" => Runs(aTask) \/ Ended(aTask)
  /\ ~AudioHolds => IF gPc = "rsp"
                    THEN Runs(gTask) \/ Ended(gTask) \/ (aPc = "yielding" /\ Yielded(gTask))
                    ELSE Quiet
  /\ AudioHolds => /\ yieldFlag = "YIELD" => gTask \in saved /\ gTask \in rspWork
                   /\ yieldFlag = "YIELDED" => gTask \notin rspWork
  /\ rsp.yield /\ rsp.task # NoTask => aPc = "yielding"

(* Nothing is begun or saved but what a thread waits for.                  *)
WorkIs ==
  /\ \A t \in saved : t = gTask /\ gPc = "rsp" /\ yieldFlag = "YIELD" /\ AudioHolds
  /\ \A t \in rspWork : \/ t = gTask /\ gPc = "rsp"
                        \/ t = aTask /\ aPc = "running"
  /\ IF gPc \in {"rsp", "rdp"} /\ gTask \notin NoRdp
     THEN \/ rdpWork = {gTask} /\ rdpMQ = 0
          \/ rdpWork = {} /\ rdpMQ = 1
     ELSE rdpWork = {} /\ rdpMQ = 0
  /\ gPc = "rdp" => gTask \notin NoRdp

NuInv == /\ TypeOK /\ GraphicsKnows /\ AudioKnows /\ RspIs /\ WorkIs
         /\ InFlightIsCurrent /\ ReleaseToCome

-----------------------------------------------------------------------------
(* The types in four groups.                                               *)
QueueTypes ==
  /\ retraceMQ \in Seq({"VIDEO", "PRE_NMI"}) /\ Len(retraceMQ) <= MaxMesgs
  /\ audioRequestMQ \in Seq(AudioTasks) /\ Len(audioRequestMQ) <= MaxMesgs
  /\ graphicsRequestMQ \in Seq(GfxTasks) /\ Len(graphicsRequestMQ) <= MaxMesgs
  /\ doneMQ \in Seq(GfxTasks) /\ Len(doneMQ) <= MaxMesgs
CountTypes ==
  /\ rspMQ \in 0 .. MaxMesgs /\ rdpMQ \in 0 .. MaxMesgs /\ waitMQ \in 0 .. MaxMesgs
  /\ beforeResetFrame \in 0 .. BeforeResetFrames
  /\ age \in 0 .. OffAge + 1 /\ lag \in 0 .. ManagerLag
FlagTypes ==
  /\ client \in BOOLEAN /\ resetPressed \in BOOLEAN
  /\ rsp \in [task : GfxTasks \cup AudioTasks \cup {NoTask}, yield : BOOLEAN, yielded : BOOLEAN]
TaskTypes ==
  /\ submitted \subseteq GfxTasks \cup AudioTasks
  /\ taskPtr \in GfxTasks
  /\ curAudioTask \in AudioTasks \cup {NoTask}
  /\ curGraphicsTask \in GfxTasks \cup {NoTask}
  /\ graphicsTaskSuspended \in GfxTasks \cup {NoTask}
  /\ preNMIFlag \in {"YET", "GET", "BEFORE_RESET"}
  /\ inFlight \in GfxTasks \cup {NoTask}
  /\ viCurrent \in Framebuffers
  /\ viNext \in Framebuffers
  /\ aPc \in AudioSteps
  /\ aTask \in AudioTasks \cup {NoTask}
  /\ aGfx \in GfxTasks \cup {NoTask}
  /\ yieldFlag \in {"NONE", "YIELD", "YIELDED"}
  /\ gPc \in GraphicsSteps
  /\ gTask \in GfxTasks \cup {NoTask}
  /\ saved \subseteq GfxTasks
  /\ rspWork \subseteq GfxTasks \cup AudioTasks
  /\ rdpWork \subseteq GfxTasks

(* What taking and putting a message does to a queue.                      *)
LEMMA Taken ==
  ASSUME NEW S, NEW s \in Seq(S), s # << >>
  PROVE  Head(s) \in S /\ Tail(s) \in Seq(S) /\ Len(s) \in Nat \ {0} /\ Len(Tail(s)) = Len(s) - 1
BY HeadTailProperties, LenProperties, EmptySeq

LEMMA PutIn ==
  ASSUME NEW S, NEW s \in Seq(S), NEW e \in S
  PROVE  Append(s, e) \in Seq(S) /\ Len(s) \in Nat /\ Len(Append(s, e)) = Len(s) + 1
BY AppendProperties, LenProperties

LEMMA BeforeResetNat == BeforeResetFrames \in Nat
BY NuSchedAssumption DEF BeforeResetFrames

LEMMA TypeGroups == TypeOK <=> QueueTypes /\ CountTypes /\ FlagTypes /\ TaskTypes
BY DEF TypeOK, QueueTypes, CountTypes, FlagTypes, TaskTypes

(* Queues.                                  *)
LEMMA NuQueueTypes ==
  ASSUME NuInv, [Next]_vars
  PROVE  QueueTypes'
<1> USE Taken, PutIn, NuSchedAssumption DEF NuInv, TypeOK, QueueTypes,
        GraphicsKnows, AudioRuns, AudioBlocked, GraphicsRuns, GraphicsBlocked,
        HandlerBlocked, ClientRuns, queues, shared, reset, swap, audio, gfx,
        hw
<1>1. CASE AudioRequest
  BY <1>1 DEF AudioRequest
<1>2. CASE AudioLook
  BY <1>2 DEF AudioLook
<1>3. CASE AudioYield
  BY <1>3 DEF AudioYield
<1>4. CASE AudioYielding
  BY <1>4 DEF AudioYielding, SpTaskYielded
<1>5. CASE AudioStart
  BY <1>5 DEF AudioStart, SpTaskStart
<1>6. CASE AudioRunning
  BY <1>6 DEF AudioRunning
<1>7. CASE AudioRelease
  BY <1>7 DEF AudioRelease, AfterRelease
<1>8. CASE AudioWake
  BY <1>8 DEF AudioWake, AfterRelease
<1>9. CASE AudioResume
  BY <1>9 DEF AudioResume, SpTaskStart
<1>10. CASE AudioRepost
  BY <1>10 DEF AudioRepost
<1>11. CASE AudioAck
  BY <1>11 DEF AudioAck
<1>12. CASE GraphicsRequest
  BY <1>12 DEF GraphicsRequest
<1>13. CASE WaitTaskReady
  BY <1>13 DEF WaitTaskReady
<1>14. CASE CheckFramebuffer
  BY <1>14 DEF CheckFramebuffer
<1>15. CASE WaitFramebuffer
  BY <1>15 DEF WaitFramebuffer
<1>16. CASE Suspended
  BY <1>16 DEF Suspended
<1>17. CASE Gate
  BY <1>17 DEF Gate, StartGraphics, SpTaskStart
<1>18. CASE GraphicsRspDone
  BY <1>18 DEF GraphicsRspDone
<1>19. CASE GraphicsRdpDone
  BY <1>19 DEF GraphicsRdpDone
<1>20. CASE GraphicsDone
  BY <1>20 DEF GraphicsDone
<1>21. CASE GraphicsAck
  BY <1>21 DEF GraphicsAck
<1>22. CASE RspDone
  BY <1>22 DEF RspDone, MinOf
<1>23. CASE RdpDone
  BY <1>23 DEF RdpDone, MinOf
<1>24. CASE EventHandler
  BY <1>24 DEF EventHandler, HandleVideo, HandlePreNmi, MinOf
<1>25. CASE SubmitGraphics
  BY <1>25 DEF SubmitGraphics
<1>26. CASE Retire
  BY <1>26 DEF Retire
<1>27. CASE Retrace
  BY <1>27 DEF Retrace
<1>28. CASE PreNmi
  BY <1>28 DEF PreNmi
<1>29. ASSUME NEW t \in AudioTasks, SubmitAudio(t)
      PROVE  QueueTypes'
  BY <1>29 DEF SubmitAudio
<1>30. CASE UNCHANGED vars
  BY <1>30 DEF vars
<1> QED
  BY <1>1, <1>2, <1>3, <1>4, <1>5, <1>6, <1>7, <1>8, <1>9, <1>10, <1>11,
     <1>12, <1>13, <1>14, <1>15, <1>16, <1>17, <1>18, <1>19, <1>20, <1>21,
     <1>22, <1>23, <1>24, <1>25, <1>26, <1>27, <1>28, <1>29, <1>30 DEF Next,
     AudioThread, GraphicsThread

(* Counts.                                                                 *)
LEMMA NuCountTypes ==
  ASSUME NuInv, [Next]_vars
  PROVE  CountTypes'
<1>a. /\ rspMQ \in 0 .. MaxMesgs /\ rdpMQ \in 0 .. MaxMesgs /\ waitMQ \in 0 .. MaxMesgs
      /\ beforeResetFrame \in 0 .. BeforeResetFrames
      /\ age \in 0 .. OffAge + 1 /\ lag \in 0 .. ManagerLag
  BY DEF NuInv, TypeOK
<1>b. /\ MaxMesgs \in Nat \ {0} /\ BeforeResetFrames \in Nat
      /\ OffAge \in Nat /\ ManagerLag \in Nat
  BY BeforeResetNat, NuSchedAssumption
<1>c. ASSUME UNCHANGED <<rspMQ, rdpMQ, waitMQ, beforeResetFrame, age, lag>>
      PROVE  CountTypes'
  BY ONLY <1>a, <1>c DEF CountTypes
<1>1. CASE AudioRequest
  BY ONLY <1>1, <1>c DEF AudioRequest, queues, reset, swap
<1>2. CASE AudioLook
  BY ONLY <1>2, <1>c DEF AudioLook, queues, reset, swap
<1>3. CASE AudioYield
  BY ONLY <1>3, <1>c DEF AudioYield, queues, reset, swap
<1>4. CASE AudioYielding
  BY ONLY <1>4, <1>a, <1>b
     DEF AudioYielding, queues, reset, swap, AudioRuns, AudioBlocked, CountTypes
<1>5. CASE AudioStart
  BY ONLY <1>5, <1>c DEF AudioStart, queues, reset, swap
<1>6. CASE AudioRunning
  BY ONLY <1>6, <1>a, <1>b
     DEF AudioRunning, queues, reset, swap, AudioRuns, AudioBlocked, CountTypes
<1>7. CASE AudioRelease
  BY ONLY <1>7, <1>c DEF AudioRelease, queues, reset, swap
<1>8. CASE AudioWake
  BY ONLY <1>8, <1>a, <1>b
     DEF AudioWake, queues, reset, swap, AudioRuns, AudioBlocked, CountTypes
<1>9. CASE AudioResume
  BY ONLY <1>9, <1>c DEF AudioResume, queues, reset, swap
<1>10. CASE AudioRepost
  BY ONLY <1>10, <1>a, <1>b
     DEF AudioRepost, queues, reset, swap, AudioRuns, AudioBlocked, CountTypes
<1>11. CASE AudioAck
  BY ONLY <1>11, <1>c DEF AudioAck, queues, reset, swap
<1>12. CASE GraphicsRequest
  BY ONLY <1>12, <1>c DEF GraphicsRequest, queues, reset, swap
<1>13. CASE WaitTaskReady
  BY ONLY <1>13, <1>c DEF WaitTaskReady, queues, reset, swap
<1>14. CASE CheckFramebuffer
  BY ONLY <1>14, <1>c DEF CheckFramebuffer, queues, reset, swap
<1>15. CASE WaitFramebuffer
  BY ONLY <1>15, <1>a, <1>b
     DEF WaitFramebuffer, queues, reset, swap, GraphicsRuns, GraphicsBlocked, CountTypes
<1>16. CASE Suspended
  BY ONLY <1>16, <1>a, <1>b
     DEF Suspended, queues, reset, swap, GraphicsRuns, GraphicsBlocked, CountTypes
<1>17. CASE Gate
  <2>1. /\ UNCHANGED <<rspMQ, rdpMQ, waitMQ, beforeResetFrame, lag>>
        /\ age' = age \/ age' = 0
    BY ONLY <1>17 DEF Gate, StartGraphics, queues, reset
  <2> QED  BY ONLY <2>1, <1>a, <1>b DEF CountTypes
<1>18. CASE GraphicsRspDone
  BY ONLY <1>18, <1>a, <1>b
     DEF GraphicsRspDone, queues, reset, swap, GraphicsRuns, GraphicsBlocked, CountTypes
<1>19. CASE GraphicsRdpDone
  BY ONLY <1>19, <1>a, <1>b
     DEF GraphicsRdpDone, queues, reset, swap, GraphicsRuns, GraphicsBlocked, CountTypes
<1>20. CASE GraphicsDone
  BY ONLY <1>20, <1>c DEF GraphicsDone, queues, reset, swap
<1>21. CASE GraphicsAck
  BY ONLY <1>21, <1>c DEF GraphicsAck, queues, reset, swap
<1>22. CASE RspDone
  BY ONLY <1>22, <1>a, <1>b DEF RspDone, queues, reset, swap, MinOf, CountTypes
<1>23. CASE RdpDone
  BY ONLY <1>23, <1>a, <1>b DEF RdpDone, queues, reset, swap, MinOf, CountTypes
<1>24. CASE EventHandler
  <2>1. UNCHANGED <<rspMQ, rdpMQ, lag>>
    BY ONLY <1>24 DEF EventHandler
  <2>2. CASE HandlePreNmi
    BY ONLY <2>1, <2>2, <1>a, <1>b DEF HandlePreNmi, CountTypes
  <2>3. ASSUME NEW gate \in BOOLEAN, HandleVideo(gate)
        PROVE  CountTypes'
    <3>1. /\ age' = MinOf(age + 1, OffAge + 1)
          /\ waitMQ' = waitMQ \/ waitMQ' = MinOf(waitMQ + 1, MaxMesgs)
          /\ \/ beforeResetFrame' = beforeResetFrame
             \/ beforeResetFrame # 0 /\ beforeResetFrame' = beforeResetFrame - 1
      BY ONLY <2>3 DEF HandleVideo
    <3> QED  BY ONLY <2>1, <3>1, <1>a, <1>b DEF MinOf, CountTypes
  <2> QED  BY ONLY <1>24, <2>2, <2>3 DEF EventHandler
<1>25. CASE SubmitGraphics
  BY ONLY <1>25, <1>c DEF SubmitGraphics, queues, reset, swap
<1>26. CASE Retire
  BY ONLY <1>26, <1>a, <1>b DEF Retire, reset, CountTypes
<1>27. CASE Retrace
  BY ONLY <1>27, <1>a, <1>b DEF Retrace, queues, reset, swap, CountTypes
<1>28. CASE PreNmi
  BY ONLY <1>28, <1>c DEF PreNmi, queues, reset, swap
<1>29. ASSUME NEW t \in AudioTasks, SubmitAudio(t)
       PROVE  CountTypes'
  BY ONLY <1>29, <1>c DEF SubmitAudio, reset, swap
<1>30. CASE UNCHANGED vars
  BY ONLY <1>30, <1>c DEF vars, queues, reset, swap
<1> QED
  BY ONLY [Next]_vars, <1>1, <1>2, <1>3, <1>4, <1>5, <1>6, <1>7, <1>8, <1>9, <1>10, <1>11, <1>12,
     <1>13, <1>14, <1>15, <1>16, <1>17, <1>18, <1>19, <1>20, <1>21, <1>22, <1>23,
     <1>24, <1>25, <1>26, <1>27, <1>28, <1>29, <1>30 DEF Next,
     AudioThread, GraphicsThread

(* Flags.                                  *)
LEMMA NuFlagTypes ==
  ASSUME NuInv, [Next]_vars
  PROVE  FlagTypes'
<1> USE DEF NuInv, TypeOK, FlagTypes, queues, shared, reset, swap, audio, gfx,
        hw
<1>1. CASE AudioRequest
  BY <1>1 DEF AudioRequest
<1>2. CASE AudioLook
  BY <1>2 DEF AudioLook
<1>3. CASE AudioYield
  BY <1>3 DEF AudioYield
<1>4. CASE AudioYielding
  BY <1>4 DEF AudioYielding, SpTaskYielded
<1>5. CASE AudioStart
  BY <1>5 DEF AudioStart, SpTaskStart
<1>6. CASE AudioRunning
  BY <1>6 DEF AudioRunning
<1>7. CASE AudioRelease
  BY <1>7 DEF AudioRelease, AfterRelease
<1>8. CASE AudioWake
  BY <1>8 DEF AudioWake, AfterRelease
<1>9. CASE AudioResume
  BY <1>9 DEF AudioResume, SpTaskStart
<1>10. CASE AudioRepost
  BY <1>10 DEF AudioRepost
<1>11. CASE AudioAck
  BY <1>11 DEF AudioAck
<1>12. CASE GraphicsRequest
  BY <1>12 DEF GraphicsRequest
<1>13. CASE WaitTaskReady
  BY <1>13 DEF WaitTaskReady
<1>14. CASE CheckFramebuffer
  BY <1>14 DEF CheckFramebuffer
<1>15. CASE WaitFramebuffer
  BY <1>15 DEF WaitFramebuffer
<1>16. CASE Suspended
  BY <1>16 DEF Suspended
<1>17. CASE Gate
  <2>1. gTask \in GfxTasks /\ UNCHANGED <<client, resetPressed>>
    BY <1>17 DEF Gate, NuInv, GraphicsKnows, reset
  <2>2. rsp' = rsp \/ rsp' = [task |-> gTask, yield |-> FALSE, yielded |-> FALSE]
    BY <1>17 DEF Gate, StartGraphics, SpTaskStart
  <2>3. rsp' \in [task : GfxTasks \cup AudioTasks \cup {NoTask}, yield : BOOLEAN, yielded : BOOLEAN]
    <3>1. [task |-> gTask, yield |-> FALSE, yielded |-> FALSE]
            \in [task : GfxTasks \cup AudioTasks \cup {NoTask}, yield : BOOLEAN, yielded : BOOLEAN]
      BY ONLY <2>1
    <3> QED  BY <2>2, <3>1
  <2> QED  BY <2>1, <2>3, Zenon DEF NuInv, TypeOK, FlagTypes
<1>18. CASE GraphicsRspDone
  BY <1>18 DEF GraphicsRspDone
<1>19. CASE GraphicsRdpDone
  BY <1>19 DEF GraphicsRdpDone
<1>20. CASE GraphicsDone
  BY <1>20 DEF GraphicsDone
<1>21. CASE GraphicsAck
  BY <1>21 DEF GraphicsAck
<1>22. CASE RspDone
  BY <1>22 DEF RspDone, MinOf
<1>23. CASE RdpDone
  BY <1>23 DEF RdpDone, MinOf
<1>24. CASE EventHandler
  BY <1>24 DEF EventHandler, HandleVideo, HandlePreNmi, MinOf
<1>25. CASE SubmitGraphics
  BY <1>25 DEF SubmitGraphics
<1>26. CASE Retire
  BY <1>26 DEF Retire
<1>27. CASE Retrace
  BY <1>27 DEF Retrace
<1>28. CASE PreNmi
  BY <1>28 DEF PreNmi
<1>29. ASSUME NEW t \in AudioTasks, SubmitAudio(t)
      PROVE  FlagTypes'
  BY <1>29 DEF SubmitAudio
<1>30. CASE UNCHANGED vars
  BY <1>30 DEF vars
<1> QED
  BY <1>1, <1>2, <1>3, <1>4, <1>5, <1>6, <1>7, <1>8, <1>9, <1>10, <1>11,
     <1>12, <1>13, <1>14, <1>15, <1>16, <1>17, <1>18, <1>19, <1>20, <1>21,
     <1>22, <1>23, <1>24, <1>25, <1>26, <1>27, <1>28, <1>29, <1>30 DEF Next,
     AudioThread, GraphicsThread

(* Tasks.                                  *)
LEMMA NuTaskTypes ==
  ASSUME NuInv, [Next]_vars
  PROVE  TaskTypes'
<1> USE Taken, NuSchedAssumption DEF NuInv, TypeOK, GraphicsKnows, AudioKnows,
        AudioHolds, AudioRuns, AudioBlocked, GraphicsRuns, GraphicsBlocked,
        TaskTypes, AudioSteps, GraphicsSteps, HandlerBlocked, queues, shared,
        reset, swap, audio, gfx, hw
<1>1. CASE AudioRequest
  BY <1>1 DEF AudioRequest
<1>2. CASE AudioLook
  BY <1>2 DEF AudioLook
<1>3. CASE AudioYield
  BY <1>3 DEF AudioYield
<1>4. CASE AudioYielding
  BY <1>4 DEF AudioYielding, SpTaskYielded
<1>5. CASE AudioStart
  BY <1>5 DEF AudioStart, SpTaskStart
<1>6. CASE AudioRunning
  BY <1>6 DEF AudioRunning
<1>7. CASE AudioRelease
  BY <1>7 DEF AudioRelease, AfterRelease
<1>8. CASE AudioWake
  BY <1>8 DEF AudioWake, AfterRelease
<1>9. CASE AudioResume
  BY <1>9 DEF AudioResume, SpTaskStart
<1>10. CASE AudioRepost
  BY <1>10 DEF AudioRepost
<1>11. CASE AudioAck
  BY <1>11 DEF AudioAck
<1>12. CASE GraphicsRequest
  BY <1>12 DEF GraphicsRequest
<1>13. CASE WaitTaskReady
  BY <1>13 DEF WaitTaskReady
<1>14. CASE CheckFramebuffer
  BY <1>14 DEF CheckFramebuffer
<1>15. CASE WaitFramebuffer
  BY <1>15 DEF WaitFramebuffer
<1>16. CASE Suspended
  BY <1>16 DEF Suspended
<1>17. CASE Gate
  BY <1>17 DEF Gate, StartGraphics, SpTaskStart
<1>18. CASE GraphicsRspDone
  BY <1>18 DEF GraphicsRspDone
<1>19. CASE GraphicsRdpDone
  BY <1>19 DEF GraphicsRdpDone
<1>20. CASE GraphicsDone
  BY <1>20 DEF GraphicsDone
<1>21. CASE GraphicsAck
  BY <1>21 DEF GraphicsAck
<1>22. CASE RspDone
  BY <1>22 DEF RspDone, MinOf
<1>23. CASE RdpDone
  BY <1>23 DEF RdpDone, MinOf
<1>24. CASE EventHandler
  BY <1>24 DEF EventHandler, HandleVideo, HandlePreNmi, MinOf
<1>25. CASE SubmitGraphics
  BY <1>25 DEF SubmitGraphics
<1>26. CASE Retire
  BY <1>26 DEF Retire
<1>27. CASE Retrace
  BY <1>27 DEF Retrace
<1>28. CASE PreNmi
  BY <1>28 DEF PreNmi
<1>29. ASSUME NEW t \in AudioTasks, SubmitAudio(t)
      PROVE  TaskTypes'
  BY <1>29 DEF SubmitAudio
<1>30. CASE UNCHANGED vars
  BY <1>30 DEF vars
<1> QED
  BY <1>1, <1>2, <1>3, <1>4, <1>5, <1>6, <1>7, <1>8, <1>9, <1>10, <1>11,
     <1>12, <1>13, <1>14, <1>15, <1>16, <1>17, <1>18, <1>19, <1>20, <1>21,
     <1>22, <1>23, <1>24, <1>25, <1>26, <1>27, <1>28, <1>29, <1>30 DEF Next,
     AudioThread, GraphicsThread

(* What the threads know of each other.                                     *)
LEMMA NuKnows ==
  ASSUME NuInv, [Next]_vars
  PROVE  GraphicsKnows' /\ AudioKnows'
<1> USE NuSchedAssumption DEF NuInv, TypeOK, GraphicsKnows, AudioKnows,
        AudioHolds, AudioRuns, AudioBlocked, GraphicsRuns, GraphicsBlocked,
        queues, shared, reset, swap, audio, gfx, hw
<1>1. CASE AudioRequest
  BY <1>1 DEF AudioRequest
<1>2. CASE AudioLook
  BY <1>2 DEF AudioLook
<1>3. CASE AudioYield
  BY <1>3 DEF AudioYield
<1>4. CASE AudioYielding
  BY <1>4 DEF AudioYielding, SpTaskYielded
<1>5. CASE AudioStart
  BY <1>5 DEF AudioStart, SpTaskStart
<1>6. CASE AudioRunning
  BY <1>6 DEF AudioRunning
<1>7. CASE AudioRelease
  BY <1>7 DEF AudioRelease, AfterRelease
<1>8. CASE AudioWake
  BY <1>8 DEF AudioWake, AfterRelease
<1>9. CASE AudioResume
  BY <1>9 DEF AudioResume, SpTaskStart
<1>10. CASE AudioRepost
  BY <1>10 DEF AudioRepost
<1>11. CASE AudioAck
  BY <1>11 DEF AudioAck
<1>12. CASE GraphicsRequest
  BY <1>12 DEF GraphicsRequest
<1>13. CASE WaitTaskReady
  BY <1>13 DEF WaitTaskReady
<1>14. CASE CheckFramebuffer
  BY <1>14 DEF CheckFramebuffer
<1>15. CASE WaitFramebuffer
  BY <1>15 DEF WaitFramebuffer
<1>16. CASE Suspended
  BY <1>16 DEF Suspended
<1>17. CASE Gate
  BY <1>17 DEF Gate, StartGraphics, SpTaskStart
<1>18. CASE GraphicsRspDone
  <2>1. /\ gPc = "rsp" /\ gPc' \in {"done", "rdp"} /\ curGraphicsTask' = NoTask
        /\ UNCHANGED <<aPc, aTask, aGfx, yieldFlag, gTask, curAudioTask, graphicsTaskSuspended>>
    BY <1>18 DEF GraphicsRspDone, audio
  <2>2. rspMQ # 0 /\ AudioBlocked
    BY <1>18, <2>1 DEF GraphicsRspDone, GraphicsRuns, GraphicsBlocked
  <2>3. aPc \in {"request", "wake", "repost"}
    BY <2>2 DEF AudioBlocked
  <2>4. aPc # "repost"
    BY <2>2 DEF NuInv, RspIs, Quiet
  <2>5. ~AudioHolds /\ aPc \notin {"yield", "yielding", "resume"}
    BY <2>3, <2>4 DEF AudioHolds
  <2>6. GraphicsKnows'
    BY <2>1 DEF NuInv, GraphicsKnows
  <2>7. AudioKnows'
    BY <2>1, <2>4, <2>5 DEF NuInv, AudioKnows, AudioHolds
  <2> QED  BY <2>6, <2>7
<1>19. CASE GraphicsRdpDone
  BY <1>19 DEF GraphicsRdpDone
<1>20. CASE GraphicsDone
  BY <1>20 DEF GraphicsDone
<1>21. CASE GraphicsAck
  BY <1>21 DEF GraphicsAck
<1>22. CASE RspDone
  BY <1>22 DEF RspDone, MinOf
<1>23. CASE RdpDone
  BY <1>23 DEF RdpDone, MinOf
<1>24. CASE EventHandler
  BY <1>24 DEF EventHandler, HandleVideo, HandlePreNmi, MinOf
<1>25. CASE SubmitGraphics
  BY <1>25 DEF SubmitGraphics
<1>26. CASE Retire
  BY <1>26 DEF Retire
<1>27. CASE Retrace
  BY <1>27 DEF Retrace
<1>28. CASE PreNmi
  BY <1>28 DEF PreNmi
<1>29. ASSUME NEW t \in AudioTasks, SubmitAudio(t)
      PROVE  GraphicsKnows' /\ AudioKnows'
  BY <1>29 DEF SubmitAudio
<1>30. CASE UNCHANGED vars
  BY <1>30 DEF vars
<1> QED
  BY <1>1, <1>2, <1>3, <1>4, <1>5, <1>6, <1>7, <1>8, <1>9, <1>10, <1>11,
     <1>12, <1>13, <1>14, <1>15, <1>16, <1>17, <1>18, <1>19, <1>20, <1>21,
     <1>22, <1>23, <1>24, <1>25, <1>26, <1>27, <1>28, <1>29, <1>30 DEF Next,
     AudioThread, GraphicsThread

(* What the RSP does.                                                      *)
LEMMA NuRsp ==
  ASSUME NuInv, [Next]_vars
  PROVE  RspIs'
<1> USE NuSchedAssumption DEF NuInv, TypeOK, GraphicsKnows, AudioKnows,
        AudioHolds, AudioRuns, AudioBlocked, GraphicsRuns, GraphicsBlocked,
        RspIs, WorkIs, Quiet, Runs, Ended, Yielded, queues, shared, reset,
        swap, audio, gfx, hw
<1>1. CASE AudioRequest
  BY <1>1 DEF AudioRequest
<1>2. CASE AudioLook
  BY <1>2 DEF AudioLook
<1>3. CASE AudioYield
  BY <1>3 DEF AudioYield
<1>4. CASE AudioYielding
  BY <1>4 DEF AudioYielding, SpTaskYielded
<1>5. CASE AudioStart
  BY <1>5 DEF AudioStart, SpTaskStart
<1>6. CASE AudioRunning
  BY <1>6 DEF AudioRunning
<1>7. CASE AudioRelease
  BY <1>7 DEF AudioRelease, AfterRelease
<1>8. CASE AudioWake
  BY <1>8 DEF AudioWake, AfterRelease
<1>9. CASE AudioResume
  BY <1>9 DEF AudioResume, SpTaskStart
<1>10. CASE AudioRepost
  BY <1>10 DEF AudioRepost
<1>11. CASE AudioAck
  BY <1>11 DEF AudioAck
<1>12. CASE GraphicsRequest
  BY <1>12 DEF GraphicsRequest
<1>13. CASE WaitTaskReady
  BY <1>13 DEF WaitTaskReady
<1>14. CASE CheckFramebuffer
  BY <1>14 DEF CheckFramebuffer
<1>15. CASE WaitFramebuffer
  BY <1>15 DEF WaitFramebuffer
<1>16. CASE Suspended
  BY <1>16 DEF Suspended
<1>17. CASE Gate
  BY <1>17 DEF Gate, StartGraphics, SpTaskStart
<1>18. CASE GraphicsRspDone
  BY <1>18 DEF GraphicsRspDone
<1>19. CASE GraphicsRdpDone
  BY <1>19 DEF GraphicsRdpDone
<1>20. CASE GraphicsDone
  BY <1>20 DEF GraphicsDone
<1>21. CASE GraphicsAck
  BY <1>21 DEF GraphicsAck
<1>22. CASE RspDone
  <2>1. CASE aPc = "running"
    <3>1. rsp.task = aTask /\ rspMQ = 0 /\ ~rsp.yield /\ aTask \in AudioTasks /\ ~rsp.yielded
      BY <1>22, <2>1, NuSchedAssumption DEF RspDone, NuInv, RspIs, Runs, Ended, AudioKnows
    <3>2. rspMQ' = 1 /\ rspWork' = rspWork \ {aTask} /\ rsp' = [rsp EXCEPT !.task = NoTask]
      BY <1>22, <3>1, NuSchedAssumption DEF RspDone, MinOf
    <3>3. rsp'.task = NoTask /\ ~rsp'.yielded
      BY <3>1, <3>2 DEF NuInv, TypeOK
    <3> QED
      BY <1>22, <2>1, <3>1, <3>2, <3>3, NuSchedAssumption
      DEF RspDone, NuInv, RspIs, AudioHolds, AudioKnows, GraphicsKnows, Ended, audio, gfx
  <2>2. CASE aPc # "running"
    <3>1. /\ ~AudioHolds /\ gPc = "rsp" /\ rsp.task = gTask /\ rspMQ = 0 /\ gTask \in GfxTasks
          /\ gTask \in rspWork /\ ~rsp.yielded /\ (rsp.yield => aPc = "yielding")
      BY <1>22, <2>2, NuSchedAssumption
      DEF RspDone, NuInv, RspIs, AudioHolds, GraphicsKnows, Quiet, Runs, Ended, Yielded
    <3>2. rspMQ' = 1
      BY <1>22, <3>1, NuSchedAssumption DEF RspDone, MinOf
    <3>3. rsp'.task = NoTask /\ rsp'.yield = rsp.yield
      BY <1>22 DEF RspDone, NuInv, TypeOK
    <3>4. \/ rspWork' = rspWork \ {gTask} /\ ~rsp'.yielded
          \/ rspWork' = rspWork /\ rsp.yield /\ rsp'.yielded
      BY <1>22, <3>1 DEF RspDone, NuInv, TypeOK
    <3>5. Ended(gTask)' \/ (aPc = "yielding" /\ Yielded(gTask)')
      BY <1>22, <3>1, <3>2, <3>3, <3>4 DEF Ended, Yielded, RspDone, gfx
    <3> QED
      BY <1>22, <3>1, <3>2, <3>3, <3>5 DEF RspDone, RspIs, AudioHolds, audio, gfx
  <2> QED  BY <2>1, <2>2
<1>23. CASE RdpDone
  BY <1>23 DEF RdpDone, MinOf
<1>24. CASE EventHandler
  BY <1>24 DEF EventHandler, HandleVideo, HandlePreNmi, MinOf
<1>25. CASE SubmitGraphics
  BY <1>25 DEF SubmitGraphics
<1>26. CASE Retire
  BY <1>26 DEF Retire
<1>27. CASE Retrace
  BY <1>27 DEF Retrace
<1>28. CASE PreNmi
  BY <1>28 DEF PreNmi
<1>29. ASSUME NEW t \in AudioTasks, SubmitAudio(t)
      PROVE  RspIs'
  BY <1>29 DEF SubmitAudio
<1>30. CASE UNCHANGED vars
  BY <1>30 DEF vars
<1> QED
  BY <1>1, <1>2, <1>3, <1>4, <1>5, <1>6, <1>7, <1>8, <1>9, <1>10, <1>11,
     <1>12, <1>13, <1>14, <1>15, <1>16, <1>17, <1>18, <1>19, <1>20, <1>21,
     <1>22, <1>23, <1>24, <1>25, <1>26, <1>27, <1>28, <1>29, <1>30 DEF Next,
     AudioThread, GraphicsThread

(* What is begun.                                                          *)
LEMMA NuWork ==
  ASSUME NuInv, [Next]_vars
  PROVE  WorkIs'
<1> USE NuSchedAssumption DEF NuInv, TypeOK, GraphicsKnows, AudioKnows,
        AudioHolds, AudioRuns, AudioBlocked, GraphicsRuns, GraphicsBlocked,
        RspIs, WorkIs, Quiet, Runs, Ended, Yielded, queues, shared, reset,
        swap, audio, gfx, hw
<1>1. CASE AudioRequest
  BY <1>1 DEF AudioRequest
<1>2. CASE AudioLook
  BY <1>2 DEF AudioLook
<1>3. CASE AudioYield
  BY <1>3 DEF AudioYield
<1>4. CASE AudioYielding
  BY <1>4 DEF AudioYielding, SpTaskYielded
<1>5. CASE AudioStart
  BY <1>5 DEF AudioStart, SpTaskStart
<1>6. CASE AudioRunning
  BY <1>6 DEF AudioRunning
<1>7. CASE AudioRelease
  BY <1>7 DEF AudioRelease, AfterRelease
<1>8. CASE AudioWake
  BY <1>8 DEF AudioWake, AfterRelease
<1>9. CASE AudioResume
  BY <1>9 DEF AudioResume, SpTaskStart
<1>10. CASE AudioRepost
  BY <1>10 DEF AudioRepost
<1>11. CASE AudioAck
  BY <1>11 DEF AudioAck
<1>12. CASE GraphicsRequest
  BY <1>12 DEF GraphicsRequest
<1>13. CASE WaitTaskReady
  BY <1>13 DEF WaitTaskReady
<1>14. CASE CheckFramebuffer
  BY <1>14 DEF CheckFramebuffer
<1>15. CASE WaitFramebuffer
  BY <1>15 DEF WaitFramebuffer
<1>16. CASE Suspended
  BY <1>16 DEF Suspended
<1>17. CASE Gate
  BY <1>17 DEF Gate, StartGraphics, SpTaskStart
<1>18. CASE GraphicsRspDone
  BY <1>18 DEF GraphicsRspDone
<1>19. CASE GraphicsRdpDone
  BY <1>19 DEF GraphicsRdpDone
<1>20. CASE GraphicsDone
  BY <1>20 DEF GraphicsDone
<1>21. CASE GraphicsAck
  BY <1>21 DEF GraphicsAck
<1>22. CASE RspDone
  BY <1>22 DEF RspDone, MinOf
<1>23. CASE RdpDone
  BY <1>23 DEF RdpDone, MinOf
<1>24. CASE EventHandler
  BY <1>24 DEF EventHandler, HandleVideo, HandlePreNmi, MinOf
<1>25. CASE SubmitGraphics
  BY <1>25 DEF SubmitGraphics
<1>26. CASE Retire
  BY <1>26 DEF Retire
<1>27. CASE Retrace
  BY <1>27 DEF Retrace
<1>28. CASE PreNmi
  BY <1>28 DEF PreNmi
<1>29. ASSUME NEW t \in AudioTasks, SubmitAudio(t)
      PROVE  WorkIs'
  BY <1>29 DEF SubmitAudio
<1>30. CASE UNCHANGED vars
  BY <1>30 DEF vars
<1> QED
  BY <1>1, <1>2, <1>3, <1>4, <1>5, <1>6, <1>7, <1>8, <1>9, <1>10, <1>11,
     <1>12, <1>13, <1>14, <1>15, <1>16, <1>17, <1>18, <1>19, <1>20, <1>21,
     <1>22, <1>23, <1>24, <1>25, <1>26, <1>27, <1>28, <1>29, <1>30 DEF Next,
     AudioThread, GraphicsThread

(* The display and the release.                                            *)
LEMMA NuWaits ==
  ASSUME NuInv, [Next]_vars
  PROVE  InFlightIsCurrent' /\ ReleaseToCome'
<1> USE NuSchedAssumption DEF NuInv, TypeOK, GraphicsKnows, AudioKnows,
        AudioHolds, AudioRuns, AudioBlocked, GraphicsRuns, GraphicsBlocked,
        InFlightIsCurrent, ReleaseToCome, queues, shared, reset, swap, audio,
        gfx, hw
<1>1. CASE AudioRequest
  BY <1>1 DEF AudioRequest
<1>2. CASE AudioLook
  BY <1>2 DEF AudioLook
<1>3. CASE AudioYield
  BY <1>3 DEF AudioYield
<1>4. CASE AudioYielding
  BY <1>4 DEF AudioYielding, SpTaskYielded
<1>5. CASE AudioStart
  BY <1>5 DEF AudioStart, SpTaskStart
<1>6. CASE AudioRunning
  BY <1>6 DEF AudioRunning
<1>7. CASE AudioRelease
  BY <1>7 DEF AudioRelease, AfterRelease
<1>8. CASE AudioWake
  BY <1>8 DEF AudioWake, AfterRelease
<1>9. CASE AudioResume
  BY <1>9 DEF AudioResume, SpTaskStart
<1>10. CASE AudioRepost
  BY <1>10 DEF AudioRepost
<1>11. CASE AudioAck
  BY <1>11 DEF AudioAck
<1>12. CASE GraphicsRequest
  BY <1>12 DEF GraphicsRequest
<1>13. CASE WaitTaskReady
  BY <1>13 DEF WaitTaskReady
<1>14. CASE CheckFramebuffer
  BY <1>14 DEF CheckFramebuffer
<1>15. CASE WaitFramebuffer
  BY <1>15 DEF WaitFramebuffer
<1>16. CASE Suspended
  BY <1>16 DEF Suspended
<1>17. CASE Gate
  BY <1>17 DEF Gate, StartGraphics, SpTaskStart
<1>18. CASE GraphicsRspDone
  BY <1>18 DEF GraphicsRspDone
<1>19. CASE GraphicsRdpDone
  BY <1>19 DEF GraphicsRdpDone
<1>20. CASE GraphicsDone
  BY <1>20 DEF GraphicsDone
<1>21. CASE GraphicsAck
  BY <1>21 DEF GraphicsAck
<1>22. CASE RspDone
  BY <1>22 DEF RspDone, MinOf
<1>23. CASE RdpDone
  BY <1>23 DEF RdpDone, MinOf
<1>24. CASE EventHandler
  BY <1>24 DEF EventHandler, HandleVideo, HandlePreNmi, MinOf
<1>25. CASE SubmitGraphics
  BY <1>25 DEF SubmitGraphics
<1>26. CASE Retire
  BY <1>26 DEF Retire
<1>27. CASE Retrace
  BY <1>27 DEF Retrace
<1>28. CASE PreNmi
  BY <1>28 DEF PreNmi
<1>29. ASSUME NEW t \in AudioTasks, SubmitAudio(t)
      PROVE  InFlightIsCurrent' /\ ReleaseToCome'
  BY <1>29 DEF SubmitAudio
<1>30. CASE UNCHANGED vars
  BY <1>30 DEF vars
<1> QED
  BY <1>1, <1>2, <1>3, <1>4, <1>5, <1>6, <1>7, <1>8, <1>9, <1>10, <1>11,
     <1>12, <1>13, <1>14, <1>15, <1>16, <1>17, <1>18, <1>19, <1>20, <1>21,
     <1>22, <1>23, <1>24, <1>25, <1>26, <1>27, <1>28, <1>29, <1>30 DEF Next,
     AudioThread, GraphicsThread


(* The inductive invariant holds at first and after every step.             *)
LEMMA NuInitInv == Init => NuInv
<1> SUFFICES ASSUME Init PROVE NuInv
  OBVIOUS
<1> USE NuSchedAssumption DEF Init
<1>1. QueueTypes
  BY EmptySeq, LenProperties DEF QueueTypes
<1>2. CountTypes
  BY BeforeResetNat DEF CountTypes
<1>3. FlagTypes
  <2>1. client \in BOOLEAN /\ resetPressed \in BOOLEAN
    BY Zenon
  <2>2. [task |-> NoTask, yield |-> FALSE, yielded |-> FALSE]
            \in [task : GfxTasks \cup AudioTasks \cup {NoTask}, yield : BOOLEAN, yielded : BOOLEAN]
    OBVIOUS
  <2> QED  BY <2>1, <2>2 DEF FlagTypes
<1>4. TaskTypes
  BY DEF TaskTypes, AudioSteps, GraphicsSteps
<1>5. GraphicsKnows /\ AudioKnows
  BY DEF GraphicsKnows, AudioKnows, AudioHolds
<1>6. RspIs /\ WorkIs
  BY DEF RspIs, WorkIs, AudioHolds, Quiet
<1>7. InFlightIsCurrent /\ ReleaseToCome
  BY DEF InFlightIsCurrent, ReleaseToCome
<1> QED  BY <1>1, <1>2, <1>3, <1>4, <1>5, <1>6, <1>7, TypeGroups DEF NuInv

LEMMA NuNextInv == NuInv /\ [Next]_vars => NuInv'
<1> SUFFICES ASSUME NuInv, [Next]_vars PROVE NuInv'
  OBVIOUS
<1>1. TypeOK'
  BY NuQueueTypes, NuCountTypes, NuFlagTypes, NuTaskTypes
     DEF TypeOK, QueueTypes, CountTypes, FlagTypes, TaskTypes
<1> QED  BY <1>1, NuKnows, NuRsp, NuWork, NuWaits DEF NuInv

-----------------------------------------------------------------------------
(* The theorems.                                                           *)

(* Who holds the RSP, what runs on it, which messages are under way and who *)
(* waits for them, after any number of steps of the threads, the RCP and   *)
(* the event handler (nusched.c).                                          *)
THEOREM NuInvariant == Spec => []NuInv
BY NuInitInv, NuNextInv, PTL DEF Spec

(* No queue of the scheduler ever overflows, and every variable keeps its   *)
(* type: the threads block at a full queue, and the notices that cannot    *)
(* block are bounded (nusched.c).                                          *)
THEOREM NuTypeOK == Spec => []TypeOK
BY NuInvariant, PTL DEF NuInv

(* A completion of the RSP or RDP lets exactly the thread go on whose task  *)
(* is done, also when audio took it in place of the graphics thread and    *)
(* posted it again (nusched.c:331-378).                                    *)
THEOREM NuCompletionIsOwn == Spec => []CompletionIsOwn
<1>1. NuInv => CompletionIsOwn
  BY NuSchedAssumption DEF NuInv, TypeOK, CompletionIsOwn, GraphicsKnows, AudioKnows, WorkIs
<1> QED  BY <1>1, NuInvariant, PTL

(* The yield signal is only up under the graphics task audio asked to yield.*)
THEOREM NuYieldIsForGraphics == Spec => []YieldIsForGraphics
<1>1. NuInv => YieldIsForGraphics
  BY NuSchedAssumption DEF NuInv, YieldIsForGraphics, AudioKnows, AudioHolds, RspIs, Runs, Ended, Yielded
<1> QED  BY <1>1, NuInvariant, PTL

(* The event handler only ever shows the frame the graphics thread draws.   *)
THEOREM NuInFlightIsCurrent == Spec => []InFlightIsCurrent
BY NuInvariant, PTL DEF NuInv

(* The graphics thread is never suspended with no release to come.          *)
THEOREM NuReleaseToCome == Spec => []ReleaseToCome
BY NuInvariant, PTL DEF NuInv

(* The three places where the RSP is given task x.                          *)
StartSite(x) ==
  \/ AudioStart /\ x = aTask
  \/ AudioResume /\ x = aGfx
  \/ Gate /\ StartGraphics /\ curAudioTask = NoTask /\ x = gTask

(* No other step gives it one.                                             *)
LEMMA StartedBy ==
  ASSUME NuInv, NEW x \in GfxTasks \cup AudioTasks, Starts(x), [Next]_vars
  PROVE  StartSite(x)
<1> USE NuSchedAssumption DEF NuInv, TypeOK, Starts, StartSite, queues,
        shared, reset, swap, audio, gfx, hw
<1>1. CASE AudioRequest
  BY <1>1 DEF AudioRequest
<1>2. CASE AudioLook
  BY <1>2 DEF AudioLook
<1>3. CASE AudioYield
  BY <1>3 DEF AudioYield
<1>4. CASE AudioYielding
  BY <1>4 DEF AudioYielding, SpTaskYielded
<1>5. CASE AudioStart
  BY <1>5 DEF AudioStart, SpTaskStart
<1>6. CASE AudioRunning
  BY <1>6 DEF AudioRunning
<1>7. CASE AudioRelease
  BY <1>7 DEF AudioRelease, AfterRelease
<1>8. CASE AudioWake
  BY <1>8 DEF AudioWake, AfterRelease
<1>9. CASE AudioResume
  BY <1>9 DEF AudioResume, SpTaskStart
<1>10. CASE AudioRepost
  BY <1>10 DEF AudioRepost
<1>11. CASE AudioAck
  BY <1>11 DEF AudioAck
<1>12. CASE GraphicsRequest
  BY <1>12 DEF GraphicsRequest
<1>13. CASE WaitTaskReady
  BY <1>13 DEF WaitTaskReady
<1>14. CASE CheckFramebuffer
  BY <1>14 DEF CheckFramebuffer
<1>15. CASE WaitFramebuffer
  BY <1>15 DEF WaitFramebuffer
<1>16. CASE Suspended
  BY <1>16 DEF Suspended
<1>17. CASE Gate
  BY <1>17 DEF Gate, StartGraphics, SpTaskStart
<1>18. CASE GraphicsRspDone
  BY <1>18 DEF GraphicsRspDone
<1>19. CASE GraphicsRdpDone
  BY <1>19 DEF GraphicsRdpDone
<1>20. CASE GraphicsDone
  BY <1>20 DEF GraphicsDone
<1>21. CASE GraphicsAck
  BY <1>21 DEF GraphicsAck
<1>22. CASE RspDone
  BY <1>22 DEF RspDone, MinOf
<1>23. CASE RdpDone
  BY <1>23 DEF RdpDone, MinOf
<1>24. CASE EventHandler
  BY <1>24 DEF EventHandler, HandleVideo, HandlePreNmi, MinOf
<1>25. CASE SubmitGraphics
  BY <1>25 DEF SubmitGraphics
<1>26. CASE Retire
  BY <1>26 DEF Retire
<1>27. CASE Retrace
  BY <1>27 DEF Retrace
<1>28. CASE PreNmi
  BY <1>28 DEF PreNmi
<1>29. ASSUME NEW t \in AudioTasks, SubmitAudio(t)
      PROVE  StartSite(x)
  BY <1>29 DEF SubmitAudio
<1>30. CASE UNCHANGED vars
  BY <1>30 DEF vars
<1> QED
  BY <1>1, <1>2, <1>3, <1>4, <1>5, <1>6, <1>7, <1>8, <1>9, <1>10, <1>11,
     <1>12, <1>13, <1>14, <1>15, <1>16, <1>17, <1>18, <1>19, <1>20, <1>21,
     <1>22, <1>23, <1>24, <1>25, <1>26, <1>27, <1>28, <1>29, <1>30 DEF Next,
     AudioThread, GraphicsThread

(* The RSP is only given a task when it has stopped and its last message   *)
(* was taken, whatever each thread knows of the other.                     *)
THEOREM NuStartsIdleRsp == Spec => StartsIdleRsp
<1>1. NuInv /\ [Next]_vars =>
        [\A t \in GfxTasks \cup AudioTasks : Starts(t) => rsp.task = NoTask /\ rspMQ = 0]_vars
  <2> SUFFICES ASSUME NuInv, Next, NEW t \in GfxTasks \cup AudioTasks, Starts(t)
               PROVE  Quiet
    BY DEF Quiet
  <2>1. CASE AudioStart \/ AudioResume
    BY <2>1 DEF AudioStart, AudioResume, NuInv, RspIs
  <2>2. CASE Gate /\ curAudioTask = NoTask
    <3>1. gPc = "gate" /\ AudioBlocked
      BY <2>2 DEF Gate, GraphicsRuns
    <3>2. aPc # "running"
      BY <2>2, NuSchedAssumption DEF NuInv, AudioKnows
    <3>3. aPc # "repost"
      BY <3>1 DEF NuInv, AudioKnows, AudioHolds
    <3>4. ~AudioHolds
      BY <3>1, <3>2, <3>3 DEF AudioBlocked, AudioHolds
    <3> QED  BY <3>1, <3>4 DEF NuInv, RspIs
  <2> QED  BY <2>1, <2>2, StartedBy DEF StartSite
<1> QED  BY <1>1, NuInvariant, PTL DEF Spec, StartsIdleRsp

(* A graphics task the RSP gave up half way goes on from its yield buffer,  *)
(* and one that had finished is not started again.                         *)
THEOREM NuResumesFromSave == Spec => ResumesFromSave
<1>1. NuInv /\ [Next]_vars =>
        [\A t \in GfxTasks : Starts(t) => IF aPc = "resume" THEN t \in saved /\ t \in rspWork
                                          ELSE t \notin saved /\ t \notin rspWork]_vars
  <2> SUFFICES ASSUME NuInv, Next, NEW t \in GfxTasks, Starts(t)
               PROVE  IF aPc = "resume" THEN t \in saved /\ t \in rspWork
                      ELSE t \notin saved /\ t \notin rspWork
    OBVIOUS
  <2>1. CASE AudioStart /\ t = aTask
    BY <2>1, NuSchedAssumption DEF AudioStart, NuInv, AudioKnows
  <2>2. CASE AudioResume /\ t = aGfx
    BY <2>2 DEF AudioResume, NuInv, AudioKnows, AudioHolds, RspIs
  <2>3. CASE Gate /\ t = gTask
    <3>1. gPc = "gate" /\ aPc # "resume"
      BY <2>3 DEF Gate, GraphicsRuns, AudioBlocked
    <3>2. aTask # t \/ aPc # "running"
      BY NuSchedAssumption DEF NuInv, AudioKnows
    <3> QED  BY <3>1, <3>2 DEF NuInv, WorkIs
  <2> QED  BY <2>1, <2>2, <2>3, StartedBy DEF StartSite
<1> QED  BY <1>1, NuInvariant, PTL DEF Spec, ResumesFromSave
==================================================================================
