-------------------------------- MODULE AudFrames --------------------------------
(***************************************************************************)
(* The frames of libmus' audio thread: three buffers it fills in turn with *)
(* RSP tasks (aud_thread.c), the number of samples of each (aud_samples.c),*)
(* and the audio interface, which plays one buffer and holds another.  The *)
(* work of the thread between the retrace it waits for and its RSP task is *)
(* one action, since nothing else writes what it reads but the AI, which   *)
(* only drains.  The address osAiSetNextBuffer corrects is not modelled.   *)
(***************************************************************************)
EXTENDS Integers, Sequences

CONSTANTS
  NSamples,     (* N_SAMPLES, the block of samples                         *)
  ExtraRate,    (* EXTRA_SAMPLES_N, in percent                             *)
  Calc,         (* calc of __MusIntSamplesInit: the samples of a frame,    *)
                (*   rounded up                                            *)
  SilenceSize,  (* the samples of g_mus_audio_silence_buffer               *)
  QueueSize,    (* QUEUE_SIZE                                              *)
  NoBuffer

ASSUME AudAssumption ==
  /\ NSamples \in Nat \ {0} /\ ExtraRate \in Nat /\ SilenceSize \in Nat /\ QueueSize \in Nat \ {0}
  /\ Calc \in Nat \ {0}
  /\ NoBuffer \notin 0 .. 3

VARIABLES
  aiFifo,        (* the buffers of the AI: [buf, left], the first one plays*)
  taskCount,     (* task_count                                             *)
  lastTask,      (* g_mus_audio_last_task                                  *)
  frameSamples,  (* frame_samples of each task                             *)
  player,        (* n_syn has a player, and alAudioFrame commands          *)
  commands,      (* the last alAudioFrame made commands                    *)
  onlyOne,       (* only_one_flag                                          *)
  paused,        (* g_mus_audio_paused                                     *)
  rspBuf,        (* the buffer the RSP fills; the thread waits for it      *)
  frameMsgs,     (* the retrace messages in frame_queue                    *)
  smooth,        (* history: no frame was late or paused                   *)
  dry            (* history: the AI ran out of samples once                *)

audVars == <<aiFifo, taskCount, lastTask, frameSamples, player, commands, onlyOne, paused, rspBuf, frameMsgs,
             smooth, dry>>

-----------------------------------------------------------------------------
(* The budget of samples.                                                  *)
Nominal == ((Calc \div NSamples) + 1) * NSamples
ExtraSamples == (Nominal * ExtraRate) \div 100
Allocated == Nominal + NSamples + ExtraSamples

(* __MusIntSamplesCurrent.                                                 *)
InBand(samples) == samples \in ExtraSamples .. NSamples + ExtraSamples
SamplesCurrent(samples) ==
  CASE onlyOne /\ samples > NSamples + ExtraSamples -> Nominal - NSamples
    [] onlyOne /\ samples < ExtraSamples -> Nominal + NSamples
    [] OTHER -> Nominal

-----------------------------------------------------------------------------
(* The audio interface.                                                    *)

Silence == 3
FifoFull == Len(aiFifo) = 2
AiSetNextBuffer(b, n) == IF FifoFull THEN aiFifo ELSE Append(aiFifo, [buf |-> b, left |-> n])
AiGetLength == IF aiFifo = <<>> THEN 0 ELSE aiFifo[1].left

(* The rest after the AI has played r samples.                             *)
Played(r) ==
  IF aiFifo = <<>> THEN <<>>
  ELSE IF aiFifo[1].left > r THEN [aiFifo EXCEPT ![1].left = @ - r]
  ELSE IF FifoFull /\ aiFifo[2].left > r - aiFifo[1].left
       THEN <<[aiFifo[2] EXCEPT !.left = @ - (r - aiFifo[1].left)]>>
  ELSE <<>>

(* A frame's time passes and the scheduler tells the thread of the retrace,*)
(* if its queue has room.                                                  *)
AudRetrace ==
  \E r \in {Calc - 1, Calc} :
    /\ aiFifo' = Played(r)
    /\ dry' = (dry \/ (aiFifo # <<>> /\ Played(r) = <<>>))
    /\ frameMsgs' = IF frameMsgs = QueueSize THEN frameMsgs ELSE frameMsgs + 1
    /\ smooth' = (smooth /\ frameMsgs = 0 /\ rspBuf = NoBuffer)
    /\ UNCHANGED <<taskCount, lastTask, frameSamples, player, commands, onlyOne, paused, rspBuf>>

-----------------------------------------------------------------------------
(* The thread, from one dotask to the next.                                *)

(* __OsSchedWaitFrame takes a message, and a second one if it is there.    *)
WaitFrame ==
  /\ rspBuf = NoBuffer
  /\ frameMsgs > 0
  /\ frameMsgs' = IF frameMsgs = 1 THEN 0 ELSE frameMsgs - 2

(* Mutant: one buffer plays and the other is filled.                       *)
TwoTasks(i) == (i + 1) % 2
NextTask(i) == (i + 1) % 3

FramePaused ==
  /\ WaitFrame
  /\ paused
  /\ aiFifo' = AiSetNextBuffer(Silence, SilenceSize)
  /\ smooth' = FALSE
  /\ UNCHANGED <<taskCount, lastTask, frameSamples, player, commands, onlyOne, paused, rspBuf, dry>>

FrameSkipped ==
  /\ WaitFrame
  /\ ~paused /\ FifoFull
  /\ UNCHANGED <<aiFifo, taskCount, lastTask, frameSamples, player, commands, onlyOne, paused, rspBuf, smooth, dry>>

FrameMade ==
  /\ WaitFrame
  /\ ~paused /\ ~FifoFull
  /\ aiFifo' = IF lastTask # NoBuffer /\ commands
               THEN AiSetNextBuffer(lastTask, frameSamples[lastTask]) ELSE aiFifo
  /\ frameSamples' = [frameSamples EXCEPT ![taskCount] = SamplesCurrent(AiGetLength)]
  /\ onlyOne' = InBand(AiGetLength)
  /\ taskCount' = NextTask(taskCount)
  /\ commands' = player
  /\ IF player THEN rspBuf' = taskCount /\ lastTask' = taskCount ELSE UNCHANGED <<rspBuf, lastTask>>
  /\ UNCHANGED <<player, paused, smooth, dry>>

(* The message on task_queue.                                              *)
AudTaskDone ==
  /\ rspBuf # NoBuffer
  /\ rspBuf' = NoBuffer
  /\ UNCHANGED <<aiFifo, taskCount, lastTask, frameSamples, player, commands, onlyOne, paused, frameMsgs, smooth, dry>>

AudPause ==
  /\ paused' = ~paused
  /\ UNCHANGED <<aiFifo, taskCount, lastTask, frameSamples, player, commands, onlyOne, rspBuf, frameMsgs, smooth, dry>>

(* n_alSynAddPlayer, of the one player libmus has.                         *)
AddPlayer ==
  /\ ~player /\ player' = TRUE
  /\ UNCHANGED <<aiFifo, taskCount, lastTask, frameSamples, commands, onlyOne, paused, rspBuf, frameMsgs, smooth, dry>>

(* __MusIntAudManInit.                                                     *)
AudInit ==
  /\ aiFifo = <<>> /\ taskCount = 0 /\ lastTask = NoBuffer
  /\ frameSamples = [i \in 0 .. 2 |-> 0]
  /\ player = FALSE /\ commands \in BOOLEAN
  /\ onlyOne = TRUE /\ paused = FALSE /\ rspBuf = NoBuffer /\ frameMsgs = 0
  /\ smooth = TRUE /\ dry = FALSE

AudNext == AudRetrace \/ FramePaused \/ FrameSkipped \/ FrameMade \/ AudTaskDone \/ AudPause \/ AddPlayer

AudSpec == AudInit /\ [][AudNext]_audVars

-----------------------------------------------------------------------------
(* The RSP never fills a buffer the AI plays or holds, however late it is, *)
(* and whatever is skipped or paused, and no buffer gets more samples than *)
(* were allocated for it.                                                  *)
FilledUnheard ==
  /\ \A i \in DOMAIN aiFifo : rspBuf # NoBuffer => aiFifo[i].buf # rspBuf
  /\ \A i \in 0 .. 2 : frameSamples[i] <= Allocated

(* As long as no frame is late or paused the AI never runs out: the short  *)
(* frames and the skipped ones only come when there is enough left.  That  *)
(* depends on the rate: at 440 samples a frame, say, a skipped frame can   *)
(* follow a short one.                                                     *)
NeverDry == smooth => ~dry

(* The audio frames of libmus: what the interface plays was filled and is   *)
(* not being filled again, and it does not run dry.                         *)
AudInv == FilledUnheard /\ NeverDry
================================================================================
