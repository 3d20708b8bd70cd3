------------------------------- MODULE ContManager -------------------------------
(***************************************************************************)
(* The SI manager thread (nusimgr.c) with the controller manager           *)
(* (nucontmgr.c, nucontdatalock.c, nucontdatagetex.c) and the rumble       *)
(* manager (nucontrmbmgr.c) of one port: at every retrace the pads are read*)
(* into the shared buffer and the motor is stepped; between retraces the   *)
(* threads of the application post requests and wait for the answer.       *)
(*                                                                         *)
(* The manager is above the application's threads and below the interrupt: *)
(* an application step needs the manager to be blocked, and the manager    *)
(* runs on, in one action, until it blocks.  Pads, paks, the PIF and the   *)
(* motor access are external.                                              *)
(***************************************************************************)
EXTENDS Integers, Sequences, FiniteSets

CONSTANTS
  ContApps,     (* the application's threads, by priority, from 1          *)
  SiMesgMax,    (* NU_SI_MESG_MAX                                          *)
  RmbProfiles,  (* [freq, frame]: the vibrations asked for                 *)
  RmbModes,     (* the modes asked for                                     *)
  SearchTime,   (* nuContRmbSearchTime                                     *)
  ContCalls,    (* the calls each thread makes                             *)
  ContMaxCalls  (* the bound on calls, unpluggings and garbled answers     *)

ASSUME ContAssumption ==
  /\ ContApps \subseteq Nat \ {0} /\ 1 \in ContApps
  /\ SiMesgMax \in Nat \ {0} /\ SearchTime \in Nat \ {0}
  /\ RmbProfiles \subseteq [freq : 0 .. 256, frame : Nat]

VARIABLES
  siMesgQ,      (* nuSiMgrMesgQ: retraces and requests                     *)
  siPc,         (* the manager: recv, dma, close, motor, parked            *)
  siMesg,       (* the message it works on                                 *)
  siLeft,       (* the SI interrupts still to come, 2 with a command to    *)
                (* write first                                             *)
  lastCmd,      (* __osContLastCmd: button, status or another              *)
  pif,          (* the command block that is in the PIF                    *)
  key,          (* nuContDataLockKey                                       *)
  mutex,        (* the thread that has closed the pad buffer, or 0         *)
  waitToken,    (* nuContWaitMesgQ holds its message                       *)
  pad,          (* nuContData: the reading in it, told from the one before *)
  frozen,       (* history: what the lock, or a read despite it, left there*)
  rmb,          (* nuContRmbCtl                                            *)
  motor,        (* the port: none, new (not yet asked for its status),     *)
                (* off, on                                                 *)
  pulled,       (* the pak was out since the motor access began            *)
  inited,       (* PFS_MOTOR_INITIALIZED: the last osMotorInit succeeded   *)
  garbled,      (* history: an access failed, its answer garbled, and left *)
                (* the motor on                                            *)
  app,          (* each thread: [pc, op, arg, got, trigger, saved]         *)
  contLeft      (* the calls, unpluggings and garbled answers still to come*)

contVars == <<siMesgQ, siPc, siMesg, siLeft, lastCmd, pif, key, mutex, waitToken, pad, frozen, rmb,
              motor, pulled, inited, garbled, app, contLeft>>

lastAccess == <<inited, garbled>>
rmbState == <<rmb, motor, pulled, lastAccess>>
padState == <<key, mutex, waitToken, pad, frozen>>

Nobody == 0
NoArg == [freq |-> 0, frame |-> 0]
Calm == [pc |-> "idle", op |-> "none", arg |-> NoArg, got |-> 0, trigger |-> 0, saved |-> FALSE]
Mesg(from, op) == [from |-> from, op |-> op]
Retrace == Mesg(Nobody, "retrace")
NoMesg == Mesg(Nobody, "none")
Newer(n) == 1 - n

-----------------------------------------------------------------------------
(* The application.                                                        *)

SiMgrBlocked ==
  \/ siPc = "recv" /\ siMesgQ = <<>>
  \/ siPc \in {"dma", "motor", "parked"}
  \/ siPc = "close" /\ mutex # Nobody

AppReady(a) ==
  CASE app[a].pc = "close" -> mutex = Nobody
    [] app[a].pc = "send"  -> Len(siMesgQ) < SiMesgMax
    [] app[a].pc = "wait"  -> FALSE
    [] OTHER               -> TRUE

(* Thread a runs: the manager and the threads above it are blocked, or, at *)
(* its idle point, have nothing to do.                                     *)
Runs(a) == SiMgrBlocked /\ \A b \in ContApps : b > a => app[b].pc = "idle" \/ ~AppReady(b)

AppTo(a, pc) == app' = [app EXCEPT ![a].pc = pc]
SiSame == UNCHANGED <<siPc, siMesg, siLeft, lastCmd, pif>>

(* nuContDataGetEx, one step for each that an interrupt can come between.  *)
GetExCall(a) ==
  /\ "getex" \in ContCalls[a] /\ Runs(a) /\ app[a].pc = "idle"
  /\ AppTo(a, "close")
  /\ SiSame /\ UNCHANGED <<siMesgQ, padState, rmbState>>
GetExClose(a) ==
  /\ Runs(a) /\ app[a].pc = "close" /\ mutex = Nobody
  /\ mutex' = a /\ AppTo(a, "copy")
  /\ SiSame /\ UNCHANGED <<siMesgQ, key, waitToken, pad, frozen, rmbState>>
GetExCopy(a) ==
  /\ Runs(a) /\ app[a].pc = "copy"
  /\ app' = [app EXCEPT ![a].pc = "trigger", ![a].got = pad]
  /\ SiSame /\ UNCHANGED <<siMesgQ, padState, rmbState>>
GetExTrigger(a) ==
  /\ Runs(a) /\ app[a].pc = "trigger"
  /\ app' = [app EXCEPT ![a].pc = "open", ![a].trigger = pad]
  /\ SiSame /\ UNCHANGED <<siMesgQ, padState, rmbState>>
GetExOpen(a) ==
  /\ Runs(a) /\ app[a].pc = "open"
  /\ mutex' = Nobody /\ app' = [app EXCEPT ![a] = Calm]
  /\ SiSame /\ UNCHANGED <<siMesgQ, key, waitToken, pad, frozen, rmbState>>

(* nuContDataLock and its reverse, by the lowest of the threads: one above *)
(* a thread inside GetEx could lock while the manager waits to copy.       *)
DataLock ==
  /\ "lock" \in ContCalls[1] /\ Runs(1) /\ app[1].pc = "idle"
  /\ key' = ~key /\ frozen' = IF key THEN 0 ELSE pad
  /\ SiSame /\ UNCHANGED <<siMesgQ, mutex, waitToken, pad, rmbState, app>>

(* nuSiSendMesg and the calls made of it: the send, then the wait.         *)
SiRequest(a, op, arg) ==
  /\ Runs(a) /\ app[a].pc = "idle"
  /\ app' = [app EXCEPT ![a].pc = "send", ![a].op = op, ![a].arg = arg]
  /\ SiSame /\ UNCHANGED <<siMesgQ, padState, rmbState>>
RequestCall(a, op) == op \in ContCalls[a] /\ SiRequest(a, op, NoArg)

(* nuContRmbStart looks at the pause bit before it sends.                  *)
RmbStartCall(a, p) == "start" \in ContCalls[a] /\ ~rmb.pause /\ SiRequest(a, "start", p)

SiSend(a) ==
  /\ Runs(a) /\ app[a].pc = "send" /\ Len(siMesgQ) < SiMesgMax
  /\ siMesgQ' = Append(siMesgQ, Mesg(a, app[a].op))
  /\ AppTo(a, "wait")
  /\ SiSame /\ UNCHANGED <<padState, rmbState>>

(* nuContRmbCheck's last step: it writes the type itself.                  *)
CheckReturn(a) ==
  /\ Runs(a) /\ app[a].pc = "checked"
  /\ rmb' = [rmb EXCEPT !.type = app[a].saved]
  /\ app' = [app EXCEPT ![a] = Calm]
  /\ SiSame /\ UNCHANGED <<siMesgQ, padState, motor, pulled, lastAccess>>

(* nuContRmbModeSet: the pause bit is read, then the mode written.         *)
ModeSetCall(a, mode) ==
  /\ "mode" \in ContCalls[a] /\ Runs(a) /\ app[a].pc = "idle"
  /\ app' = [app EXCEPT ![a].pc = "mode", ![a].op = mode, ![a].saved = rmb.pause]
  /\ SiSame /\ UNCHANGED <<siMesgQ, padState, rmbState>>
ModeSet(a) ==
  LET mode == app[a].op
  IN  /\ Runs(a) /\ app[a].pc = "mode"
      /\ rmb' = IF mode = "enable" /\ ~rmb.type THEN rmb
                ELSE [rmb EXCEPT !.mode = mode, !.pause = app[a].saved,
                                 !.found = IF mode = "autorun" THEN rmb.type ELSE @]
      /\ app' = [app EXCEPT ![a] = Calm]
      /\ SiSame /\ UNCHANGED <<siMesgQ, padState, motor, pulled, lastAccess>>

(* nuSiMgrRestart.                                                         *)
SiRestart(a) ==
  /\ Runs(a) /\ app[a].pc = "idle" /\ siPc = "parked"
  /\ siPc' = "recv"
  /\ UNCHANGED <<siMesgQ, siMesg, siLeft, lastCmd, pif, padState, rmbState, app>>

-----------------------------------------------------------------------------
(* The port and the retrace.                                               *)

(* The event handler does not wait: a retrace is lost on a full queue.     *)
ContRetraceMesg ==
  /\ siPc # "parked" /\ Len(siMesgQ) < SiMesgMax
  /\ \A i \in DOMAIN siMesgQ : siMesgQ[i] # Retrace
  /\ siMesgQ' = Append(siMesgQ, Retrace)
  /\ SiSame /\ UNCHANGED <<padState, rmbState, app>>

Unplug ==
  /\ motor # "none" /\ motor' = "none" /\ pulled' = (siPc = "motor") /\ garbled' = FALSE
  /\ SiSame /\ UNCHANGED <<siMesgQ, padState, rmb, inited, app>>
Plug ==
  /\ motor = "none" /\ motor' = "new"
  /\ SiSame /\ UNCHANGED <<siMesgQ, padState, rmb, pulled, lastAccess, app>>

-----------------------------------------------------------------------------
(* The manager.  A transaction writes its command block only if the last   *)
(* command was another.                                                    *)

Exchange(cmd) ==
  /\ siLeft' = IF lastCmd = cmd THEN 1 ELSE 2
  /\ pif' = IF lastCmd = cmd THEN pif ELSE cmd
  /\ lastCmd' = cmd
  /\ siPc' = "dma"

(* A motor access overwrites the block and the last command in any case.   *)
StartMotor ==
  /\ siPc' = "motor" /\ pulled' = FALSE
  /\ lastCmd' = "other" /\ pif' = "other" /\ siLeft' = 0

(* What contRmbRetrace is about to do to the motor, or nothing.            *)
Pulse == ((rmb.counter + rmb.freq) \div 256) > 0
Control ==
  CASE rmb.state = "run" /\ rmb.frame > 0 /\ Pulse -> "start"
    [] rmb.state = "run" /\ ~(rmb.frame > 0 /\ Pulse) -> "stop"
    [] rmb.state = "stopping" /\ rmb.counter > 0 -> "stop"
    [] rmb.state = "forcestop" -> "force"
    [] OTHER -> "none"
(* Mutant: a paused motor is not stepped, so its stop is not either.       *)
SteppedUnpaused ==
  /\ ~rmb.pause
  /\ rmb.mode = "enable" \/ (rmb.mode = "autorun" /\ rmb.found)

Stepped ==
  \/ rmb.type /\ rmb.pause
  \/ ~rmb.pause /\ rmb.mode = "enable"
  \/ ~rmb.pause /\ rmb.mode = "autorun" /\ rmb.found
Searches == rmb.mode = "autorun" /\ ~rmb.pause /\ ~rmb.found

RetraceOp ==
  CASE Searches -> IF rmb.counter % SearchTime = 0 THEN "search" ELSE "none"
    [] rmb.mode = "disable" -> "none"
    [] rmb.mode # "disable" /\ Stepped -> Control
    [] OTHER -> "none"

(* The control block once the motor has answered, in the mode found then.  *)
(* A count that is only looked at modulo the search time is kept so.       *)
Controlled(c, ok) ==
  CASE c.state = "stopping" ->
         IF c.counter > 0 THEN [c EXCEPT !.counter = @ - 1]
         ELSE [c EXCEPT !.state = "stopped", !.counter = 65535 % SearchTime]
    [] c.state = "run" ->
         IF c.frame > 0 THEN [c EXCEPT !.counter = (@ + c.freq) % 256, !.frame = @ - 1]
         ELSE [c EXCEPT !.state = "stopping", !.counter = 2, !.frame = 65535]
    [] c.state = "forcestop" ->
         IF ok THEN [c EXCEPT !.state = "stopping", !.counter = 2] ELSE [c EXCEPT !.state = "stopped"]
    [] OTHER -> c

Failed(c, mode) ==
  CASE mode = "enable" -> [c EXCEPT !.mode = "disable", !.pause = FALSE]
    [] mode = "autorun" -> [c EXCEPT !.counter = 0, !.found = FALSE, !.type = FALSE]
    [] OTHER -> c
Concluded(c, mode, ok) == IF ok THEN Controlled(c, TRUE) ELSE Failed(Controlled(c, FALSE), mode)

(* The mode that contRmbRetrace branches on.                               *)
ModeNow == IF rmb.pause THEN "paused" ELSE rmb.mode
Inits(op) == op \in {"search", "check", "force"}

(* After contRetrace, contRmbRetrace.  Without an initialisation that      *)
(* succeeded a motor is not commanded: the access fails at once.           *)
RmbRetrace ==
  IF RetraceOp = "none" \/ (~Inits(RetraceOp) /\ ~inited)
  THEN /\ rmb' = IF Searches THEN [rmb EXCEPT !.counter = (@ + 1) % SearchTime]
                 ELSE IF rmb.mode # "disable" /\ Stepped THEN Concluded(rmb, ModeNow, RetraceOp = "none")
                 ELSE rmb
       /\ siPc' = "recv" /\ siMesg' = NoMesg /\ siLeft' = 0
       /\ UNCHANGED <<lastCmd, pif, motor, pulled, lastAccess>>
  ELSE /\ StartMotor
       /\ siMesg' = [from |-> Nobody, op |-> RetraceOp, mode |-> ModeNow]
       /\ UNCHANGED <<rmb, motor, lastAccess>>

(* The answer of a request goes to its sender.                             *)
SiReply(m) ==
  /\ app' = [app EXCEPT ![m.from] = Calm]
  /\ siPc' = "recv" /\ siMesg' = NoMesg /\ siLeft' = 0

SiRecv ==
  /\ siPc = "recv" /\ siMesgQ # <<>>
  /\ siMesgQ' = Tail(siMesgQ)

SiRetrace ==
  /\ SiRecv /\ Head(siMesgQ) = Retrace
  /\ IF key THEN RmbRetrace /\ UNCHANGED waitToken
     ELSE Exchange("button") /\ siMesg' = Retrace /\ waitToken' = FALSE /\ UNCHANGED rmbState
  /\ UNCHANGED <<key, mutex, pad, frozen, app>>

(* contRead, contReadNW and contQuery.                                     *)
SiRead ==
  LET m == Head(siMesgQ)
  IN  /\ SiRecv /\ m.op \in {"read", "readNW", "query"}
      /\ Exchange(IF m.op = "query" THEN "status" ELSE "button")
      /\ siMesg' = m
      /\ waitToken' = (waitToken /\ m.op # "readNW")
      /\ UNCHANGED <<key, mutex, pad, frozen, rmbState, app>>

(* contRmbStartMesg and its like, which only change the control block.     *)
SiRumble ==
  LET m == Head(siMesgQ)
  IN  /\ SiRecv /\ m.op \in {"start", "stop", "force"}
      /\ rmb' = CASE m.op = "stop"  -> [rmb EXCEPT !.frame = 0]
                  [] m.op = "force" -> [rmb EXCEPT !.state = "forcestop", !.pause = TRUE]
                  [] OTHER -> [rmb EXCEPT !.state = "run", !.freq = app[m.from].arg.freq,
                                          !.frame = app[m.from].arg.frame, !.counter = 0]
      /\ SiReply(m)
      /\ UNCHANGED <<lastCmd, pif, padState, motor, pulled, lastAccess>>

SiCheck ==
  LET m == Head(siMesgQ)
  IN  /\ SiRecv /\ m.op = "check"
      /\ StartMotor /\ siMesg' = m
      /\ UNCHANGED <<padState, rmb, motor, lastAccess, app>>

(* NU_SI_STOP_MGR_MSG: the answer, then the thread stops itself.           *)
SiStop ==
  LET m == Head(siMesgQ)
  IN  /\ SiRecv /\ m.op = "park"
      /\ app' = [app EXCEPT ![m.from] = Calm]
      /\ siPc' = "parked" /\ siMesg' = NoMesg /\ siLeft' = 0
      /\ UNCHANGED <<lastCmd, pif, padState, rmbState>>

-----------------------------------------------------------------------------
(* The SI interrupt.                                                       *)

SiWritten ==
  /\ siPc = "dma" /\ siLeft = 2 /\ siLeft' = 1
  /\ UNCHANGED <<siMesgQ, siPc, siMesg, lastCmd, pif, padState, rmbState, app>>

(* The end of contReadData: nuContDataClose, osContGetReadData and         *)
(* nuContDataOpen.  A read for the caller's own buffer leaves this one.    *)
Copied(m) ==
  /\ mutex = Nobody
  /\ pad' = IF m.op = "read" THEN pad ELSE Newer(pad)
  /\ frozen' = IF key /\ m # Retrace THEN pad' ELSE frozen
  /\ UNCHANGED <<key, mutex>>

AfterRead(m) ==
  IF m = Retrace THEN RmbRetrace /\ waitToken' = TRUE /\ UNCHANGED app
  ELSE SiReply(m) /\ UNCHANGED <<lastCmd, pif, waitToken, rmbState>>

(* Mutant: the key is not looked at again after the wait.                  *)
NeverLocked(m) == FALSE

Locked(m) == m = Retrace /\ key

SiAnswered ==
  LET m == siMesg
  IN  /\ siPc = "dma" /\ siLeft = 1
      /\ CASE m.op = "query" -> AfterRead(m) /\ UNCHANGED <<key, mutex, pad, frozen>>
           [] Locked(m) -> AfterRead(m) /\ UNCHANGED <<key, mutex, pad, frozen>>
           [] m.op # "query" /\ ~Locked(m) /\ mutex = Nobody -> Copied(m) /\ AfterRead(m)
           [] OTHER -> /\ siPc' = "close" /\ siLeft' = 0
                       /\ UNCHANGED <<siMesg, lastCmd, pif, padState, rmbState, app>>
      /\ UNCHANGED siMesgQ

SiClose ==
  /\ siPc = "close" /\ Copied(siMesg) /\ AfterRead(siMesg)
  /\ UNCHANGED siMesgQ

(* The motor access is over.  A pak that is new answers only an           *)
(* initialisation, which asks it for its status.                           *)
Present(op) == motor \in {"off", "on"} \/ (Inits(op) /\ motor = "new")
Answers(op, ok, lost) ==
  /\ ok /\ ~Present(op) => pulled
  /\ ~ok /\ Present(op) => pulled \/ lost
  /\ lost => Present(op) /\ (ok => op = "force")

(* What the access has done to the motor: all of it, if the answers came;  *)
(* when one is garbled, or the pak was pulled, perhaps not all.            *)
Done(op) ==
  CASE op = "start" -> "on"
    [] op \in {"stop", "force"} -> "off"
    [] OTHER -> IF motor = "new" THEN "off" ELSE motor
Effects(op, ok, lost) ==
  CASE ~Present(op) -> {motor}
    [] Present(op) /\ ok /\ ~lost /\ ~pulled -> {Done(op)}
    [] Present(op) /\ ~ok /\ Inits(op) -> {motor, IF motor = "new" THEN "off" ELSE motor}
    [] OTHER -> {motor, Done(op)}

(* An answer is lost when it is garbled, by the code's CRC or rx check, and *)
(* so often that the retries of an initialisation do not help; the stop    *)
(* after that of a force is not looked at.                                 *)
MotorAnswered(ok, lost) ==
  LET op == siMesg.op
  IN  /\ siPc = "motor" /\ Answers(op, ok, lost)
      /\ motor' \in Effects(op, ok, lost)
      /\ pulled' = FALSE
      /\ inited' = IF Inits(op) THEN ok ELSE inited
      /\ garbled' = (motor' = "on" /\ (lost \/ (garbled /\ op # "start")))
      /\ siPc' = "recv" /\ siMesg' = NoMesg /\ siLeft' = 0
      /\ IF op = "check"
         THEN /\ app' = [app EXCEPT ![siMesg.from].pc = "checked", ![siMesg.from].saved = ok]
              /\ UNCHANGED rmb
         ELSE /\ rmb' = IF op = "search"
                        THEN [rmb EXCEPT !.counter = (@ + 1) % SearchTime,
                                         !.found = @ \/ ok, !.type = @ \/ ok]
                        ELSE Concluded(rmb, siMesg.mode, ok)
              /\ UNCHANGED app
      /\ UNCHANGED <<siMesgQ, lastCmd, pif, padState>>

-----------------------------------------------------------------------------
(* nuContInit: a query was the last command.                               *)
ContInit ==
  /\ siMesgQ = <<>> /\ siPc = "recv" /\ siMesg = NoMesg /\ siLeft = 0
  /\ lastCmd = "status" /\ pif = "status"
  /\ key = FALSE /\ mutex = Nobody /\ waitToken = FALSE /\ pad = 0 /\ frozen = 0
  /\ rmb = [state |-> "stopped", mode |-> "disable", pause |-> FALSE, found |-> FALSE, type |-> FALSE,
            counter |-> 0, freq |-> 0, frame |-> 0]
  /\ motor = "none" /\ pulled = FALSE /\ inited = FALSE /\ garbled = FALSE
  /\ app = [a \in ContApps |-> Calm] /\ contLeft = ContMaxCalls

AppCalls ==
  \/ \E a \in ContApps :
       \/ GetExCall(a)
       \/ \E op \in {"read", "readNW", "query", "check", "stop", "force", "park"} : RequestCall(a, op)
       \/ \E p \in RmbProfiles : RmbStartCall(a, p)
       \/ \E mode \in RmbModes : ModeSetCall(a, mode)
  \/ DataLock
Mishaps == Unplug \/ \E ok \in BOOLEAN : MotorAnswered(ok, TRUE)
AppSteps(a) ==
  \/ GetExClose(a) \/ GetExCopy(a) \/ GetExTrigger(a) \/ GetExOpen(a)
  \/ SiSend(a) \/ CheckReturn(a) \/ ModeSet(a)
SiStep ==
  \/ SiRetrace \/ SiRead \/ SiRumble \/ SiCheck \/ SiStop
  \/ SiWritten \/ SiAnswered \/ SiClose
  \/ \E ok \in BOOLEAN : MotorAnswered(ok, FALSE)

ContNext ==
  \/ contLeft > 0 /\ contLeft' = contLeft - 1 /\ (AppCalls \/ Mishaps)
  \/ /\ UNCHANGED contLeft
     /\ (\E a \in ContApps : AppSteps(a) \/ SiRestart(a)) \/ SiStep \/ ContRetraceMesg \/ Plug

ContSpec == ContInit /\ [][ContNext]_contVars

-----------------------------------------------------------------------------
(* What nuContDataGetEx hands out is one reading: the buttons its trigger  *)
(* bits come from are the ones it copied.                                  *)
OneReading == \A a \in ContApps : app[a].pc = "open" => app[a].trigger = app[a].got

(* While the data lock is held only the reads a program asks for itself    *)
(* change the pad buffer, also when it is taken in the middle of a retrace.*)
LockFreezes == key => pad = frozen

(* An answer is read from the PIF when the block it answers is the one     *)
(* written last, whichever transactions skipped the write.                 *)
AnswersCommand == siPc = "dma" /\ siLeft = 1 => pif = lastCmd

(* A motor that runs is known to: a state that will stop it, and a mode in *)
(* which it is stepped, unless a program has asked for DISABLE itself.  But*)
(* an access whose answer is garbled makes the manager give the pak up, or *)
(* take the motor for stopped, and leave it running.                       *)
MotorKnown ==
  motor = "on" /\ ~garbled =>
    /\ rmb.state \in {"run", "forcestop"}
    /\ rmb.mode = "disable" => "disable" \in RmbModes

(* The controller threads: copies are of one reading, locked data stays,    *)
(* the SI answers the command last written, and no motor is forgotten.      *)
ContInv == OneReading /\ LockFreezes /\ AnswersCommand /\ MotorKnown

(* No motor runs for ever, whatever races with its stop, unless the manager*)
(* has given it up: disabled or paused without a type it is not stepped,   *)
(* and a state taken for stopped does nothing.                             *)
GivenUp == rmb.mode = "disable" \/ (rmb.pause /\ ~rmb.type) \/ rmb.state = "stopped"
MotorRests == []<>(motor # "on" \/ GivenUp)
================================================================================
