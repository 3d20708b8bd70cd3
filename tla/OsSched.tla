-------------------------------- MODULE OsSched --------------------------------
(***************************************************************************)
(* libultra's RCP scheduler (sched.c): one thread that takes the retraces  *)
(* and the completions of the RSP and the RDP from one queue and packs the *)
(* queued audio and graphics tasks on the two units.  A handler runs to its*)
(* end before the next event is taken, so each is one action.              *)
(*                                                                         *)
(* Graphics tasks are submitted in the order of OscGraphics, round and     *)
(* round, an audio task once the one before it is done: doAudio is one     *)
(* flag for a list, and a second task of the same retrace would be left.   *)
(* The clients told of retraces, who change nothing here, are left out.    *)
(***************************************************************************)
EXTENDS Integers, Sequences

CONSTANTS
  OscGraphics,   (* the graphics tasks, a sequence of                      *)
                 (*   [name, buf, last, parallel]                          *)
  OscAudio,      (* the audio tasks                                        *)
  OscTypings,    (* OS_SC_TYPE_MASK of the graphics tasks, xbus or dram:   *)
                 (*   the choices for all of them                          *)
  OscNone

OscGfxTasks == {OscGraphics[i].name : i \in DOMAIN OscGraphics}
OscTasks == OscGfxTasks \cup OscAudio
OscBuffers == {OscGraphics[i].buf : i \in DOMAIN OscGraphics}

ASSUME OscAssumption ==
  /\ Len(OscGraphics) \in Nat \ {0} /\ DOMAIN OscGraphics = 1 .. Len(OscGraphics)
  /\ \A i, j \in DOMAIN OscGraphics : OscGraphics[i].name = OscGraphics[j].name => i = j
  /\ OscAudio \cap OscGfxTasks = {}
  /\ OscTypings \subseteq [OscGfxTasks -> {"xbus", "dram"}]
  /\ OscNone \notin OscTasks

VARIABLES
  oscType,      (* the type of each graphics task                          *)
  oscAt,        (* the place in OscGraphics of the next one submitted      *)
  oscBusy,      (* the tasks submitted and not done                        *)
  cmdQ,         (* sc->cmdQ                                                *)
  interruptQ,   (* sc->interruptQ                                          *)
  audioList, gfxList, doAudio,
  curRSP, curRDP,
  state,        (* OSScTask->state                                         *)
  viFb,         (* osViGetCurrentFramebuffer and osViGetNextFramebuffer    *)
  rsp,          (* the RSP: its task, a yield is asked for, it yielded     *)
  rdp           (* the RDP: its task                                       *)

oscApp   == <<oscType, oscAt>>
oscVars  == <<oscApp, oscBusy, cmdQ, interruptQ, audioList, gfxList, doAudio, curRSP, curRDP,
              state, viFb, rsp, rdp>>

Gfx(t) == OscGraphics[CHOOSE i \in DOMAIN OscGraphics : OscGraphics[i].name = t]
HeadOf(list) == IF list = <<>> THEN OscNone ELSE Head(list)

-----------------------------------------------------------------------------
(* Submitters and hardware.                                                *)

OscSubmit(t) ==
  /\ cmdQ' = Append(cmdQ, t)
  /\ oscBusy' = oscBusy \cup {t}
  /\ UNCHANGED <<oscType, interruptQ, audioList, gfxList, doAudio, curRSP, curRDP, state, viFb,
                 rsp, rdp>>

OscSubmitGraphics ==
  /\ OscGraphics[oscAt].name \notin oscBusy
  /\ OscSubmit(OscGraphics[oscAt].name)
  /\ oscAt' = (oscAt % Len(OscGraphics)) + 1

OscSubmitAudio ==
  /\ oscBusy \cap OscAudio = {}
  /\ \E t \in OscAudio : OscSubmit(t)
  /\ UNCHANGED oscAt

Interrupt(msg) ==
  /\ interruptQ' = Append(interruptQ, msg)
  /\ UNCHANGED <<oscApp, oscBusy, cmdQ, audioList, gfxList, doAudio, curRSP, curRDP, state>>

(* The scheduler is through with a retrace before the next comes.          *)
OscRetrace ==
  /\ \A i \in DOMAIN interruptQ : interruptQ[i] # "VIDEO"
  /\ viFb' = [viFb EXCEPT !.curr = viFb.next]
  /\ Interrupt("VIDEO")
  /\ UNCHANGED <<rsp, rdp>>

(* The task breaks, at its end or, asked to, where it can yield.           *)
RspBreak(yields) ==
  /\ rsp.task # OscNone
  /\ yields => rsp.asked
  /\ rsp' = [task |-> OscNone, asked |-> FALSE, yielded |-> yields]
  /\ Interrupt("RSP")
  /\ UNCHANGED <<viFb, rdp>>

RdpDone ==
  /\ rdp # OscNone
  /\ rdp' = OscNone
  /\ Interrupt("RDP")
  /\ UNCHANGED <<viFb, rsp>>

-----------------------------------------------------------------------------
(* The scheduler.  s is its state in the middle of a handler, avail the    *)
(* units still free and sp, dp the tasks placed on them.                   *)

Free(rspTask, rdpTask) ==
  (IF rspTask = OscNone THEN {"SP"} ELSE {}) \cup (IF rdpTask = OscNone THEN {"DP"} ELSE {})

(* Mutant: the swap of a completed frame is not waited for.                *)
TaskReadyAnyway(t, fb) == t # OscNone

(* __scTaskReady.                                                          *)
TaskReady(t, fb) == t # OscNone /\ fb.curr = fb.next

(* A pass of __scSchedule, and the one it leads to when it placed a task.  *)
Place(s) ==
  LET gfx    == HeadOf(s.gfx)
      units  == s.state[gfx] \cap {"SP", "DP"}
      resume == "YIELDED" \in s.state[gfx]
  IN  IF s.doAudio /\ "SP" \in s.avail
      THEN IF gfx # OscNone /\ Gfx(gfx).parallel
           THEN [s EXCEPT !.sp = gfx, !.avail = @ \ {"SP"}]
           ELSE [s EXCEPT !.sp = HeadOf(s.audio), !.avail = @ \ {"SP"}, !.doAudio = FALSE,
                          !.audio = Tail(@)]
      ELSE IF ~TaskReady(gfx, s.fb) THEN s
      ELSE CASE oscType[gfx] = "xbus" /\ resume /\ "SP" \in s.avail ->
                  [s EXCEPT !.sp = gfx, !.dp = IF "DP" \in units THEN gfx ELSE @,
                            !.avail = @ \ (units \cup {"SP"}), !.gfx = Tail(@)]
             [] oscType[gfx] = "xbus" /\ ~resume /\ s.avail = {"SP", "DP"} ->
                  [s EXCEPT !.sp = gfx, !.dp = gfx, !.avail = {}, !.gfx = Tail(@)]
             [] oscType[gfx] = "dram" /\ "SP" \in units \cap s.avail ->
                  [s EXCEPT !.sp = gfx, !.avail = @ \ {"SP"}]
             [] oscType[gfx] = "dram" /\ units = {"DP"} /\ "DP" \in s.avail ->
                  [s EXCEPT !.dp = gfx, !.avail = @ \ {"DP"}, !.gfx = Tail(@)]
             [] OTHER -> s
(* __scSchedule with the units that are free.  There are two: the third    *)
(* pass finds nothing to place.                                            *)
Schedule(s, Then(_)) ==
  \E p \in {[s EXCEPT !.avail = Free(s.curRSP, s.curRDP)]} :
    \E q \in {Place(p)} : \E r \in {Place(q)} : Then(r)

(* The scheduler as a handler of the current event finds it.               *)
Now == [gfx |-> gfxList, audio |-> audioList, doAudio |-> doAudio, curRSP |-> curRSP,
        curRDP |-> curRDP, state |-> state, fb |-> viFb, busy |-> oscBusy,
        sp |-> OscNone, dp |-> OscNone, avail |-> {}]

(* The handler ends in state s: __scExec starts what was placed.  A task on*)
(* both units drives the RDP from the RSP.                                 *)
Exec(s) ==
  /\ interruptQ' = Tail(interruptQ)
  /\ UNCHANGED oscApp
  /\ gfxList' = s.gfx /\ audioList' = s.audio /\ doAudio' = s.doAudio
  /\ viFb' = s.fb /\ oscBusy' = s.busy
  /\ curRSP' = IF s.sp = OscNone THEN s.curRSP ELSE s.sp
  /\ curRDP' = IF s.dp = OscNone THEN s.curRDP ELSE s.dp
  /\ state' = IF s.sp = OscNone THEN s.state
              ELSE [s.state EXCEPT ![s.sp] = @ \ {"YIELD", "YIELDED"}]
  /\ rdp' = IF s.dp = OscNone \/ s.dp = s.curRDP THEN rdp ELSE s.dp

Started(s) ==
  /\ Exec(s)
  /\ rsp' = IF s.sp = OscNone THEN rsp ELSE [task |-> s.sp, asked |-> FALSE, yielded |-> FALSE]
Launch(s) == Schedule(s, Started)

(* __scTaskComplete: the frame's last task asks for the swap.              *)
Completed(s, t) ==
  IF s.state[t] \cap {"SP", "DP"} # {} THEN s
  ELSE [s EXCEPT !.busy = @ \ {t},
                 !.fb.next = IF t \in OscGfxTasks /\ Gfx(t).last THEN Gfx(t).buf ELSE @]

(* The tasks of a kind in a list, in its order.                            *)
OfKind(list, kind) ==
  LET kept[i \in 0 .. Len(list)] ==
        IF i = 0 THEN <<>>
        ELSE IF list[i] \in kind THEN Append(kept[i - 1], list[i]) ELSE kept[i - 1]
  IN  kept[Len(list)]

(* __scAppendList of all that is in the command queue.                     *)
Appended(s) ==
  LET q == {cmdQ[i] : i \in DOMAIN cmdQ}
  IN  [s EXCEPT !.audio = @ \o OfKind(cmdQ, OscAudio), !.gfx = @ \o OfKind(cmdQ, OscGfxTasks),
                !.doAudio = @ \/ \E t \in q : t \in OscAudio,
                !.state = [t \in OscTasks \cup {OscNone} |->
                             IF t \notin q THEN s.state[t]
                             ELSE IF t \in OscAudio THEN {"SP"} ELSE {"SP", "DP"}]]

(* Mutant: the flag goes down with the request to yield.                   *)
HandleRetraceForgets ==
  /\ interruptQ # <<>> /\ Head(interruptQ) = "VIDEO"
  /\ cmdQ' = <<>>
  /\ \E s \in {Appended(Now)} :
       IF s.doAudio /\ curRSP # OscNone
       THEN /\ Exec(IF curRSP \in OscGfxTasks
                    THEN [s EXCEPT !.state[curRSP] = @ \cup {"YIELD"}, !.doAudio = FALSE] ELSE s)
            /\ rsp' = [rsp EXCEPT !.asked = curRSP \in OscGfxTasks /\ rsp.task # OscNone]
       ELSE Launch(s)

(* With audio waiting and the RSP taken, graphics there are asked to yield.*)
HandleRetrace_ ==
  /\ interruptQ # <<>> /\ Head(interruptQ) = "VIDEO"
  /\ cmdQ' = <<>>
  /\ \E s \in {Appended(Now)} :
       IF s.doAudio /\ curRSP # OscNone
       THEN /\ Exec(IF curRSP \in OscGfxTasks THEN [s EXCEPT !.state[curRSP] = @ \cup {"YIELD"}] ELSE s)
            /\ rsp' = [rsp EXCEPT !.asked = curRSP \in OscGfxTasks /\ rsp.task # OscNone]
       ELSE Launch(s)

(* A task that yielded is to be resumed: one on both units goes back to the*)
(* front of the list, the others never left it.                            *)
HandleRSP ==
  /\ interruptQ # <<>> /\ Head(interruptQ) = "RSP"
  /\ LET t == curRSP
         s == [Now EXCEPT !.curRSP = OscNone]
     IN  Launch(IF "YIELD" \in state[t] /\ rsp.yielded
                THEN [s EXCEPT !.state[t] = @ \cup {"YIELDED"},
                               !.gfx = IF oscType[t] = "xbus" THEN <<t>> \o @ ELSE @]
                ELSE Completed([s EXCEPT !.state[t] = @ \ {"SP"}], t))
  /\ UNCHANGED cmdQ

HandleRDP ==
  /\ interruptQ # <<>> /\ Head(interruptQ) = "RDP"
  /\ Launch(Completed([Now EXCEPT !.curRDP = OscNone, !.state[curRDP] = @ \ {"DP"}], curRDP))
  /\ UNCHANGED cmdQ

-----------------------------------------------------------------------------
OscInit ==
  /\ oscType \in OscTypings
  /\ oscAt = 1 /\ oscBusy = {}
  /\ cmdQ = <<>> /\ interruptQ = <<>> /\ audioList = <<>> /\ gfxList = <<>> /\ doAudio = FALSE
  /\ curRSP = OscNone /\ curRDP = OscNone
  /\ state = [t \in OscTasks \cup {OscNone} |-> {}]
  /\ LET fb == OscGraphics[Len(OscGraphics)].buf IN viFb = [curr |-> fb, next |-> fb]
  /\ rsp = [task |-> OscNone, asked |-> FALSE, yielded |-> FALSE] /\ rdp = OscNone

OscHandler == HandleRetrace_ \/ HandleRSP \/ HandleRDP
OscNext == OscSubmitGraphics \/ OscSubmitAudio \/ OscRetrace \/ (\E y \in BOOLEAN : RspBreak(y)) \/ RdpDone \/ OscHandler

OscSpec == OscInit /\ [][OscNext]_oscVars

-----------------------------------------------------------------------------
(* What the scheduler takes for running is what runs, or what it has still *)
(* to be told the end of: no unit is given a task while it has one, and no *)
(* completion is taken for another task's.                                 *)
UnitsAgree ==
  LET Told(msg) == \E i \in DOMAIN interruptQ : interruptQ[i] = msg
  IN  /\ curRSP # OscNone => (rsp.task = curRSP) # Told("RSP")
      /\ curRSP = OscNone => rsp.task = OscNone /\ ~Told("RSP")
      /\ curRDP # OscNone => (rdp = curRDP) # Told("RDP")
      /\ curRDP = OscNone => rdp = OscNone /\ ~Told("RDP")

(* Nothing is drawn to a buffer that is on display or about to be, with two*)
(* buffers, tasks queued ahead and tasks of one frame sharing a buffer.    *)
DrawnUnseen ==
  rdp # OscNone => Gfx(rdp).buf \notin {viFb.curr, viFb.next}

(* An audio task is done in the end, although graphics tasks may hold the  *)
(* RSP, one behind the other ("audio is never starved").                   *)
AudioFinishes == \A t \in OscAudio : []<>(t \notin oscBusy)

(* libultra's scheduler: it knows what each unit runs, and the RDP never    *)
(* draws on a buffer in view.                                               *)
OscInv == UnitsAgree /\ DrawnUnseen
================================================================================
