------------------------------- MODULE PiManager -------------------------------
(***************************************************************************)
(* The PI device manager (devmgr.c, pimgr.c), the access token it shares   *)
(* with direct users of the bus (piacs.c), the request call (epidma.c) and *)
(* the bus itself.  A client is anything that owns request blocks: it      *)
(* fills a block, hands it to the manager and finds it on the block's      *)
(* return queue.  Nothing keeps a client from filling a block again while  *)
(* the manager has it, so Request has no such guard.                       *)
(*                                                                         *)
(* Cartridge and SRAM are on different domains of the bus, each with its   *)
(* own timing registers; what the registers hold stands for the four of    *)
(* them.  The 64DD path of the manager is left out: no handle of that type *)
(* is made in this program.                                                *)
(***************************************************************************)
EXTENDS Integers, Sequences

CONSTANTS
  Blocks,     (* OSIoMesg request blocks                                   *)
  Queues,     (* return queues                                             *)
  RetMax,     (* RetMax[q]: the slots of return queue q                    *)
  Addrs,      (* device addresses                                          *)
  Rams,       (* places in RAM                                             *)
  Direct,     (* threads that take the bus directly, in osCartRomInit      *)
  CmdMax,     (* the slots of the command queue, NU_PI_MESG_NUM            *)
  NoBlock, NoDma

Domains == {"cart", "sram"}

ASSUME PiAssumption ==
  /\ RetMax \in [Queues -> Nat]
  /\ CmdMax \in Nat \ {0}
  /\ NoBlock \notin Blocks
  /\ NoDma \notin [domain : Domains, type : {"EDMAREAD", "EDMAWRITE"}, dev : Addrs, ram : Rams]

VARIABLES
  block,      (* the contents of each request block                        *)
  cmdQueue,   (* the manager's command queue                               *)
  retQueue,   (* the return queues                                         *)
  access,     (* the tokens in __osPiAccessQueue                           *)
  evtQueue,   (* the completion messages in piEventQueue, of one slot      *)
  mgr,        (* where __osDevMgrMain waits: command, access, event        *)
  mb,         (* the block the manager works on                            *)
  kind,       (* its type, read as the manager took it up                  *)
  bus,        (* the transfer on the bus                                   *)
  held,       (* what each place in RAM was last loaded with               *)
  timing,     (* whose timing the registers of each domain hold            *)
  current,    (* the type cached in __osCurrentHandle[domain]              *)
  romPc,      (* where each thread is in osCartRomInit                     *)
  romFirst,   (* osCartRomInitFirst                                        *)
  romBuilt,   (* the fields of __CartRomHandle are set                     *)
  saved       (* the registers osCartRomInit found                         *)

requests == <<block, cmdQueue, retQueue>>
manager  == <<mgr, mb, kind, evtQueue>>
rom      == <<romPc, romFirst, romBuilt, saved>>
wires    == <<bus, held>>
piVars   == <<requests, access, manager, wires, timing, current, rom>>

Requests == [pri : {"NORMAL", "HIGH"}, type : {"EDMAREAD", "EDMAWRITE", "LOOPBACK"},
             domain : Domains, dev : Addrs, ram : Rams, ret : Queues]
Dmas == [domain : Domains, type : {"EDMAREAD", "EDMAWRITE"}, dev : Addrs, ram : Rams]
RomPcs == {"new", "access", "held", "slow", "link", "done"}
Timings == {"boot", "cart", "sram", "slow"}

(* Where osCartRomInit holds the token.                                    *)
HoldsBus(t) == romPc[t] \in {"held", "slow", "link"}

-----------------------------------------------------------------------------
(* The manager's command queue.                                            *)
(* osEPiStartDma with its OS_MESG_NOBLOCK post: in a full queue the request*)
(* is dropped, and the clients of this program do not look at the result.  *)
Posted(b, pri) ==
  IF Len(cmdQueue) >= CmdMax THEN cmdQueue
  ELSE IF pri = "HIGH" THEN <<b>> \o cmdQueue ELSE Append(cmdQueue, b)

Request(b, r) ==
  /\ block' = [block EXCEPT ![b] = r]
  /\ cmdQueue' = Posted(b, r.pri)
  /\ UNCHANGED <<retQueue, access, manager, wires, timing, current, rom>>

(* A reply is posted without blocking, too.                                *)
Reply(q) == IF Len(retQueue[q]) >= RetMax[q] THEN retQueue
            ELSE [retQueue EXCEPT ![q] = Append(@, mb')]

(* A client takes a reply.                                                 *)
Collect(q) ==
  /\ retQueue[q] # <<>>
  /\ retQueue' = [retQueue EXCEPT ![q] = Tail(@)]
  /\ UNCHANGED <<block, cmdQueue, access, manager, wires, timing, current, rom>>

-----------------------------------------------------------------------------
(* __osDevMgrMain, cut where it waits.                                     *)

TakeCommand ==
  /\ mgr = "command"
  /\ cmdQueue # <<>>
  /\ mb' = Head(cmdQueue)
  /\ cmdQueue' = Tail(cmdQueue)
  /\ kind' = block[mb'].type
  /\ IF kind' = "LOOPBACK"
     THEN mgr' = mgr /\ retQueue' = Reply(block[mb'].ret)
     ELSE mgr' = "access" /\ retQueue' = retQueue
  /\ UNCHANGED <<block, access, evtQueue, wires, timing, current, rom>>

(* Mutant: the registers are left with the timing of the last device.      *)
SyncedNot(d) == timing

(* EPI_SYNC: the registers are written when the type of the last handle of *)
(* the domain differs.  The type cached at boot is the cartridge's.        *)
Synced(d) == IF current[d] # d THEN [timing EXCEPT ![d] = d] ELSE timing

(* The token is there: the rest of the block is read now, and the transfer *)
(* started.                                                                *)
StartDma ==
  /\ mgr = "access"
  /\ access > 0
  /\ bus = NoDma
  /\ access' = access - 1
  /\ mgr' = "event"
  /\ LET b == block[mb] IN
       /\ timing' = Synced(b.domain)
       /\ current' = [current EXCEPT ![b.domain] = b.domain]
       /\ bus' = [domain |-> b.domain, type |-> kind, dev |-> b.dev, ram |-> b.ram]
  /\ UNCHANGED <<requests, mb, kind, evtQueue, held, rom>>

(* The hardware finishes; the exception handler posts the event.           *)
BusDone ==
  /\ bus # NoDma
  /\ bus' = NoDma
  /\ held' = IF bus.type = "EDMAREAD"
             THEN [held EXCEPT ![bus.ram] = <<bus.domain, bus.dev>>] ELSE held
  /\ evtQueue' = IF evtQueue = 0 THEN 1 ELSE evtQueue
  /\ UNCHANGED <<requests, access, mgr, mb, kind, timing, current, rom>>

(* The completion: reply, and give the token back.                         *)
Complete ==
  /\ mgr = "event"
  /\ evtQueue > 0
  /\ evtQueue' = evtQueue - 1
  /\ UNCHANGED <<mb, kind>>
  /\ retQueue' = Reply(block[mb].ret)
  /\ access' = IF access = 0 THEN 1 ELSE access
  /\ mgr' = "command"
  /\ UNCHANGED <<block, cmdQueue, wires, timing, current, rom>>

-----------------------------------------------------------------------------
(* osCartRomInit: the first caller probes the cartridge with the slowest   *)
(* timing, and everyone after it only asks for the handle.                 *)

CartRomInit(t) ==
  /\ romPc[t] \in {"new", "done"}
  /\ romPc' = [romPc EXCEPT ![t] = "access"]
  /\ UNCHANGED <<requests, access, manager, wires, timing, current, romFirst, romBuilt, saved>>

PiGetAccess(t) ==
  /\ romPc[t] = "access"
  /\ access > 0
  /\ access' = access - 1
  /\ romPc' = [romPc EXCEPT ![t] = "held"]
  /\ UNCHANGED <<requests, manager, wires, timing, current, romFirst, romBuilt, saved>>

PiRelAccess(t) ==
  /\ access' = IF access = 0 THEN 1 ELSE access
  /\ romPc' = [romPc EXCEPT ![t] = "done"]

(* Mutant: the early return keeps the token.                               *)
AlreadyBuiltKept(t) ==
  /\ romPc[t] = "held"
  /\ ~romFirst
  /\ romPc' = [romPc EXCEPT ![t] = "done"]
  /\ UNCHANGED <<requests, access, manager, wires, timing, current, romFirst, romBuilt, saved>>

AlreadyBuilt(t) ==
  /\ romPc[t] = "held"
  /\ ~romFirst
  /\ PiRelAccess(t)
  /\ UNCHANGED <<requests, manager, wires, timing, current, romFirst, romBuilt, saved>>

(* The registers are saved and made slow once the bus is quiet.            *)
ProbeSlow(t) ==
  /\ romPc[t] = "held"
  /\ romFirst
  /\ bus = NoDma
  /\ romFirst' = FALSE
  /\ saved' = timing["cart"]
  /\ timing' = [timing EXCEPT !["cart"] = "slow"]
  /\ romPc' = [romPc EXCEPT ![t] = "slow"]
  /\ UNCHANGED <<requests, access, manager, wires, current, romBuilt>>

ProbeRestore(t) ==
  /\ romPc[t] = "slow"
  /\ romBuilt' = TRUE
  /\ timing' = [timing EXCEPT !["cart"] = saved]
  /\ romPc' = [romPc EXCEPT ![t] = "link"]
  /\ UNCHANGED <<requests, access, manager, wires, current, romFirst, saved>>

LinkHandle(t) ==
  /\ romPc[t] = "link"
  /\ PiRelAccess(t)
  /\ UNCHANGED <<requests, manager, wires, timing, current, romFirst, romBuilt, saved>>

-----------------------------------------------------------------------------
(* osCreatePiManager has run: the queues are there, the token is in.       *)
PiInit ==
  /\ block \in [Blocks -> Requests]
  /\ cmdQueue = <<>>
  /\ retQueue = [q \in Queues |-> <<>>]
  /\ access = 1
  /\ evtQueue = 0
  /\ mgr = "command"
  /\ mb = NoBlock
  /\ kind = "LOOPBACK"
  /\ bus = NoDma
  /\ held = [m \in Rams |-> NoDma]
  /\ timing = [d \in Domains |-> "boot"]
  /\ current = [d \in Domains |-> "cart"]
  /\ romPc = [t \in Direct |-> "new"]
  /\ romFirst = TRUE
  /\ romBuilt = FALSE
  /\ saved = "boot"

ManagerStep == TakeCommand \/ StartDma \/ Complete
RomStep(t) == CartRomInit(t) \/ PiGetAccess(t) \/ AlreadyBuilt(t) \/ ProbeSlow(t)
              \/ ProbeRestore(t) \/ LinkHandle(t)

PiNext ==
  \/ \E b \in Blocks, r \in Requests : Request(b, r)
  \/ \E q \in Queues : Collect(q)
  \/ ManagerStep
  \/ BusDone
  \/ \E t \in Direct : RomStep(t)

PiSpec == PiInit /\ [][PiNext]_piVars

-----------------------------------------------------------------------------
PiTypeOK ==
  /\ block \in [Blocks -> Requests]
  /\ cmdQueue \in Seq(Blocks)
  /\ retQueue \in [Queues -> Seq(Blocks)]
  /\ access \in 0 .. 1
  /\ evtQueue \in 0 .. 1
  /\ mgr \in {"command", "access", "event"}
  /\ mb \in Blocks \cup {NoBlock}
  /\ kind \in {"EDMAREAD", "EDMAWRITE", "LOOPBACK"}
  /\ mgr # "command" => mb \in Blocks /\ kind # "LOOPBACK"
  /\ bus \in Dmas \cup {NoDma}
  /\ held \in [Rams -> (Domains \X Addrs) \cup {NoDma}]
  /\ timing \in [Domains -> Timings]
  /\ current \in [Domains -> Domains]
  /\ romPc \in [Direct -> RomPcs]
  /\ romFirst \in BOOLEAN
  /\ romBuilt \in BOOLEAN
  /\ saved \in Timings

(* The bus has one owner, and the token is never lost: it is in the access *)
(* queue, with the manager from the start of a transfer to its completion, *)
(* or with one thread in osCartRomInit.                                    *)
OneBusOwner ==
  /\ access = 1 => mgr # "event" /\ \A t \in Direct : ~HoldsBus(t)
  /\ access = 0 => mgr = "event" \/ \E t \in Direct : HoldsBus(t)
  /\ mgr = "event" => \A t \in Direct : ~HoldsBus(t)
  /\ \A t, u \in Direct : HoldsBus(t) /\ HoldsBus(u) => t = u

(* Completions belong to the request the manager waits for: while it waits *)
(* there is a transfer or its event, not both, and at any other time there *)
(* is neither, so that no event is lost and none is taken for another's.   *)
CompletionIsMine ==
  IF mgr = "event" THEN (bus # NoDma) # (evtQueue = 1)
  ELSE bus = NoDma /\ evtQueue = 0

(* A transfer runs with the timing of its own device: never the slow one of*)
(* the probe, and on the SRAM's domain the SRAM's.                         *)
BusTimed ==
  bus # NoDma => timing[bus.domain] = IF bus.domain = "cart" THEN "boot" ELSE "sram"

(* The PI's transfers: one owner of the bus at a time, each completion      *)
(* taken by the request it belongs to, and the timing of its own device.    *)
PiInv == OneBusOwner /\ CompletionIsMine /\ BusTimed
================================================================================
