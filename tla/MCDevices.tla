------------------------------- MODULE MCDevices -------------------------------
(* The drivers and managers that share no state, checked side by side: each  *)
(* behaviour is one of a single part, the others rest in a first state.      *)
EXTENDS MesgRing, NVoices, SampleCache, ViManager, GfxTasks, OsSched, AudFrames, AdpcmVoice, ContManager, PakFs, GbPak, TLC

VARIABLE part
devVars == <<part, vars, nvVars, cacheVars, viVars, gfxVars, oscVars, audVars, dcVars, contVars, pakVars, gbVars>>
Parts == {"ring", "voices", "cache", "pi", "modes", "vi", "gfx", "display", "reset", "osc", "aud", "adpcm", "pad", "rumble", "pak", "gb"}

(* The cartridge twice: the cache of samples with no other reader, and other *)
(* readers with two samples.                                                 *)
ReadersAway == \A t \in Threads : call[t] = "out" /\ romPc[t] = "new"
TwoSamples == \A b \in Buffers : sampleAddr[b] \in {Invalid, 0, 2}
Pi == part \in {"cache", "pi"}

(* The VI twice: every mode from a first one and back, and every call with   *)
(* two modes.                                                                *)
FromLan1 == \E c \in {0, 1} : viCtx[c].mode = Lan1("NTSC")
TwoModes ==
  LET m == viCtx[viNext].mode IN m.tv = "NTSC" /\ m.bits = 16 /\ m.aa = "A" /\ m.scan = "N"
Vi == part \in {"modes", "vi"}

(* Graphics tasks three times: without changes of the display or a wait for  *)
(* all of them; one at a time; and with a reset, asked for while the second  *)
(* frame is filled and followed to the fourth.                               *)
SameDisplay == display' = display /\ appPc' # "drain"
OneTask == spool <= 1
NoReset == preNMIFlag = "YET"
ResetInSecond ==
  /\ preNMIFlag = "YET" => frame <= 1
  /\ preNMIFlag' # preNMIFlag => frame = 1
  /\ frame' >= frame /\ appPc' # "drain"
Gfx_ == part \in {"gfx", "display", "reset"}

(* The controllers twice: the pad data with no motor and fewer calls, and    *)
(* the motor with the pad data locked, the calls that have to do with it, and*)
(* these one by one until it has been started.                               *)
MotorAway ==
  /\ motor = "none" /\ rmb.mode = "disable" /\ rmb.state = "stopped" /\ ~rmb.pause
  /\ contLeft >= ContMaxCalls - 3
AppsIdle == siPc = "recv" /\ siMesgQ = <<>> /\ \A a \in ContApps : app[a].pc = "idle"
MotorCalls ==
  /\ ~key' => contLeft' = ContMaxCalls
  /\ \A a \in ContApps : app'[a].pc # "close" /\ app'[a].op \notin {"query", "park"}
  /\ contLeft' # contLeft /\ rmb.state = "stopped" => motor # "none" /\ AppsIdle
Cont == part \in {"pad", "rumble"}

Others ==
  /\ UNCHANGED part
  /\ IF part = "ring"  THEN TRUE ELSE UNCHANGED vars
  /\ IF part = "voices" THEN TRUE ELSE UNCHANGED nvVars
  /\ IF Pi             THEN TRUE ELSE UNCHANGED cacheVars
  /\ IF Vi             THEN TRUE ELSE UNCHANGED viVars
  /\ IF Gfx_           THEN TRUE ELSE UNCHANGED gfxVars
  /\ IF part = "osc"   THEN TRUE ELSE UNCHANGED oscVars
  /\ IF part = "aud"   THEN TRUE ELSE UNCHANGED audVars
  /\ IF part = "adpcm" THEN TRUE ELSE UNCHANGED dcVars
  /\ IF Cont          THEN TRUE ELSE UNCHANGED contVars
  /\ IF part = "pak"   THEN TRUE ELSE UNCHANGED pakVars
  /\ IF part = "gb"    THEN TRUE ELSE UNCHANGED gbVars

DevInit ==
  /\ part \in Parts
  /\ Init /\ NvInit /\ CacheStart /\ ViInit /\ GfxInit /\ OscInit /\ AudInit /\ AdpcmInit /\ ContInit /\ PakInit /\ GbInitially
  /\ part # "ring" => got = CHOOSE m \in Mesgs : TRUE
  /\ part # "ring" => msg = [i \in Slot |-> got]
  /\ part # "voices" => nvClient = CHOOSE c \in NvClients : TRUE
  /\ ~Vi => viCtx[0].mode.tv = "NTSC" /\ viRegs = Programmed(Next_, 0)
  /\ part # "osc" => oscType = CHOOSE t \in OscTypings : TRUE
  /\ part # "aud" => commands
  /\ part # "adpcm" => table = CHOOSE s \in Sounds : TRUE
  /\ part # "gb" => gb.dev = Device(CHOOSE d \in GbDevices : TRUE)

DevNext ==
  \/ part = "ring"  /\ Next      /\ Others
  \/ part = "voices" /\ NvNext   /\ Others
  \/ part = "cache" /\ CacheNext /\ ReadersAway' /\ Others
  \/ part = "pi"    /\ CacheNext /\ TwoSamples'  /\ Others
  \/ part = "modes" /\ ((\E f \in {0, 1} : ViRetrace(f)) \/ \E m \in ViModeSet : SetMode(m)) /\ FromLan1' /\ Others
  \/ part = "vi"    /\ ViStep    /\ TwoModes'   /\ Others
  \/ part = "gfx"   /\ GfxNext   /\ SameDisplay  /\ NoReset' /\ Others
  \/ part = "display" /\ GfxNext /\ OneTask'     /\ NoReset' /\ Others
  \/ part = "reset" /\ GfxNext   /\ OneTask'     /\ ResetInSecond /\ Others
  \/ part = "osc"   /\ OscNext   /\ Others
  \/ part = "aud"   /\ AudNext   /\ Others
  \/ part = "adpcm" /\ AdpcmNext /\ Others
  \/ part = "pad"   /\ ContNext  /\ MotorAway' /\ Others
  \/ part = "rumble" /\ ContNext /\ MotorCalls /\ Others
  \/ part = "pak"   /\ PakNext   /\ Others
  \/ part = "gb"    /\ GbNext    /\ Others

(* The fairness of each part, while it is the one that runs.                 *)
PiFair ==
  /\ WF_cacheVars(Pi /\ Manager)
  /\ WF_cacheVars(Pi /\ InRomInit(AudQueue) /\ UNCHANGED cache)
  /\ \A t \in Threads : SF_cacheVars(Pi /\ InCall(t) /\ UNCHANGED cache)
OscFair ==
  /\ WF_oscVars(part = "osc" /\ OscHandler)
  /\ WF_oscVars(part = "osc" /\ \E y \in BOOLEAN : RspBreak(y))
  /\ WF_oscVars(part = "osc" /\ OscRetrace)
ContFair ==
  /\ WF_contVars(Cont /\ SiStep /\ UNCHANGED contLeft)
  /\ WF_contVars(Cont /\ ContRetraceMesg /\ UNCHANGED contLeft)
  /\ SF_contVars(Cont /\ (\E a \in ContApps : AppSteps(a)) /\ UNCHANGED contLeft)
DevSpec == DevInit /\ [][DevNext]_devVars /\ PiFair /\ OscFair /\ ContFair

-----------------------------------------------------------------------------
(* Cartridge reads and samples: three buffers with their six request blocks, *)
(* one thread that reads the cartridge and uses the SRAM.                    *)
CONSTANTS b1, b2, b3, rd, aud
Blk == [n \in 0 .. 5 |-> n]
AllBlocks == 0 .. 5 \cup {rd}
FreeList == <<b1, b2, b3>>
Slots == [q \in {aud, rd} |-> IF q = aud THEN 6 ELSE 1]

(* libultra's scheduler: two tasks for one buffer, one for the other.        *)
GfxTask(name, buf, last) == [name |-> name, buf |-> buf, last |-> last, parallel |-> FALSE]
OscTasksOfFrames == <<GfxTask("g1", 0, FALSE), GfxTask("g2", 0, TRUE), GfxTask("g3", 1, TRUE)>>
OscTypes == {[g1 |-> "xbus", g2 |-> y, g3 |-> "dram"] : y \in {"dram"}}

(* Sounds of three or four frames of four samples; the turns that are counted*)
(* are not shorter than a pull.                                              *)
Loop(a, b, c) == [frames |-> 4, start |-> a, end |-> b, count |-> c]
McSounds ==
  {[frames |-> n, start |-> 0, end |-> 0, count |-> 0] : n \in 3 .. 4}
  \cup {Loop(l[1], l[2], -1) : l \in {<<0, 16>>, <<3, 9>>, <<6, 16>>}}
  \cup {Loop(l[1], l[2], l[3]) : l \in {<<3, 13, 2>>, <<5, 16, 1>>}}

(* Two voices for four channels and three updates: one player that steals,   *)
(* one that comes back before half a block is over.                          *)
VoicePriority == <<1, 2, 1, 1>>
On(c, ls) == {c} \X ls
Thief ==
  [period |-> 276,
   calls |-> <<On("alloc", {1}), On("alloc", {2}), On("start", {1, 2}), On("alloc", {3}),
               On("vol", {2}) \cup On("start", {3}), On("alloc", {4}) \cup On("release", {2, 3}),
               On("start", {3}) \cup On("startalt", {3})>>]
Hasty ==
  [period |-> 69,
   calls |-> <<On("alloc", {1}), On("start", {1}), On("pan", {1}), On("vol", {1}) \cup On("stop", {1}),
               On("fxmix", {1}) \cup On("pitch", {1})>>]
Players == {Thief, Hasty}

ContProfiles == {[freq |-> 256, frame |-> 1]}
CallsOf == <<{"lock", "query", "mode", "check"}, {"getex", "force", "start", "park"}>>

(* A pak of two banks whose first two ID copies are bad, and one of which    *)
(* all four are.                                                             *)
GoodId(s, b) == [sum |-> TRUE, serial |-> s, odd |-> TRUE, banks |-> b, tag |-> 0]
BadId(s) == [sum |-> FALSE, serial |-> s, odd |-> TRUE, banks |-> 5, tag |-> 0]
Pak(s, b, alias, id) ==
  [name |-> s, sel |-> 0, banks |-> b, alias |-> alias,
   zero |-> [k \in 0 .. b - 1 |-> [head |-> 7, rest |-> FALSE]], id |-> id,
   ino |-> [c \in 1 .. 2 |-> [k \in 0 .. b - 1 |-> [j \in 1 .. 2 |-> <<s, 0>>]]]]
McPaks == <<Pak("A", 2, TRUE, <<BadId("A"), BadId("A"), GoodId("A", 2), GoodId("A", 2)>>),
            Pak("B", 1, FALSE, [i \in 1 .. 4 |-> BadId("B")])>>

(* Each kind of fault at the exchanges of a call, and two in a row.          *)
Ok(n) == [i \in 1 .. n |-> "ok"]
Hits == {<<x>> : x \in {"garbled", "echo", "absent", "new"}}
PakSchedules ==
  {<<>>} \cup {Ok(p) \o f : p \in 0 .. 5 \cup {7, 12, 18}, f \in Hits} \cup {Ok(p) \o <<x, "garbled">> : p \in {1, 3}, x \in {"echo", "garbled"}}
GbFaults == {<<>>} \cup {Ok(p) \o f : p \in {0, 2, 5, 14, 24, 27}, f \in Hits}

(* Transfer Paks with a cartridge of each kind, two with an address line     *)
(* stuck, and a pak that is none; a range over a bank boundary, and one of   *)
(* the RAM that starts and ends inside a block.                              *)
GbPort(t, big, s) == [transfer |-> t, genuine |-> TRUE, big |-> big, stuck |-> s]
GbPorts == {GbPort(TRUE, FALSE, <<>>), GbPort(TRUE, TRUE, <<>>), GbPort(FALSE, TRUE, <<>>),
            GbPort(TRUE, FALSE, <<8, 1>>), GbPort(TRUE, TRUE, <<13, 0>>)}
McRanges == {[from |-> 16352, size |-> 70], [from |-> 40965, size |-> 40]}
===============================================================================
