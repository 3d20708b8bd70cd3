---------------------------------- MODULE GbPak ----------------------------------
(***************************************************************************)
(* The Transfer Pak: the gbpak*.c commands over the block exchanges, and   *)
(* the byte-addressed reads and writes nusys makes of them.  Faults meet   *)
(* the exchanges inside a call.                                            *)
(*                                                                         *)
(* A byte of the cartridge is its address, negated once it is written.  An *)
(* unpowered cartridge, or its RAM while that is disabled, reads as Open.  *)
(* The pak and the cartridge are external.                                 *)
(***************************************************************************)
EXTENDS Integers, Sequences

CONSTANTS
  GbDevices,    (* what may be in the port: [transfer, genuine, big, stuck]*)
  GbRanges,     (* the ranges read and written: [from, size]               *)
  GbSchedules,  (* what may meet the exchanges of a call                   *)
  GbMaxFaulty   (* the bound on calls something else than "ok" meets       *)

(* A range shorter than a block that runs over its end is copied past the  *)
(* 32-byte buffer by the code, so none is made.                            *)
ASSUME GbAssumption ==
  \A r \in GbRanges : r.size >= 32 \/ (r.from % 32) + r.size <= 32

VARIABLES
  gb,       (* the world of PakBus, and                                    *)
            (*   h       the handle [banks, version, dir]                  *)
            (*   status  the status handed out                             *)
            (*   at, todo  where a transfer goes on, and the bytes left    *)
            (*   out     the bytes of the transfer, got those delivered    *)
            (*   slot    the blocks of the connector check                 *)
            (*   stale   an unread block holds GB_POWER_ON                 *)
  gbCall,   (* the call made last: [op, from, size, ram]                   *)
  gbOpen,   (* the pak has been opened and identified, and nothing failed  *)
  gbFaulty  (* the calls so far that met a fault                           *)

gbVars == <<gb, gbCall, gbOpen, gbFaulty>>

Power == 1024   (* CONT_BLOCK_GB_POWER, _BANK and _STATUS                  *)
Bank == 1280
Status == 1408
Window == 1536  (* the block of address 0xC000                             *)
PowerOn == 132
PowerOff == 254
Open == -99999
SRam == 40960 .. 49151  (* 0xA000 to 0xBFFF                                *)

-----------------------------------------------------------------------------
(* The pak.  Line stuck[1] of the cartridge's address reads as stuck[2].   *)
Line(d, g) ==
  LET bit == 2 ^ (d.stuck[1] - 5)
  IN  CASE d.stuck = <<>> -> g
        [] d.stuck # <<>> /\ (g \div bit) % 2 = d.stuck[2] -> g
        [] OTHER -> IF d.stuck[2] = 1 THEN g + bit ELSE g - bit
GbBlock(d, a) == Line(d, d.bank * 512 + a - Window)
ByteAt(d, x) ==
  IF ~d.on \/ (x \in SRam /\ ~d.ramOn) THEN Open ELSE IF x \in d.ram THEN -x ELSE x
StatusOf(d) ==
  {"on"} \cup (IF d.on THEN {"power", "rstb"} ELSE {}) \cup (IF d.pull THEN {"pull"} ELSE {})

GbHolds(d, a) ==
  LET first == 32 * GbBlock(d, a)
  IN  CASE a = Power -> IF ~d.transfer THEN d.last ELSE IF d.power THEN PowerOn ELSE 0
        [] a = Status -> StatusOf(d)
        [] OTHER -> [k \in 1 .. 32 |-> ByteAt(d, first + k - 1)]
GbAsked(d, a) == IF a = Status THEN [d EXCEPT !.pull = FALSE] ELSE d
Dark(d) == [d EXCEPT !.power = FALSE, !.on = FALSE, !.ramOn = FALSE, !.bank = 0]
GbStored(d, a, data) ==
  LET first == 32 * GbBlock(d, a)
  IN  CASE a = Power /\ d.transfer -> IF data = PowerOn THEN [d EXCEPT !.power = TRUE] ELSE Dark(d)
        [] a = Power /\ ~d.transfer -> [d EXCEPT !.last = data]
        [] a = Bank /\ d.power -> [d EXCEPT !.bank = data]
        [] a = Status /\ d.power -> [d EXCEPT !.on = data, !.ramOn = @ /\ data]
        [] a >= Window /\ d.on /\ first < 8192 -> [d EXCEPT !.ramOn = (data[32] = 10)]
        [] a >= Window /\ d.ramOn /\ first \in SRam ->
             [d EXCEPT !.ram = (@ \ (first .. first + 31)) \cup {first + k - 1 : k \in {j \in 1 .. 32 : data[j] < 0}}]
        [] OTHER -> d
GbOut(d) == [Dark(d) EXCEPT !.pull = TRUE, !.wasOut = TRUE]
GbLabelArea(a) == a \in 1 .. 6

LOCAL INSTANCE PakBus WITH DevRead <- GbHolds, DevAsked <- GbAsked, DevWrite <- GbStored, DevReset <- GbOut,
                     Protected <- GbLabelArea

-----------------------------------------------------------------------------
(* A case that goes on in spite of an answer forgets it with Return.        *)
Hard(w) == IF w.ret = "newpack" THEN Return(w, "contrfail") ELSE w
HardRead(w, a) == IF w.ret = "ok" THEN Hard(RamRead(w, a)) ELSE w
HardWrite(w, a, data) == IF w.ret = "ok" THEN Hard(RamWrite(w, a, data, FALSE)) ELSE w

(* osGbpakInit: off, and the pak must not merely echo that; then on.        *)
OffAgain(w) == IF w.ret = "newpack" THEN RamWrite(w, Power, PowerOff, FALSE) ELSE w
SwitchOff(w) == HardRead(OffAgain(Write(w, Power, PowerOff)), Power)
SwitchOn(w) ==
  CASE w.ret # "ok" -> w
    [] w.ret = "ok" /\ w.buf = PowerOff -> Return(w, "device")
    [] OTHER -> HardRead(HardWrite(w, Power, PowerOn), Power)
Forget(w) == IF w.ret = "ok" THEN [w EXCEPT !.h = [banks |-> 255, version |-> 255, dir |-> 255]] ELSE w
Greet(w) ==
  CASE w.ret # "ok" -> w
    [] w.ret = "ok" /\ w.buf # PowerOn -> Return(w, "device")
    [] OTHER -> Forget(GetStatus(w))
GbInit(w) == Greet(SwitchOn(SwitchOff(w)))

(* A write that finds a new pak initialises it and is made again.           *)
WriteFresh(w, a, data) ==
  IF w.ret = "newpack" THEN HardWrite(GbInit(Return(w, "ok")), a, data) ELSE w
WriteInited(w, a, data) == IF w.ret = "ok" THEN WriteFresh(Write(w, a, data), a, data) ELSE w

BankSet(w, bank) == IF w.ret = "ok" THEN [w EXCEPT !.h.banks = bank] ELSE w
SetBank(w, bank) ==
  CASE w.ret # "ok" -> w
    [] w.ret = "ok" /\ bank > 2 -> Return(w, "invalid")
    [] OTHER -> BankSet(WriteInited(w, Bank, bank), bank)
GbPower(w, on) == WriteInited(w, Status, on)

(* osGbpakGetStatus; the block of a failed read holds what the stack held.  *)
LosesPower(r) == r.ret = "newpack" \/ (IF r.ret = "ok" THEN r.buf # PowerOn ELSE ~r.stale)
Repowered(w) == IF LosesPower(w) THEN GbInit(Return(w, "ok")) ELSE Return(w, "ok")
Judged(w) ==
  CASE w.ret # "ok" -> w
    [] w.ret = "ok" /\ "on" \notin w.buf -> Return([w EXCEPT !.status = w.buf], "nocart")
    [] w.ret = "ok" /\ {"on", "pull"} \subseteq w.buf -> Return([w EXCEPT !.status = w.buf], "newcart")
    [] OTHER -> [w EXCEPT !.status = w.buf]
GbGetStatus(w) ==
  IF w.ret = "ok" THEN Judged(Asked(HardRead(Repowered(RamRead(w, Power)), Status))) ELSE w
HardCart(w) == IF w.ret = "newcart" THEN Return(w, "contrfail") ELSE w

(* The start of osGbpakReadId and osGbpakCheckConnector.                    *)
AskTwice(w) == IF w.ret = "newcart" THEN GbGetStatus(Return(w, "ok")) ELSE w
PowerUp(w) == IF w.ret = "ok" /\ "power" \notin w.status THEN GbPower(w, TRUE) ELSE w
Alive(w) == PowerUp(HardCart(AskTwice(GbGetStatus(w))))

-----------------------------------------------------------------------------
(* osGbpakReadWrite, of the blocks 1 .. n.  Past the end of the window the  *)
(* next bank is selected and the window starts over.                        *)
BlockIn(address, i) == ((address % 16384) \div 32) + i - 1
(* Mutant: the window does not start over past its end.                    *)
WindowRunsOn(address, i) == Window + BlockIn(address, i)

WindowBlock(address, i) == Window + (BlockIn(address, i) % 512)
(* A new pak found by the first selection of a bank is returned as it is,   *)
(* by anything later as a failure.                                          *)
NeedsBank(w, address, i) ==
  IF i = 1 THEN w.h.banks # address \div 16384 ELSE BlockIn(address, i) % 512 = 0
BankAt(address, i) == (address \div 16384) + IF i = 1 THEN 0 ELSE 1
BankChosen(w, i) == IF i = 1 THEN w ELSE Hard(w)
BankFor(w, address, i) ==
  IF w.ret = "ok" /\ NeedsBank(w, address, i) THEN BankChosen(SetBank(w, BankAt(address, i)), i) ELSE w
Got(w) == IF w.ret = "ok" THEN [w EXCEPT !.out = @ \o w.buf] ELSE w
OneRead(w, a) == Got(HardRead(w, a))
GbRead(w, address, n) ==
  IF w.ret # "ok" THEN w
  ELSE FoldLeft(LAMBDA x, i : OneRead(BankFor(x, address, i), WindowBlock(address, i)),
                [w EXCEPT !.out = <<>>], [i \in 1 .. n |-> i])
GbWrite(w, address, blocks) ==
  FoldLeft(LAMBDA x, i : HardWrite(BankFor(x, address, i), WindowBlock(address, i), blocks[i]),
           w, [i \in DOMAIN blocks |-> i])
Identified(w) ==
  CASE w.ret # "ok" -> w
    [] w.ret = "ok" /\ ("rstb" \notin w.status \/ ~w.dev.genuine \/ w.out[1] # 256) -> Return(w, "contrfail")
    [] OTHER -> [w EXCEPT !.h.version = IF w.dev.big THEN 2 ELSE 1, !.h.dir = IF w.dev.big THEN 3 ELSE 0]
GbReadId(w) == Identified(HardCart(GbGetStatus(GbRead(Alive(w), 256, 3))))

-----------------------------------------------------------------------------
(* osGbpakCheckConnector.  Fill reads a block of a slot not yet held.       *)
Filled(w, s, n) == IF w.ret = "ok" THEN [w EXCEPT !.slot[s][n] = w.out] ELSE w
Fill(w, s, address, n) ==
  IF w.ret # "ok" \/ w.slot[s][n] # <<>> THEN w ELSE Filled(GbRead(w, address + 32 * (n - 1), 1), s, n)
Empty == [n \in 1 .. 4 |-> <<>>]
Cleared(w) == [w EXCEPT !.slot = [s \in 1 .. 3 |-> Empty]]

(* Two addresses whose four blocks all read alike share a line.             *)
Differ(w, s, t, n) ==
  IF w.ret = "ok" /\ w.slot[s][n] # w.slot[t][n] THEN Return(w, "differ") ELSE w
Shared(w) ==
  CASE w.ret = "differ" -> Return(w, "ok")
    [] w.ret = "ok" -> Return(w, "contrfail")
    [] OTHER -> w
Compare(w, s, address, t, other) ==
  IF w.ret # "ok" THEN w
  ELSE Shared(FoldLeft(LAMBDA x, n : Differ(Fill(Fill(x, s, address, n), t, other, n), s, t, n), w, <<1, 2, 3, 4>>))

(* Step i looks at address 0x80 * 2^(i-1); slots 2 and 3 take turns, slot 1 *)
(* keeps address 0.                                                         *)
Probed(i) == IF i = 0 THEN 0 ELSE 64 * 2 ^ i
SlotOf(i) == IF i = 0 THEN 1 ELSE 2 + ((i - 1) % 2)
Against(w, i, j) == Compare(w, SlotOf(i), Probed(i), SlotOf(j), Probed(j))
Probe(w, i) ==
  FoldLeft(LAMBDA x, j : Against(x, i, j), [w EXCEPT !.slot[SlotOf(i)] = Empty], IF i = 1 THEN <<0>> ELSE <<i - 1, 0>>)
Larger(w) == w.h.dir >= 2 \/ w.h.version = 2
RamLines(w) == IF w.ret = "ok" /\ Larger(w) THEN Compare(Cleared(w), 2, 40960, 3, 8192) ELSE w
CheckConnector(w) ==
  HardCart(GbGetStatus(RamLines(FoldLeft(LAMBDA x, i : Probe(x, i), Cleared(Alive(w)), <<1, 2, 3, 4, 5, 6, 7, 8>>))))

-----------------------------------------------------------------------------
(* nuContGBPakFread and nuContGBPakFwrite.                                  *)
Enable(w, code) == GbWrite(w, 0, << [k \in 1 .. 32 |-> IF k = 32 THEN code ELSE 0] >>)
BlockStart(w) == w.at - (w.at % 32)
Slice(w) == IF w.todo < 32 THEN w.todo ELSE 32 - (w.at % 32)
Partial(w) == w.at % 32 # 0 \/ w.todo < 32
Whole_(w) == w.todo - (w.todo % 32)
Moved(w, n) == IF w.ret = "ok" THEN [w EXCEPT !.at = @ + n, !.todo = @ - n] ELSE w

Delivered(w, from, n) ==
  IF w.ret = "ok" THEN Moved([w EXCEPT !.got = @ \o SubSeq(w.out, from + 1, from + n)], n) ELSE w
ReadPiece(w) ==
  IF Partial(w) THEN Delivered(GbRead(w, BlockStart(w), 1), w.at % 32, Slice(w))
  ELSE Delivered(GbRead(w, w.at, w.todo \div 32), 0, Whole_(w))

(* The byte of the caller's that goes to address x is -x.                   *)
GbSpliced(w) ==
  [k \in 1 .. 32 |-> LET x == BlockStart(w) + k - 1 IN IF x \in w.at .. w.at + Slice(w) - 1 THEN -x ELSE w.out[k]]
WriteSpliced(w) == IF w.ret = "ok" THEN Moved(GbWrite(w, BlockStart(w), <<GbSpliced(w)>>), Slice(w)) ELSE w
Fresh_(w) == [j \in 1 .. (w.todo \div 32) |-> [k \in 1 .. 32 |-> -(w.at + 32 * (j - 1) + k - 1)]]
WritePiece(w) ==
  IF Partial(w) THEN WriteSpliced(GbRead(w, BlockStart(w), 1)) ELSE Moved(GbWrite(w, w.at, Fresh_(w)), Whole_(w))

(* A range is a head, aligned blocks and a tail: three pieces at most.      *)
Piece(w, write) ==
  CASE w.ret # "ok" \/ w.todo = 0 -> w
    [] w.ret = "ok" /\ w.todo # 0 /\ write -> WritePiece(w)
    [] OTHER -> ReadPiece(w)
Pieces(w, r, write) ==
  FoldLeft(LAMBDA x, i : Piece(x, write), [w EXCEPT !.at = r.from, !.todo = r.size, !.got = <<>>], <<1, 2, 3>>)
Ram(w, r, code) == IF r.from \in SRam THEN Enable(w, code) ELSE w
StillOn(w) == IF w.ret = "ok" /\ "power" \notin w.status THEN Return(w, "contrfail") ELSE w
Ranged(w, r, write) ==
  StillOn(GbGetStatus(Ram(Pieces(CheckConnector(Ram(w, r, 10)), r, write), r, 0)))

-----------------------------------------------------------------------------
Device(d) ==
  [transfer |-> d.transfer, genuine |-> d.genuine, big |-> d.big, stuck |-> d.stuck,
   power |-> FALSE, on |-> FALSE, ramOn |-> FALSE, bank |-> 0, pull |-> TRUE, last |-> 0, ram |-> {},
   wasOut |-> FALSE]
GbInitially ==
  /\ \E d \in GbDevices :
       gb = [dev |-> Device(d), pulled |-> TRUE, ev |-> <<>>, ret |-> "ok", again |-> FALSE, buf |-> 0, cache |-> <<>>,
             h |-> [banks |-> 255, version |-> 255, dir |-> 255], status |-> {}, at |-> 0, todo |-> 0,
             out |-> <<>>, got |-> <<>>, slot |-> <<>>, stale |-> FALSE]
  /\ gbCall = [op |-> "none", from |-> 0, size |-> 0, ram |-> {}]
  /\ gbOpen = FALSE /\ gbFaulty = 0

Begun(ev, stale) == [gb EXCEPT !.ev = ev, !.ret = "ok", !.stale = stale, !.dev.wasOut = FALSE]
Ended(w) == [w EXCEPT !.ev = <<>>, !.buf = 0, !.out = <<>>, !.slot = <<>>, !.stale = FALSE, !.at = 0, !.todo = 0]
GbMade(op, r, w) ==
  /\ \E x \in {w} : gb' = Ended(x)
  /\ gbCall' = [op |-> op, from |-> r.from, size |-> r.size, ram |-> gb.dev.ram]
NoRange == [from |-> 0, size |-> 0]

CallOpen(ev, stale) == GbMade("open", NoRange, GbInit(Begun(ev, stale))) /\ gbOpen' = FALSE
CallReadId(ev, stale) == GbMade("id", NoRange, GbReadId(Begun(ev, stale))) /\ gbOpen' = (gb'.ret = "ok")
CallCheck(ev, stale) ==
  gbOpen /\ GbMade("check", NoRange, CheckConnector(Begun(ev, stale))) /\ gbOpen' = (gb'.ret = "ok")
CallRange(ev, stale) == \E r \in GbRanges, write \in BOOLEAN :
  /\ gbOpen /\ (write => r.from \in SRam)
  /\ GbMade(IF write THEN "fwrite" ELSE "fread", r, Ranged(Begun(ev, stale), r, write))
  /\ gbOpen' = (gb'.ret = "ok")

GbMet == IF gbFaulty < GbMaxFaulty THEN (GbSchedules \X BOOLEAN) ELSE {<<<<>>, FALSE>>}
GbNext == \E f \in GbMet :
  /\ f[1] = <<>> => ~f[2]
  /\ gbFaulty' = gbFaulty + IF f[1] = <<>> THEN 0 ELSE 1
  /\ CallOpen(f[1], f[2]) \/ CallReadId(f[1], f[2]) \/ CallCheck(f[1], f[2]) \/ CallRange(f[1], f[2])
GbSpec == GbInitially /\ [][GbNext]_gbVars

-----------------------------------------------------------------------------
Succeeded(op) == gbCall.op = op /\ gb.ret = "ok"
Addresses == gbCall.from .. gbCall.from + gbCall.size - 1

(* The RAM is enabled before the connector is checked: a pak that was out  *)
(* in between is powered up again with its RAM disabled, unnoticed.        *)
LostRam == gbCall.from \in SRam /\ gb.dev.wasOut

(* A read that succeeds delivers the cartridge's bytes of the range.       *)
FreadTrue ==
  Succeeded("fread") /\ ~LostRam =>
    gb.got = [k \in 1 .. gbCall.size |->
                LET x == gbCall.from + k - 1 IN IF x \in gbCall.ram THEN -x ELSE x]

(* A write that succeeds has changed the range and not a byte beside it,   *)
(* and the RAM is protected again.                                         *)
FwriteTrue ==
  Succeeded("fwrite") /\ ~LostRam => gb.dev.ram = gbCall.ram \cup Addresses /\ ~gb.dev.ramOn

(* A pak that opens is a Transfer Pak; a connector that passes has no      *)
(* address line stuck.                                                     *)
PakKnown == Succeeded("open") => gb.dev.transfer
LinesWork == Succeeded("check") => gb.dev.stuck = <<>>

(* The Transfer Pak: what a call that succeeds has read, written or found   *)
(* is so of the pak and the cartridge in the port.                          *)
GbInv == FreadTrue /\ FwriteTrue /\ PakKnown /\ LinesWork
================================================================================
