---------------------------------- MODULE PakFs ----------------------------------
(***************************************************************************)
(* The Controller Pak layer of contpfs.c over the block exchanges: the     *)
(* identifier with its four copies, its recovery and repair, and the inode *)
(* pages with their mirror and one-entry cache.  Faults meet the exchanges *)
(* inside a call; between calls the user changes the pak.                  *)
(*                                                                         *)
(* Data is abstract.  An inode page is its blocks, each the version it was *)
(* written with: the checksum holds exactly when they agree.  A block 0 is *)
(* its first byte and whether the rest is inverted.                        *)
(***************************************************************************)
EXTENDS Integers, Sequences

CONSTANTS
  Paks,       (* the paks at hand, as devices, the first in the port       *)
  MaxBanks,   (* PFS_MAX_BANKS                                             *)
  Schedules,  (* what may meet the exchanges of a call                        *)
  MaxFaulty,  (* the bound on calls something else than "ok" meets         *)
  Tags        (* the random tags of repaired identifiers                   *)

VARIABLES
  world,    (* the world of PakBus, and                                    *)
            (*   h      the handle [id, banks, active]                     *)
            (*   id     the identifier at hand (temp of the callers)       *)
            (*   count  the banks counted, or the copy found               *)
            (*   marker what a bank was marked with                         *)
            (*   inode  the page handed out                                *)
  drawer,   (* the paks that are not in the port                           *)
  pakCall,  (* the call made last                                          *)
  trusted,  (* the handle has been checked, and nothing has failed since   *)
  faulty    (* the calls so far that met a fault                           *)

pakVars == <<world, drawer, pakCall, trusted, faulty>>

InodeBlocks == <<1, 2>>     (* of an inode page, for 8                     *)
Copies == <<1, 2, 3, 4>>    (* of the identifier                           *)
Garbage == <<"junk", 0>>
JunkId == [sum |-> FALSE, serial |-> "junk", odd |-> FALSE, banks |-> 0, tag |-> 0]
DeadBlock == [head |-> -1, rest |-> FALSE]

-----------------------------------------------------------------------------
(* The pak: [name, sel, banks, alias, zero, id, ino].  A bank it has not is *)
(* one it has, counted around, or answers with nothing.                    *)
BankOf(d) == IF d.alias THEN d.sel % d.banks ELSE IF d.sel < d.banks THEN d.sel ELSE -1

PakRead(d, a) ==
  CASE a[1] = "zero"  -> IF BankOf(d) = -1 THEN DeadBlock ELSE d.zero[BankOf(d)]
    [] a[1] = "id"    -> IF BankOf(d) = 0 THEN d.id[a[2]] ELSE JunkId
    [] a[1] = "inode" -> IF BankOf(d) = 0 THEN d.ino[a[2]][a[3]][a[4]] ELSE Garbage
    [] OTHER          -> Garbage
PakWrite(d, a, data) ==
  CASE a[1] = "detect" -> [d EXCEPT !.sel = data]
    [] a[1] = "zero" /\ BankOf(d) # -1 -> [d EXCEPT !.zero[BankOf(d)] = data]
    [] a[1] = "id" /\ BankOf(d) = 0 -> [d EXCEPT !.id[a[2]] = data]
    [] a[1] = "inode" /\ BankOf(d) = 0 -> [d EXCEPT !.ino[a[2]][a[3]][a[4]] = data]
    [] OTHER -> d
PakReset(d) == [d EXCEPT !.sel = 0]
LabelArea(a) == a[1] = "id"

PakAsked(d, a) == d

LOCAL INSTANCE PakBus WITH DevRead <- PakRead, DevAsked <- PakAsked, DevWrite <- PakWrite, DevReset <- PakReset, Protected <- LabelArea

-----------------------------------------------------------------------------
(* __osPfsSelectBank and SET_ACTIVEBANK_TO_ZERO.                           *)
Selected(w, bank) == IF w.ret = "ok" THEN [w EXCEPT !.h.active = bank] ELSE w
SelectBank(w, bank) == Selected(Write(w, <<"detect">>, bank), bank)
ToBankZero(w) == IF w.ret = "ok" /\ w.h.active # 0 THEN SelectBank(w, 0) ELSE w

HeldId(w) == IF w.ret = "ok" THEN [w EXCEPT !.id = w.buf] ELSE w
ReadId(w, i) == HeldId(Read(w, <<"id", i>>))
WriteId(w, i) == IF w.ret = "ok" THEN RamWrite(w, <<"id", i>>, w.id, TRUE) ELSE w
WriteCopies(w, sound) == FoldLeft(LAMBDA x, i : IF i = sound THEN x ELSE WriteId(x, i), w, Copies)

(* One round of __osRepairPackId's count: the marker is written to bank j  *)
(* and read back, and bank 0 must still hold its own.                      *)
Marked(w, j) == IF w.ret = "ok" THEN [w EXCEPT !.marker = [head |-> j, rest |-> ~w.buf.rest]] ELSE w
WriteMarker(w) == IF w.ret = "ok" THEN RamWrite(w, <<"zero">>, w.marker, FALSE) ELSE w
MarkBank(w, j) == Read(WriteMarker(Marked(Read(SelectBank(w, j), <<"zero">>), j)), <<"zero">>)
Counted(w) == [w EXCEPT !.count = @ + 1]
OwnMarker(w) == IF w.ret = "ok" /\ w.buf.head = 0 THEN Counted(w) ELSE w
CountBank(w, j) ==
  CASE w.ret # "ok" \/ w.buf # w.marker -> w
    [] w.ret = "ok" /\ w.buf = w.marker /\ j = 0 -> Counted(w)
    [] OTHER -> OwnMarker(Read(SelectBank(w, 0), <<"zero">>))
ProbeBank(w, j) == IF w.ret # "ok" \/ w.count # j THEN w ELSE CountBank(MarkBank(w, j), j)
CountBanks(w) ==
  FoldLeft(LAMBDA x, j : ProbeBank(x, j), [w EXCEPT !.count = 0], [i \in 1 .. MaxBanks |-> i - 1])

NewId(w, tag) ==
  IF w.ret # "ok" THEN w
  ELSE [w EXCEPT !.id = [sum |-> TRUE, serial |-> @.serial, odd |-> w.count > 0, banks |-> w.count, tag |-> tag]]
Verified(w) == IF w.ret = "ok" /\ w.buf # w.id THEN Return(w, "device") ELSE w
RepairPackId(w, tag) ==
  Verified(Read(WriteCopies(NewId(ToBankZero(CountBanks(ToBankZero(w))), tag), 0), <<"id", 1>>))

(* __osCheckPackId: the first copy but one that is sound heals the others. *)
Found(w, i) == IF w.ret = "ok" /\ w.id.sum THEN [w EXCEPT !.count = i] ELSE w
FindId(w, i) == IF w.ret # "ok" \/ w.count # 0 THEN w ELSE Found(ReadId(w, i), i)
Spread(w) ==
  CASE w.ret # "ok" -> w
    [] w.ret = "ok" /\ w.count = 0 -> Return(w, "fatal")
    [] OTHER -> WriteCopies(w, w.count)
CheckPackId(w) ==
  Spread(FoldLeft(LAMBDA x, i : FindId(x, i), [ToBankZero(w) EXCEPT !.count = 0], Tail(Copies)))

RepairIfNone(w, tag) == IF w.ret = "fatal" THEN RepairPackId(Return(w, "ok"), tag) ELSE w
Recovered(w, tag) == IF w.ret = "ok" /\ ~w.id.sum THEN RepairIfNone(CheckPackId(w), tag) ELSE w
Repaired(w, tag) == IF w.ret = "ok" /\ ~w.id.odd THEN RepairPackId(w, tag) ELSE w
Mounted(w) ==
  CASE w.ret # "ok" -> w
    [] w.ret = "ok" /\ ~w.id.odd -> Return(w, "device")
    [] OTHER -> RamRead([w EXCEPT !.h.id = w.id, !.h.banks = w.id.banks], <<"label">>)
GetId(w, tag) == Mounted(Repaired(Recovered(ReadId(ToBankZero(w), 1), tag), tag))

(* A new pack is forgiven once at the bank and once at the read.           *)
BankAgain(w) == IF w.ret = "newpack" THEN SelectBank(Return(w, "ok"), 0) ELSE w
IdAgain(w) == IF w.ret = "newpack" THEN ReadId(Return(w, "ok"), 1) ELSE w
ReadIdTwice(w) == IF w.ret = "ok" THEN IdAgain(ReadId(w, 1)) ELSE w
SameId(w) == IF w.ret = "ok" /\ w.id # w.h.id THEN Return(w, "newpack") ELSE w
CheckId(w) == SameId(ReadIdTwice(BankAgain(ToBankZero(w))))

-----------------------------------------------------------------------------
(* __osPfsRWInode.                                                         *)
Whole(inode) == \A j \in DOMAIN inode : inode[j] = inode[1] /\ inode[j] # Garbage
Cached(w, bank) == [w EXCEPT !.cache = <<bank, w.inode>>, !.ret = "ok"]

(* The result of a primary's write is overwritten by its mirror's.         *)
WriteBlock(w, bank, j, v) ==
  IF w.ret # "ok" THEN w
  ELSE RamWrite(RamWrite(w, <<"inode", 1, bank, j>>, v, FALSE), <<"inode", 2, bank, j>>, v, FALSE)
Written(w, bank, v) ==
  IF w.ret = "ok" THEN Cached([w EXCEPT !.inode = [j \in DOMAIN InodeBlocks |-> v]], bank) ELSE w
WriteInode(w, bank, v) ==
  Written(FoldLeft(LAMBDA x, j : WriteBlock(x, bank, j, v), ToBankZero(w), InodeBlocks), bank, v)

KeepBlock(w, j) == IF w.ret = "ok" THEN [w EXCEPT !.inode[j] = w.buf] ELSE w
Primary(w, bank) == FoldLeft(LAMBDA x, j : KeepBlock(Read(x, <<"inode", 1, bank, j>>), j), w, InodeBlocks)

(* The mirror's reads and the writes that heal the primary may fail.       *)
Mirror(w, bank) == FoldLeft(LAMBDA x, j : KeepBlock(RamRead(x, <<"inode", 2, bank, j>>), j), w, InodeBlocks)
Heal(w, bank) == FoldLeft(LAMBDA x, j : RamWrite(x, <<"inode", 1, bank, j>>, x.inode[j], FALSE), w, InodeBlocks)
(* Mutant: the mirror is taken at its word.                                *)
FromMirrorUnchecked(w, bank) == Cached(Heal(Mirror(w, bank), bank), bank)

HealWhole(w, bank) == IF Whole(w.inode) THEN Cached(Heal(w, bank), bank) ELSE Return(w, "inconsistent")
FromMirror(w, bank) == HealWhole(Mirror(w, bank), bank)

FromPrimary(w, bank) ==
  CASE w.ret # "ok" -> w
    [] w.ret = "ok" /\ Whole(w.inode) -> Cached(w, bank)
    [] OTHER -> FromMirror(w, bank)
ReadInode(w, bank) ==
  IF w.cache # <<>> /\ w.cache[1] = bank THEN [w EXCEPT !.inode = w.cache[2]]
  ELSE FromPrimary(Primary(ToBankZero(w), bank), bank)

-----------------------------------------------------------------------------
PakInit ==
  /\ world = [dev |-> Paks[1], pulled |-> TRUE, ev |-> <<>>, ret |-> "ok", again |-> FALSE, buf |-> Garbage,
              cache |-> <<>>, h |-> [id |-> JunkId, banks |-> 0, active |-> 0], id |-> JunkId,
              count |-> 0, marker |-> DeadBlock, inode |-> <<Garbage, Garbage>>]
  /\ drawer = Tail(Paks) /\ pakCall = "none" /\ trusted = FALSE /\ faulty = 0

(* What is left of a call: what the next one may still look at.            *)
Rest(w) == [w EXCEPT !.ev = <<>>, !.buf = Garbage, !.id = JunkId, !.count = 0, !.marker = DeadBlock]
Made(name, w) ==
  /\ world' = Rest(w) /\ trusted' = (w.ret = "ok")
  /\ pakCall' = name /\ UNCHANGED drawer

(* A call that meets the schedule ev.                                      *)
With(ev) == [world EXCEPT !.ev = ev, !.ret = "ok"]
Met == IF faulty < MaxFaulty THEN Schedules ELSE {<<>>}

CallGetId(ev) == \E tag \in Tags : Made("getId", GetId(With(ev), tag))
CallCheckId(ev) == world.h.banks > 0 /\ Made("checkId", CheckId(With(ev)))

(* The callers check the handle before they use the inodes.                *)
CallReadInode(ev) == \E bank \in 0 .. world.h.banks - 1 :
  trusted /\ Made("read", ReadInode(With(ev), bank))
CallWriteInode(ev) == \E bank \in 0 .. world.h.banks - 1, v \in {0, 1} :
  trusted /\ Made("write", WriteInode(With(ev), bank, <<world.dev.name, v>>))

Swap ==
  /\ world' = [world EXCEPT !.dev = PakReset(Head(drawer)), !.pulled = TRUE]
  /\ drawer' = Append(Tail(drawer), world.dev)
  /\ pakCall' = "swap" /\ trusted' = FALSE /\ UNCHANGED faulty

PakNext ==
  \/ \E ev \in Met :
       /\ faulty' = faulty + IF ev = <<>> THEN 0 ELSE 1
       /\ CallGetId(ev) \/ CallCheckId(ev) \/ CallReadInode(ev) \/ CallWriteInode(ev)
  \/ Swap
PakSpec == PakInit /\ [][PakNext]_pakVars

-----------------------------------------------------------------------------
(* A mount or a check that succeeds has seen the pak in the port: the      *)
(* handle holds its identifier, with the banks the pak really has.         *)
HandleMatches ==
  pakCall \in {"getId", "checkId"} /\ world.ret = "ok" =>
    world.h.id = world.dev.id[1] /\ world.h.banks = world.dev.banks

(* An inode handed out after a check is whole and the pak's own, and no    *)
(* older than what the pak holds: neither a write cut short nor the cache  *)
(* nor a silent failure of one copy shows through.                         *)
HeldWhole(bank) == {v \in {<<world.dev.name, n>> : n \in {0, 1}} :
                      \E copy \in {1, 2} : \A j \in DOMAIN InodeBlocks : world.dev.ino[copy][bank][j] = v}
InodeTrue ==
  pakCall = "read" /\ world.ret = "ok" =>
    /\ Whole(world.inode) /\ world.inode[1][1] = world.dev.name
    /\ LET held == HeldWhole(world.cache[1]) IN held # {} => world.inode[1] \in held

(* The pak file system: after a success the handle and the inode page are   *)
(* those of the pak that is in the port.                                    *)
PakInv == HandleMatches /\ InodeTrue
================================================================================
