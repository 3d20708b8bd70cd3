--------------------------------- MODULE PakBus ---------------------------------
(***************************************************************************)
(* The block exchanges with a pak: __osContRamRead, __osContRamWrite and   *)
(* __osPfsGetStatus, with their retries.  A call is a function of the      *)
(* world, a record of at least                                             *)
(*   dev     the device in the port                                        *)
(*   pulled  the pak has been out since its status was last asked for      *)
(*   ev      what meets the exchanges to come, "ok" beyond the end:        *)
(*             garbled  the answer fails its CRC                           *)
(*             echo     so does it, but a write has been taken             *)
(*             absent   nothing answers, the pak is out                    *)
(*             new      the pak has been out and is back                   *)
(*   ret     what the last call returned, "ok" for 0                       *)
(*   again   the exchange is to be tried once more                         *)
(*   buf     the block last read                                           *)
(*   cache   the inode cache, emptied by a status request                  *)
(* The device and the bus are external: until its status is asked for, a   *)
(* pak that has been out fails the CRC of every exchange.                  *)
(***************************************************************************)
EXTENDS Naturals, Sequences, SequencesExt

CONSTANTS
  DevRead(_, _),      (* the block at an address                           *)
  DevAsked(_, _),     (* the device after a block is read                  *)
  DevWrite(_, _, _),  (* the device after a block is written               *)
  DevReset(_),        (* the device after it has been out                  *)
  Protected(_)        (* an address of the label area other than 0         *)

Event(w) == IF w.ev = <<>> THEN "ok" ELSE Head(w.ev)
Outside(w) == Event(w) \in {"absent", "new"}

Exchanged(w) ==
  [w EXCEPT !.ev = IF @ = <<>> THEN @ ELSE Tail(@),
            !.pulled = @ \/ Outside(w),
            !.dev = IF Outside(w) THEN DevReset(@) ELSE @]
Answer(w) ==
  IF Event(w) = "absent" THEN "none"
  ELSE IF Event(w) # "ok" \/ w.pulled THEN "bad" ELSE "good"

Return(w, code) == [w EXCEPT !.ret = code, !.again = FALSE]

-----------------------------------------------------------------------------
GetStatus(w) ==
  LET x == [Exchanged(w) EXCEPT !.cache = <<>>]
  IN  CASE Event(w) = "absent" -> Return(x, "nopack")
        [] Event(w) # "absent" /\ x.pulled -> Return([x EXCEPT !.pulled = FALSE], "newpack")
        [] Event(w) \in {"garbled", "echo"} /\ ~x.pulled -> Return(x, "contrfail")
        [] OTHER -> Return(x, "ok")

(* A bad answer of a pak whose status is good is a soft failure.           *)
Failing(w) ==
  LET s == GetStatus(w) IN IF s.ret = "ok" THEN [s EXCEPT !.ret = "contrfail", !.again = TRUE] ELSE s

TryRead(w, a) ==
  LET x == Exchanged(w)
  IN  CASE Answer(w) = "none" -> Return(x, "nopack")
        [] Answer(w) = "bad"  -> Failing(x)
        [] Answer(w) = "good" -> Return([x EXCEPT !.buf = DevRead(x.dev, a), !.dev = DevAsked(@, a)], "ok")

TryWrite(w, a, data) ==
  LET x == Exchanged(w)
      taken == [x EXCEPT !.dev = DevWrite(@, a, data)]
  IN  CASE Answer(w) = "none" -> Return(x, "nopack")
        [] Answer(w) = "bad"  -> Failing(IF Event(w) = "echo" /\ ~w.pulled THEN taken ELSE x)
        [] Answer(w) = "good" -> Return(taken, "ok")

(* retry counts from 2 down past 0: four attempts.                         *)
Tried(w) == [w EXCEPT !.again = FALSE]
ReadAgain(w, a) == IF w.again THEN TryRead(w, a) ELSE w
RamRead(w, a) == Tried(ReadAgain(ReadAgain(ReadAgain(TryRead(w, a), a), a), a))

WriteAgain(w, a, data) == IF w.again THEN TryWrite(w, a, data) ELSE w
RamWrite(w, a, data, force) ==
  IF Protected(a) /\ ~force THEN Return(w, "ok")
  ELSE Tried(WriteAgain(WriteAgain(WriteAgain(TryWrite(w, a, data), a, data), a, data), a, data))

(* ERRCK: calls compose, and each does nothing once one before it failed.  *)
Asked(w) == IF w.ret = "ok" THEN GetStatus(w) ELSE w
Read(w, a) == IF w.ret = "ok" THEN RamRead(w, a) ELSE w
Write(w, a, data) == IF w.ret = "ok" THEN RamWrite(w, a, data, FALSE) ELSE w
================================================================================
