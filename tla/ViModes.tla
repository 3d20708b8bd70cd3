-------------------------------- MODULE ViModes --------------------------------
(***************************************************************************)
(* The table of VI display modes (vitbl.c) as far as it decides what of a  *)
(* frame buffer is scanned out in each of the two fields.  A mode is low or*)
(* high resolution (L, H), anti-aliased or point sampled (A, P), normal or *)
(* interlaced-filtered (N, F), and of 16 or 32 bits; the entries of a group*)
(* differ in nothing else.  Positions in a frame buffer are in quarters of *)
(* a line, positions on the screen in half lines, as the registers have it.*)
(***************************************************************************)
EXTENDS Integers

Modes == {m \in [tv : {"NTSC", "PAL", "MPAL", "FPAL"}, res : {"L", "H"}, aa : {"A", "P"},
                 scan : {"N", "F"}, bits : {16, 32}] :
            ~(m.res = "H" /\ m.aa = "A" /\ m.bits = 32)}

(* The anti-alias mode of the control word, and its divot bit.             *)
AaMode(m) == IF m.aa = "P" THEN IF m.scan = "N" /\ m.bits = 32 THEN 3 ELSE 2
             ELSE IF m.res = "L" /\ m.scan = "N" /\ m.bits = 16 THEN 1 ELSE 0
Ctrl(m) == [aa |-> AaMode(m), divot |-> m.aa = "A", gamma |-> TRUE,
            gammaDither |-> TRUE, ditherFilter |-> FALSE]

(* Low resolution: one line of the buffer for each line of a field.  The   *)
(* interlaced modes start the fields a quarter and three quarters down it. *)
Low(m, f, bottom, height) ==
  LET serrate == m.scan = "F"
      top     == IF serrate /\ f = 0 THEN bottom - height - 2 ELSE bottom - height
  IN  [serrate |-> serrate, origin |-> 4, step |-> 4, top |-> top, end |-> top + height,
       offset |-> IF serrate THEN 1 + 2 * f ELSE 0]

(* Mutant: the second field starts at the line of the first.               *)
HighFromTop(m, f, bottom, height) ==
  LET top == IF f = 0 THEN bottom - height - 2 ELSE bottom - height
  IN  [serrate |-> TRUE, origin |-> 4, step |-> 8, top |-> top, end |-> top + height,
       offset |-> IF m.scan = "F" THEN 2 ELSE 0]

(* High resolution: always two fields, of every other line.                *)
High(m, f, bottom, height) ==
  LET top == IF f = 0 THEN bottom - height - 2 ELSE bottom - height
  IN  [serrate |-> TRUE, origin |-> 4 * (1 + f), step |-> 8, top |-> top, end |-> top + height,
       offset |-> IF m.scan = "F" THEN 2 ELSE 0]

NtscLow(m, f)  == Low(m, f, 511, 474)
NtscHigh(m, f) == High(m, f, 511, 474)
PalLow(m, f)   == Low(m, f, 569, 474)
PalHigh(m, f)  == High(m, f, 569, 474)
MpalLow(m, f)  == Low(m, f, 511, 474)
MpalHigh(m, f) == High(m, f, 511, 474)
FpalLow(m, f)  == Low(m, f, 617, 570)
FpalHigh(m, f) == High(m, f, 617, 570)

(* The registers of mode m for field f.                                    *)
FieldRegs(m, f) ==
  CASE m.tv = "NTSC" -> IF m.res = "L" THEN NtscLow(m, f) ELSE NtscHigh(m, f)
    [] m.tv = "PAL"  -> IF m.res = "L" THEN PalLow(m, f) ELSE PalHigh(m, f)
    [] m.tv = "MPAL" -> IF m.res = "L" THEN MpalLow(m, f) ELSE MpalHigh(m, f)
    [] m.tv = "FPAL" -> IF m.res = "L" THEN FpalLow(m, f) ELSE FpalHigh(m, f)

(* osViModeNtscLan1 and its like, the modes of __osViInit.                 *)
Lan1(tv) == [tv |-> tv, res |-> "L", aa |-> "A", scan |-> "N", bits |-> 16]

(* The lines of a frame buffer: those of the standard's picture.           *)
Lines(m) == IF m.res = "L" THEN IF m.tv = "FPAL" THEN 288 ELSE 240
            ELSE IF m.tv = "FPAL" THEN 576 ELSE 480
================================================================================
