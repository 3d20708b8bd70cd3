------------------------------- MODULE ViManager -------------------------------
(***************************************************************************)
(* The VI manager: the two contexts it flips (vi.c, viswapcontext.c), the  *)
(* calls that stage changes in the next one, the retrace that programs it  *)
(* and the notification of a client every so many retraces (vimgr.c).      *)
(*                                                                         *)
(* Every call masks interrupts for its whole length, so it is one action.  *)
(* The horizontal registers and the colour burst follow from the mode and  *)
(* are left out, as are the line-repeat and fade states, which nothing in  *)
(* the program sets, and the extra scan lines, which are always zero.      *)
(***************************************************************************)
EXTENDS ViModes

CONSTANTS
  ViTv,         (* osTvType                                                *)
  ViModeSet,    (* the modes the program selects                           *)
  ViBuffers,    (* its frame buffers                                       *)
  ViDivisors,   (* the retraceCounts of osViSetEvent                       *)
  ViFeatures,   (* the features of osViSetSpecialFeatures                  *)
  ViMaxCalls    (* the calls between two retraces, a bound of the model    *)

ASSUME ViAssumption ==
  /\ ViTv \subseteq {"NTSC", "PAL", "MPAL", "FPAL"}
  /\ ViModeSet \subseteq Modes
  /\ ViDivisors \subseteq Nat \ {0}
  /\ ViFeatures \subseteq {"GAMMA_ON", "GAMMA_OFF", "GAMMA_DITHER_ON", "GAMMA_DITHER_OFF", "DIVOT_ON",
                           "DIVOT_OFF", "DITHER_FILTER_ON", "DITHER_FILTER_OFF"}
  /\ ViMaxCalls \in Nat

VARIABLES
  viCtx,        (* vi[0] and vi[1]                                         *)
  viNext,       (* which of them __osViNext points to                      *)
  viRegs,       (* what the VI registers were last programmed with         *)
  viRetrace,    (* retrace, counting down                                  *)
  viPosted,     (* the last retrace posted the client's message            *)
  viCalls       (* the calls since the last retrace                        *)

viVars == <<viCtx, viNext, viRegs, viRetrace, viPosted, viCalls>>

Boot == "K0BASE"
Context(mode, black) == [fb |-> Boot, mode |-> mode, ctrl |-> Ctrl(mode), black |-> black,
                         shrunk |-> FALSE, count |-> 1]
Contexts == [fb : ViBuffers \cup {Boot}, mode : Modes,
             ctrl : [aa : 0 .. 3, divot : BOOLEAN, gamma : BOOLEAN, gammaDither : BOOLEAN,
                     ditherFilter : BOOLEAN],
             black : BOOLEAN, shrunk : BOOLEAN, count : Nat]
Next_ == viCtx[viNext]
Curr_ == viCtx[1 - viNext]

-----------------------------------------------------------------------------
(* __osViSwapContext.                                                      *)

(* The registers of context c for the field the VI is about to show.  A    *)
(* y scale set by the program halves the step here.                        *)
Programmed(c, f) ==
  LET r == FieldRegs(c.mode, f)
  IN  [fb |-> c.fb, ctrl |-> c.ctrl, regs |-> IF c.shrunk THEN [r EXCEPT !.step = @ \div 2] ELSE r,
       blank |-> c.black]

(* Mutant: the old current context is reused without a copy of the new.    *)
SwapContextUncopied(f) ==
  /\ viRegs' = Programmed(Next_, f)
  /\ viNext' = 1 - viNext
  /\ UNCHANGED viCtx

SwapContext(f) ==
  /\ viRegs' = Programmed(Next_, f)
  /\ viNext' = 1 - viNext
  /\ viCtx' = [i \in {0, 1} |-> Next_]

(* A retrace in viMgrMain: the swap, then the countdown to the client.     *)
ViRetrace(f) ==
  /\ SwapContext(f)
  /\ viPosted' = (viRetrace = 1)
  /\ viRetrace' = IF viRetrace = 1 THEN Next_.count ELSE viRetrace - 1
  /\ viCalls' = 0

-----------------------------------------------------------------------------
(* The calls.                                                              *)

Stage(c) ==
  /\ viCalls < ViMaxCalls
  /\ viCalls' = viCalls + 1
  /\ viCtx' = [viCtx EXCEPT ![viNext] = c]
  /\ UNCHANGED <<viNext, viRegs, viRetrace, viPosted>>

(* The mode's own state replaces the black and scale of before.            *)
SetMode(m) == Stage([Next_ EXCEPT !.mode = m, !.ctrl = Ctrl(m), !.black = FALSE, !.shrunk = FALSE])

Feature(c, ft) ==
  LET ctl == c.ctrl
  IN  CASE ft = "GAMMA_ON"           -> [ctl EXCEPT !.gamma = TRUE]
        [] ft = "GAMMA_OFF"          -> [ctl EXCEPT !.gamma = FALSE]
        [] ft = "GAMMA_DITHER_ON"    -> [ctl EXCEPT !.gammaDither = TRUE]
        [] ft = "GAMMA_DITHER_OFF"   -> [ctl EXCEPT !.gammaDither = FALSE]
        [] ft = "DIVOT_ON"           -> [ctl EXCEPT !.divot = TRUE]
        [] ft = "DIVOT_OFF"          -> [ctl EXCEPT !.divot = FALSE]
        [] ft = "DITHER_FILTER_ON"   -> [ctl EXCEPT !.ditherFilter = TRUE, !.aa = 0]
        [] ft = "DITHER_FILTER_OFF"  -> [ctl EXCEPT !.ditherFilter = FALSE, !.aa = AaMode(c.mode)]

SetSpecialFeatures(ft) == Stage([Next_ EXCEPT !.ctrl = Feature(Next_, ft)])
SetYScale(half) == Stage([Next_ EXCEPT !.shrunk = half])
Black(b) == Stage([Next_ EXCEPT !.black = b])
SwapBuffer(fb) == Stage([Next_ EXCEPT !.fb = fb])
SetEvent(n) == Stage([Next_ EXCEPT !.count = n])

(* __osViInit: the standard's mode, black, programmed at once.             *)
ViInit ==
  /\ \E tv \in ViTv : viCtx = [i \in {0, 1} |-> Context(Lan1(tv), TRUE)]
  /\ viNext = 0
  /\ \E f \in {0, 1} : viRegs = Programmed(Next_, f)
  /\ viRetrace = 1
  /\ viPosted = FALSE
  /\ viCalls = 0

ViStep ==
  \/ \E f \in {0, 1} : ViRetrace(f)
  \/ \E m \in ViModeSet : SetMode(m)
  \/ \E ft \in ViFeatures : SetSpecialFeatures(ft)
  \/ \E b \in BOOLEAN : SetYScale(b) \/ Black(b)
  \/ \E fb \in ViBuffers : SwapBuffer(fb)
  \/ \E n \in ViDivisors : SetEvent(n)

ViSpec == ViInit /\ [][ViStep]_viVars

-----------------------------------------------------------------------------
(* The two contexts and the flip of the pointers are one set of settings:  *)
(* a call changes what the calls before it left, whichever context they    *)
(* wrote it to and however many retraces came between, and a retrace       *)
(* programs all of it (vi.c: changes are staged into "next").              *)
Display == INSTANCE ViSettings WITH
  asked <- Next_, shown <- viRegs, Fields <- {0, 1}, Programmed <- Programmed,
  Settings <- Contexts
ShowsSettings == Display!DisplaySpec

(* The line of the buffer, in quarters, that line k of a field shows, for  *)
(* the k from 0 that the picture has.                                      *)
Shown(r, k) == r.origin + r.offset + k * r.step
LastLine(r) == (r.end - r.top) \div 2 - 1

(* Both fields of the mode on display stay inside the frame buffer, and    *)
(* with two fields the second shows what lies halfway between the lines of *)
(* the first, one scan line lower on the screen; with one, both show the   *)
(* same.  The scale of a program is for modes without two fields.          *)
ScanInFrame ==
  LET c  == Curr_
      r0 == Programmed(c, 0).regs
      r1 == Programmed(c, 1).regs
  IN  /\ \A r \in {r0, r1} : Shown(r, LastLine(r)) < 4 * Lines(c.mode)
      /\ r1.end - r1.top = r0.end - r0.top
      /\ r0.serrate /\ ~c.shrunk =>
            2 * (Shown(r1, 0) - Shown(r0, 0)) = r0.step /\ r1.top = r0.top + 2
      /\ ~r0.serrate => r1 = r0
================================================================================
