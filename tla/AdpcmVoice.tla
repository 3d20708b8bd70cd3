------------------------------- MODULE AdpcmVoice -------------------------------
(***************************************************************************)
(* The decoder of an n_audio voice (n_load.c): n_alAdpcmPull makes the RSP *)
(* commands that lay the next samples of a compressed sound out in DMEM,   *)
(* across frames that are only partly used, the turns of a loop and the    *)
(* end of the data.  What a DMEM slot holds is the number of the sample in *)
(* the sound; the RSP's decoder is external.  Addresses are in samples and *)
(* the read cursor, always at a frame, in frames.                          *)
(***************************************************************************)
EXTENDS Integers, Sequences, FiniteSets

CONSTANTS
  FrameSize,    (* ADPCMFSIZE, 16                                          *)
  DecoderOut,   (* N_AL_DECODER_OUT, 184 samples                           *)
  Counts,       (* the outCount of pulls                                   *)
  Sounds        (* the wavetables: [frames, start, end, count], no loop at *)
                (*   start = end = count = 0; count -1 is forever          *)

Zero == -1      (* a cleared slot, or the decoder's state at the start     *)
Junk == -2

ASSUME AdpcmAssumption ==
  /\ FrameSize \in Nat \ {0} /\ DecoderOut \in Nat
  /\ Counts \subseteq Nat \ {0}
  /\ \A s \in Sounds : /\ s.frames \in Nat \ {0} /\ s.count \in Nat \cup {-1}
                       /\ s.start \in Nat /\ s.end \in s.start .. FrameSize * s.frames
                       /\ s.start = s.end => s.count = 0

VARIABLES
  table,        (* dc_table                                                *)
  loopCount,    (* dc_loop.count                                           *)
  sample,       (* dc_sample                                               *)
  lastsam,      (* dc_lastsam                                              *)
  memin,        (* dc_memin                                                *)
  dcFirst,      (* dc_first                                                *)
  decoder,      (* dc_state in RAM: the frame it was left with             *)
  heard,        (* history: what the last pull delivered                   *)
  goesOn,       (* history: what it should have                            *)
  position      (* history: the sound is there, with so many turns to do   *)

dcVars == <<table, loopCount, sample, lastsam, memin, dcFirst, decoder, heard, goesOn, position>>

Smaller(a, b) == IF a < b THEN a ELSE b
FramesOf(n) == (n + FrameSize - 1) \div FrameSize
Positive(n) == IF n < 0 THEN 0 ELSE n

-----------------------------------------------------------------------------
(* The RSP.  aADPCMdec puts the frame of its state in front of the samples *)
(* it decodes, whole frames, from the input just loaded.                   *)

FrameSlot(frame, i) == IF frame = Zero THEN Zero ELSE frame * FrameSize + i

Decode(v, at, from, n) ==
  LET frames == FramesOf(n)
  IN  [v EXCEPT
        !.dmem = [s \in DOMAIN @ |->
                    IF s \in at .. at + FrameSize - 1 THEN FrameSlot(v.decoder, s - at)
                    ELSE IF s \in at + FrameSize .. at + FrameSize * (frames + 1) - 1
                    THEN FrameSlot(from, s - at - FrameSize)
                    ELSE @[s]],
        !.decoder = IF frames = 0 THEN @ ELSE from + frames - 1]

DmemMove(d, from, to, n) == [s \in DOMAIN d |-> IF s \in to .. to + n - 1 THEN d[from + s - to] ELSE d[s]]
ClearBuffer(d, at, n) == [s \in DOMAIN d |-> IF s \in at .. at + n - 1 THEN Zero ELSE d[s]]

-----------------------------------------------------------------------------
(* n_alAdpcmPull.  v is the voice in the middle of it.                     *)

Longest == CHOOSE n \in Counts : \A m \in Counts : m <= n
Dmem == [s \in DecoderOut .. DecoderOut + 4 * FrameSize + 3 * Longest |-> Junk]

(* _decodeChunk: A_LOOP restores the frame the loop starts in, A_INIT an   *)
(* empty one.                                                              *)
Chunk(v, at, n, loop) ==
  Decode([v EXCEPT !.decoder = IF loop THEN table.start \div FrameSize
                               ELSE IF v.first THEN Zero ELSE @, !.first = FALSE],
         at, v.memin, n)

Left(v) == IF v.lastsam = 0 THEN 0 ELSE FrameSize - v.lastsam
Skipped(v, at) == at + (IF v.lastsam = 0 THEN FrameSize ELSE v.lastsam)

(* Mutant: the chunk is moved from its start, not from where the loop's    *)
(* first sample is.                                                        *)
MergedWhole(v, op, end, n) == DmemMove(v.dmem, op, end, n)
Merged(v, op, end, n) == DmemMove(v.dmem, op + v.lastsam, end, n)

(* A turn of the loop: n samples were put in front of end, want are still  *)
(* to be delivered, frames were decoded last.                              *)
Turn(w) ==
  LET want   == w.want - w.n
      op     == ((w.end + (w.frames + 1) * FrameSize + FrameSize \div 2) \div FrameSize) * FrameSize
      end    == w.end + w.n
      n      == Smaller(want, table.end - table.start)
      tsam   == Positive(n - FrameSize + w.v.lastsam)
      v      == Chunk(w.v, op, tsam, TRUE)
  IN  [want |-> want, n |-> n, end |-> end, frames |-> FramesOf(tsam),
       v |-> [v EXCEPT !.dmem = Merged(v, op, end, n), !.turns = IF @ > 0 THEN @ - 1 ELSE @]]

PullLooped(v, outCount) ==
  LET n    == table.end - v.sample
      tsam == Positive(n - Left(v))
      w0   == [want |-> outCount, n |-> n, end |-> Skipped(v, DecoderOut), frames |-> FramesOf(tsam),
               v |-> [Chunk(v, DecoderOut, tsam, FALSE) EXCEPT
                        !.lastsam = table.start % FrameSize, !.memin = table.start \div FrameSize + 1,
                        !.sample = table.start, !.outp = Skipped(v, DecoderOut)]]
      turns[k \in 0 .. outCount] ==
        IF k = 0 THEN w0
        ELSE LET w == turns[k - 1] IN IF w.want > w.n THEN Turn(w) ELSE w
      w == turns[outCount]
  IN  [w.v EXCEPT !.lastsam = (w.want + @) % FrameSize, !.sample = @ + w.want, !.memin = @ + w.frames]

(* Straight on: what the whole frames of the request have of the sound is  *)
(* decoded, the rest cleared.                                              *)
PullStraight(v, outCount) ==
  LET frames == FramesOf(Positive(outCount - Left(v)))
      nSam   == frames * FrameSize
      nOver  == Smaller(Positive(v.memin + frames - table.frames) * FrameSize, nSam + Left(v))
      whole  == (nOver \div FrameSize) * FrameSize < outCount
      at     == IF whole THEN Skipped(v, DecoderOut) ELSE DecoderOut
      d      == IF whole
                THEN [Chunk(v, DecoderOut, nSam - nOver, FALSE) EXCEPT
                        !.lastsam = (outCount + @) % FrameSize, !.sample = @ + outCount]
                ELSE [v EXCEPT !.lastsam = 0]
      zeroAt == IF whole THEN at + Left(v) + nSam - nOver ELSE at
  IN  [d EXCEPT !.memin = @ + frames, !.outp = at,
                !.lastsam = IF nOver > 0 THEN 0 ELSE @,
                !.dmem = IF nOver > 0 THEN ClearBuffer(@, zeroAt, nOver) ELSE @]

Voice == [dmem |-> Dmem, decoder |-> decoder, first |-> dcFirst, turns |-> loopCount,
          sample |-> sample, lastsam |-> lastsam, memin |-> memin, outp |-> DecoderOut]

(* Far behind the end the cursor runs on with nothing to read, and is kept.*)
Kept(m) == Smaller(m, table.frames + 1)

(* The samples the sound goes on with: n of them from p, where a loop has  *)
(* c turns left.                                                           *)
Continue(p, c, n) ==
  LET go[k \in 0 .. n] ==
        IF k = 0 THEN [at |-> p, turns |-> c, out |-> <<>>]
        ELSE LET g   == go[k - 1]
                 end == FrameSize * table.frames
                 hop == g.at = table.end /\ g.turns # 0
                 at  == IF hop THEN table.start ELSE g.at
             IN  [at |-> Smaller(at + 1, end), turns |-> IF hop /\ g.turns > 0 THEN g.turns - 1 ELSE g.turns,
                  out |-> Append(g.out, IF at = end THEN Zero ELSE at)]
  IN  go[n]

AdpcmPull(outCount) ==
  LET looped == outCount + sample > table.end /\ loopCount # 0
  IN  \E v \in {IF looped THEN PullLooped(Voice, outCount) ELSE PullStraight(Voice, outCount)},
         g \in {Continue(position.at, position.turns, outCount)} :
        /\ loopCount' = v.turns /\ sample' = Smaller(v.sample, FrameSize * table.frames + Longest)
        /\ lastsam' = v.lastsam /\ memin' = Kept(v.memin)
        /\ dcFirst' = v.first /\ decoder' = v.decoder
        /\ heard' = [i \in 1 .. outCount |-> v.dmem[v.outp + i - 1]]
        /\ goesOn' = g.out /\ position' = [at |-> g.at, turns |-> g.turns]
        /\ UNCHANGED table

(* AL_FILTER_RESET and then AL_FILTER_SET_WAVETABLE of n_alLoadParam: a    *)
(* voice is stopped before it starts the next sound.                       *)
AdpcmStart(s) ==
  /\ table' = s /\ loopCount' = s.count
  /\ sample' = 0 /\ lastsam' = 0 /\ memin' = 0 /\ dcFirst' = TRUE
  /\ heard' = <<>> /\ goesOn' = <<>> /\ position' = [at |-> 0, turns |-> s.count]
  /\ UNCHANGED decoder

AdpcmInit ==
  /\ table \in Sounds /\ loopCount = table.count
  /\ sample = 0 /\ lastsam = 0 /\ memin = 0 /\ dcFirst = TRUE /\ decoder = Zero
  /\ heard = <<>> /\ goesOn = <<>> /\ position = [at |-> 0, turns |-> table.count]

AdpcmNext == (\E n \in Counts : AdpcmPull(n)) \/ \E s \in Sounds : AdpcmStart(s)

-----------------------------------------------------------------------------
(* Every pull delivers the sound where the last one left it: no sample is  *)
(* lost, repeated or out of place at the seams of frames and pulls, at the *)
(* turns of a loop and at the end of the data, after which there is silence*)
(* (the decoder "tracks loop points and the 16-sample ADPCM frame boundary *)
(* so a sample can span several command-list frames").  Only of a sound    *)
(* with less than a frame left may the end be cut: "otherwise the request  *)
(* is entirely tail".                                                      *)
Silent == \A i \in DOMAIN heard : heard[i] = Zero
Remaining == Cardinality({i \in DOMAIN goesOn : goesOn[i] # Zero})
PullsContinue == heard = goesOn \/ (Silent /\ Remaining < FrameSize)
================================================================================
