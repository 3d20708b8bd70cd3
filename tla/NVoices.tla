--------------------------------- MODULE NVoices ---------------------------------
(***************************************************************************)
(* The voices of libnaudio: how logical voices get physical ones, by taking*)
(* a spare one or stealing one that sounds (n_synallocvoice.c), the updates*)
(* that are queued for a time to come from a pool (n_syn*.c), and the frame*)
(* that calls the player, applies the updates and mixes the voices in      *)
(* blocks of 184 samples (n_synthesizer.c, n_env.c).                       *)
(*                                                                         *)
(* Times count from curSamples, so that they stay small; of a voice's two  *)
(* channels the left one is kept, the right one is alike.                  *)
(***************************************************************************)
EXTENDS Integers, Sequences, FiniteSets

CONSTANTS
  NvPVoices,   (* maxPVoices                                               *)
  NvPriority,  (* the priority of each logical voice                       *)
  NvUpdates,   (* maxUpdates                                               *)
  NvGains,     (* n_eqpower of the pans that are set                       *)
  NvRamps,     (* the times of n_alSynSetVol, in samples                   *)
  NvClients,   (* players: what the handler returns, in samples, and the   *)
               (*   calls it makes, one of each set, <<kind, voice>>, in turn*)
  NvFrames     (* the lengths of a frame                                   *)

SAMPLES == 184
Phys == 1 .. NvPVoices
Logical == DOMAIN NvPriority
NvPlayers == [period : Nat \ {0}, calls : Seq(SUBSET (STRING \X Logical))]

ASSUME NvAssumption ==
  /\ NvPVoices \in Nat \ {0} /\ NvUpdates \in Nat /\ NvPriority \in Seq(Int)
  /\ NvGains \subseteq Nat /\ (\A g \in NvGains : g <= 32767) /\ NvClients \subseteq NvPlayers
  /\ NvRamps \subseteq Nat /\ NvFrames \subseteq Nat \ {0}
  /\ \A t \in NvRamps : t % 16 = 0
  /\ \A n \in NvFrames : n % SAMPLES = 0

VARIABLES
  pLists,     (* pFreeList, pLameList and pAllocList                       *)
  pvoice,     (* N_ALVoice.pvoice, 0 for none                              *)
  vvoice,     (* N_PVoice.vvoice, 0 before the first                       *)
  pOffset,    (* N_PVoice.offset                                           *)
  ctrlList,   (* em_ctrlList of each physical voice                        *)
  paramList,  (* the number of updates in the pool                         *)
  em,         (* the envelope mixer of each physical voice                 *)
  syn,        (* the frame: its phase, client->samplesLeft, curSamples % 16*)
              (*   and outLen, and the voice that is pulled with outCount  *)
              (*   and thisOffset of its pull                              *)
  nvClient      (* the player, with the calls it has yet to make             *)

nvVars == <<pLists, pvoice, vvoice, pOffset, ctrlList, paramList, em, syn, nvClient>>
voiceVars == <<pLists, pvoice, vvoice, pOffset>>

-----------------------------------------------------------------------------
(* SAMPLE184, whose division truncates towards zero.                       *)
Snap(n) == IF n + 92 >= 0 THEN ((n + 92) \div SAMPLES) * SAMPLES ELSE -(((-(n + 92)) \div SAMPLES) * SAMPLES)

(* paramSamples when the player's handler runs.                            *)
NvNow == ((syn.left + syn.cur) \div 16) * 16 - syn.cur

InHandler == syn.phase = "handler" /\ nvClient.calls # <<>>
Called(kind, l) == InHandler /\ <<kind, l>> \in nvClient.calls[1] /\ nvClient' = [nvClient EXCEPT !.calls = Tail(@)]

Update(type, delta, data, ramp) == [type |-> type, delta |-> delta, data |-> data, ramp |-> ramp]

(* The calls of n_syn*.c: nothing without a physical voice, and nothing    *)
(* without an update left in the pool.                                     *)
Queued(l, type, data, ramp) ==
  /\ IF pvoice[l] = 0 \/ paramList = 0 THEN UNCHANGED <<ctrlList, paramList>>
     ELSE LET p == pvoice[l] IN
       /\ ctrlList' = [ctrlList EXCEPT ![p] = Append(@, Update(type, NvNow + pOffset[p], data, ramp))]
       /\ paramList' = paramList - 1
  /\ UNCHANGED <<voiceVars, em, syn>>

StartVoice(l) == Called("start", l) /\ Queued(l, "start", 0, 0)
StopVoice(l) == Called("stop", l) /\ Queued(l, "stop", 0, 0)
SetPitch(l) == Called("pitch", l) /\ Queued(l, "pitch", 0, 0)
SetFXMix(l) == Called("fxmix", l) /\ Queued(l, "fxamt", 0, 0)
SetPan(l, g) == Called("pan", l) /\ Queued(l, "pan", g, 0)
SetVol(l, t) == Called("vol", l) /\ Queued(l, "volume", 32767, t)

(* A note with all its settings: n_env.c takes the update, and the file    *)
(* that posts it, n_synstartvoiceparam.c, is not in the repository.        *)
StartVoiceAlt(l, t) == Called("startalt", l) /\ Queued(l, "startalt", 32767, t)

(* _allocatePVoice.                                                        *)
Spare == pLists.lame \o pLists.free
(* Mutant: a voice that is being stolen is stolen again.                   *)
StealableAnyway(l) == {i \in DOMAIN pLists.alloc : NvPriority[vvoice[pLists.alloc[i]]] <= NvPriority[l]}
Stealable(l) ==
  {i \in DOMAIN pLists.alloc : NvPriority[vvoice[pLists.alloc[i]]] <= NvPriority[l] /\ pOffset[pLists.alloc[i]] = 0}
PriorityAt(i) == NvPriority[vvoice[pLists.alloc[i]]]
Stolen(l) ==
  pLists.alloc[CHOOSE i \in Stealable(l) : \A j \in Stealable(l) :
                 PriorityAt(i) < PriorityAt(j) \/ (PriorityAt(i) = PriorityAt(j) /\ j <= i)]

TakeSpare(l) ==
  /\ Spare # <<>>
  /\ LET p == Spare[1] IN
       /\ pLists' = IF pLists.lame # <<>>
                    THEN [pLists EXCEPT !.lame = Tail(@), !.alloc = <<p>> \o @]
                    ELSE [pLists EXCEPT !.free = Tail(@), !.alloc = <<p>> \o @]
       /\ pOffset' = [pOffset EXCEPT ![p] = 0]
       /\ vvoice' = [vvoice EXCEPT ![p] = l]
       /\ pvoice' = [pvoice EXCEPT ![l] = p]
  /\ UNCHANGED <<ctrlList, paramList>>

(* The first of the two updates is used without a look whether there is    *)
(* one: a pool that is empty here is left out.                             *)
Steal(l) ==
  /\ Spare = <<>> /\ Stealable(l) # {} /\ paramList > 0
  /\ LET p == Stolen(l)
         fade == Update("volume", NvNow, 0, 368)
         stop == Update("stop", NvNow + 552, 0, 0)
     IN /\ pOffset' = [pOffset EXCEPT ![p] = 552]
        /\ pvoice' = [pvoice EXCEPT ![vvoice[p]] = 0, ![l] = p]
        /\ vvoice' = [vvoice EXCEPT ![p] = l]
        /\ ctrlList' = [ctrlList EXCEPT ![p] = @ \o IF paramList > 1 THEN <<fade, stop>> ELSE <<fade>>]
        /\ paramList' = IF paramList > 1 THEN paramList - 2 ELSE 0
  /\ UNCHANGED pLists

FindNone(l) == Spare = <<>> /\ Stealable(l) = {} /\ UNCHANGED <<voiceVars, ctrlList, paramList>>

AllocVoice(l) ==
  /\ Called("alloc", l)
  /\ pvoice[l] = 0
  /\ TakeSpare(l) \/ Steal(l) \/ FindNone(l)
  /\ UNCHANGED <<em, syn>>

(* _n_freePVoice.                                                          *)
Delinked(s, p) == LET k == CHOOSE i \in DOMAIN s : s[i] = p IN SubSeq(s, 1, k - 1) \o SubSeq(s, k + 1, Len(s))
NvRetired(lists, p) == [lists EXCEPT !.alloc = Delinked(@, p), !.lame = <<p>> \o @]

(* The player gives a voice back: it stops it and, if it was stolen, leaves*)
(* the freeing to an update.                                               *)
ReleaseVoice(l) ==
  /\ Called("release", l)
  /\ pvoice[l] # 0 /\ paramList > 1
  /\ LET p == pvoice[l]
         at == NvNow + pOffset[p]
         free == IF pOffset[p] = 0 THEN <<>> ELSE <<Update("free", at, 0, 0)>>
     IN /\ ctrlList' = [ctrlList EXCEPT ![p] = @ \o <<Update("stop", at, 0, 0)>> \o free]
        /\ paramList' = paramList - 1 - Len(free)
        /\ pLists' = IF free = <<>> THEN NvRetired(pLists, p) ELSE pLists
        /\ pvoice' = [pvoice EXCEPT ![l] = 0]
  /\ UNCHANGED <<vvoice, pOffset, em, syn>>

-----------------------------------------------------------------------------
(* n_alAudioFrame.                                                         *)

(* The player is called until what it asked for lies after the frame.      *)
Opened(s) ==
  IF s.left < s.len THEN [s EXCEPT !.phase = "handler"]
  ELSE [s EXCEPT !.phase = "pull", !.at = 1, !.out = SAMPLES, !.clock = 0]

AudioFrame ==
  /\ syn.phase = "idle"
  /\ \E n \in NvFrames : syn' = Opened([syn EXCEPT !.len = n])
  /\ UNCHANGED <<voiceVars, ctrlList, paramList, em, nvClient>>

HandlerReturns ==
  /\ syn.phase = "handler"
  /\ syn' = Opened([syn EXCEPT !.left = @ + nvClient.period])
  /\ UNCHANGED <<voiceVars, ctrlList, paramList, em, nvClient>>

-----------------------------------------------------------------------------
(* The ramp of a volume: a step every eight samples, as a signed integer   *)
(* and a fraction in units of 2^-16.                                       *)

AtLeast1(v) == IF v < 1 THEN 1 ELSE v
GetRate(vol, tgt, count) ==
  IF count = 0 THEN IF tgt >= vol THEN <<32767, 65535>> ELSE <<-32768, 0>>
  ELSE LET a == (AtLeast1(tgt) - AtLeast1(vol)) * 8 IN <<a \div count, (65535 * (a % count)) \div count>>

Short(n) == ((n + 32768) % 65536) - 32768
GetVol(ivol, samples, rate) ==
  LET steps == samples \div 8 IN
  IF steps = 0 THEN ivol ELSE Short(ivol + (rate[2] * steps) \div 65536 + rate[1] * steps)

Scaled(m) == (m.volume * m.gain) \div 32768

(* _pullSubFrame.                                                          *)
Solved(m) ==
  IF ~m.first THEN m
  ELSE [m EXCEPT !.first = FALSE, !.tgt = Scaled(m), !.rate = GetRate(m.cvol, Scaled(m), m.segEnd)]
PullSubFrame(m, n) ==
  IF m.motion # "playing" \/ n = 0 THEN m ELSE [Solved(m) EXCEPT !.delta = @ + SAMPLES]

(* The current volume of a voice whose volume, pan or send changes.        *)
Settled(m) ==
  IF m.delta >= m.segEnd
  THEN [m EXCEPT !.tgt = Scaled(m), !.delta = m.segEnd, !.cvol = Scaled(m)]
  ELSE [m EXCEPT !.cvol = GetVol(m.cvol, m.delta, m.rate)]
Clamped(m) == [m EXCEPT !.cvol = IF @ = 0 THEN 1 ELSE @, !.first = TRUE]

Changed(m, u) ==
  CASE u.type = "pan" -> [m EXCEPT !.gain = u.data]
    [] u.type = "volume" -> [m EXCEPT !.delta = 0, !.volume = (u.data * u.data) \div 32768, !.segEnd = Snap(u.ramp)]
    [] OTHER -> m

(* AL_FILTER_RESET of n_alEnvmixerParam.                                   *)
Reset(m) == [m EXCEPT !.first = TRUE, !.motion = "stopped", !.volume = 1, !.segEnd = 0]

StartedAlt(m, u) ==
  LET v == [m EXCEPT !.motion = "playing", !.first = TRUE, !.delta = 0, !.segEnd = Snap(u.ramp), !.gain = 32767,
                     !.volume = (u.data * u.data) \div 32768]
  IN [v EXCEPT !.cvol = IF u.ramp # 0 THEN 1 ELSE Scaled(v)]

Applied(m, u, n) ==
  CASE u.type = "start" -> [m EXCEPT !.motion = "playing"]
    [] u.type = "startalt" -> StartedAlt(m, u)
    [] u.type = "free"  -> m
    [] u.type = "stop"  -> Reset(PullSubFrame(m, n))
    [] u.type = "pitch" -> PullSubFrame(m, n)
    [] OTHER -> Changed(Clamped(Settled(PullSubFrame(m, n))), u)

-----------------------------------------------------------------------------
(* n_alEnvmixerPull, for one physical voice after the other.               *)

Update1 == ctrlList[syn.at][1]
Span == Snap(Update1.delta - syn.clock)
Due == syn.phase = "pull" /\ ctrlList[syn.at] # <<>> /\ Span <= syn.out

(* Mutant: the clock follows every update, also over a span of nothing.    *)
ClockFollows(s) == [s EXCEPT !.out = @ - Span, !.clock = Update1.delta]
Advanced(s) == [s EXCEPT !.out = @ - Span, !.clock = IF Span = 0 THEN @ ELSE Update1.delta]

ApplyUpdate ==
  /\ Due
  /\ em' = [em EXCEPT ![syn.at] = Applied(@, Update1, Span)]
  /\ syn' = Advanced(syn)
  /\ ctrlList' = [ctrlList EXCEPT ![syn.at] = Tail(@)]
  /\ paramList' = paramList + 1
  /\ IF Update1.type = "free"
     THEN pOffset' = [pOffset EXCEPT ![syn.at] = 0] /\ pLists' = NvRetired(pLists, syn.at)
     ELSE UNCHANGED <<pOffset, pLists>>
  /\ UNCHANGED <<pvoice, vvoice, nvClient>>

EndSegment(m) == [m EXCEPT !.delta = IF @ > m.segEnd THEN m.segEnd ELSE @]
NvRest(m) == EndSegment(PullSubFrame(m, syn.out))

NextVoice ==
  /\ syn.phase = "pull" /\ ~Due /\ syn.at < NvPVoices
  /\ em' = [em EXCEPT ![syn.at] = NvRest(@)]
  /\ syn' = [syn EXCEPT !.at = @ + 1, !.out = SAMPLES, !.clock = 0]
  /\ UNCHANGED <<voiceVars, ctrlList, paramList, nvClient>>

(* _n_collectPVoices: one after the other to the head of the free list.    *)
Reversed(s) == [i \in 1 .. Len(s) |-> s[Len(s) + 1 - i]]
Collected(lists) == [lists EXCEPT !.lame = <<>>, !.free = Reversed(lists.lame) \o @]

Later(s) ==
  [s EXCEPT !.left = @ - SAMPLES, !.cur = (@ + SAMPLES) % 16, !.len = @ - SAMPLES, !.at = 1, !.out = SAMPLES,
            !.clock = 0, !.phase = IF s.len = SAMPLES THEN "idle" ELSE "pull"]

EndBlock ==
  /\ syn.phase = "pull" /\ ~Due /\ syn.at = NvPVoices
  /\ em' = [em EXCEPT ![syn.at] = NvRest(@)]
  /\ syn' = Later(syn)
  /\ ctrlList' = [p \in Phys |-> [i \in DOMAIN ctrlList[p] |-> [ctrlList[p][i] EXCEPT !.delta = @ - SAMPLES]]]
  /\ pLists' = IF syn.len = SAMPLES THEN Collected(pLists) ELSE pLists
  /\ UNCHANGED <<pvoice, vvoice, pOffset, paramList, nvClient>>

-----------------------------------------------------------------------------
(* alN_PVoiceNew and n_alSynNew.                                           *)
PVoiceNew ==
  [motion |-> "stopped", first |-> TRUE, cvol |-> 1, volume |-> 1, gain |-> 32767, tgt |-> 1, rate |-> <<1, 0>>,
   delta |-> 0, segEnd |-> 0]

NvInit ==
  /\ pLists = [free |-> [i \in Phys |-> NvPVoices + 1 - i], lame |-> <<>>, alloc |-> <<>>]
  /\ pvoice = [l \in Logical |-> 0] /\ vvoice = [p \in Phys |-> 0]
  /\ pOffset = [p \in Phys |-> 0] /\ ctrlList = [p \in Phys |-> <<>>]
  /\ paramList = NvUpdates /\ em = [p \in Phys |-> PVoiceNew]
  /\ syn = [phase |-> "idle", left |-> 0, cur |-> 0, len |-> 0, at |-> 1, out |-> SAMPLES, clock |-> 0]
  /\ nvClient \in NvClients

NvNext ==
  \/ AudioFrame \/ HandlerReturns \/ ApplyUpdate \/ NextVoice \/ EndBlock
  \/ /\ InHandler
     /\ \E l \in Logical :
          \/ AllocVoice(l) \/ StartVoice(l) \/ StopVoice(l) \/ SetPitch(l) \/ SetFXMix(l) \/ ReleaseVoice(l)
          \/ \E g \in NvGains : SetPan(l, g)
          \/ \E t \in NvRamps : SetVol(l, t) \/ StartVoiceAlt(l, t)

NvSpec == NvInit /\ [][NvNext]_nvVars

-----------------------------------------------------------------------------
(* A physical voice is on one list, a logical voice and the physical one it*)
(* has name each other, and an allocated one without an owner is about to  *)
(* be freed.                                                               *)
OnList(p) == [k \in DOMAIN pLists |-> Cardinality({i \in DOMAIN pLists[k] : pLists[k][i] = p})]
VoicesLinked ==
  /\ \A p \in Phys : OnList(p).free + OnList(p).lame + OnList(p).alloc = 1
  /\ \A l \in Logical : pvoice[l] # 0 => vvoice[pvoice[l]] = l /\ OnList(pvoice[l]).alloc = 1
  /\ \A p \in Phys : OnList(p).alloc = 1 =>
       pvoice[vvoice[p]] = p \/ \E i \in DOMAIN ctrlList[p] : ctrlList[p][i].type = "free"

(* No update is lost from the pool or handed out twice.                    *)
InLists(lists, k) ==
  LET queued[n \in 0 .. NvPVoices] == IF n = 0 THEN 0 ELSE queued[n - 1] + Len(lists[n]) IN queued[k]
UpdatesKept == paramList + InLists(ctrlList, NvPVoices) = NvUpdates

(* An update takes effect less than a block from the time it was made for, *)
(* though only whole blocks are mixed, and in a block of its own frame: no *)
(* span runs backwards, and the times that were rounded do not add up.     *)
OnTime ==
  /\ Due => Span >= 0 /\ Update1.delta - (SAMPLES - syn.out + Span) \in -SAMPLES + 1 .. SAMPLES - 1
  /\ syn.phase = "idle" => \A p \in Phys : \A i \in DOMAIN ctrlList[p] : ctrlList[p][i].delta >= 0

(* A stolen voice that sounds is stopped only when it has faded out.       *)
FadesOut ==
  Due /\ Update1.type = "stop" /\ em[syn.at].motion = "playing" /\ em[syn.at].volume = 0
  => em[syn.at].delta + Span >= em[syn.at].segEnd

(* Between frames a spare voice is silent, with nothing left to do.        *)
SpareSilent ==
  syn.phase = "idle" => \A p \in {pLists.free[i] : i \in DOMAIN pLists.free} : em[p].motion = "stopped" /\ ctrlList[p] = <<>>

(* The voices of libnaudio: their links, their updates, and the times these *)
(* take effect.                                                             *)
VoicesInv == VoicesLinked /\ UpdatesKept /\ OnTime /\ FadesOut /\ SpareSilent

(* "Bring em_cvolL/R up to date: snap to the target if the segment is over, *)
(* else project the partial ramp forward over the elapsed delta": a settled *)
(* volume lies between the one the ramp began with and the one it leads to. *)
SettlesWithinRamp ==
  Due /\ Update1.type \in {"volume", "pan", "fxamt"} =>
    LET m == PullSubFrame(em[syn.at], Span)
        v == Settled(m).cvol
    IN m.delta < m.segEnd => (m.cvol <= v /\ v <= m.tgt) \/ (AtLeast1(m.tgt) <= v /\ v <= m.cvol)
================================================================================
