-------------------------------- MODULE PiProofs --------------------------------
(***************************************************************************)
(* Theorems about the PI manager, its clients and the cache of samples,    *)
(* for any number of request blocks, queues, threads and buffers.          *)
(*                                                                         *)
(* PiInv is not inductive: that a transfer runs with its own timing needs  *)
(* what the registers hold while nothing is on the bus.  The cartridge's   *)
(* are slow exactly while a thread probes it, and what that thread saved   *)
(* is what was there at boot; the SRAM's are its own once the handle cached*)
(* for its domain is its own; and during a transfer the handle cached for  *)
(* its domain is the one of that domain.                                   *)
(***************************************************************************)
EXTENDS SampleCache, Induction, SequenceTheorems, FiniteSetTheorems, TLAPS

-----------------------------------------------------------------------------
(* The inductive invariant of the manager.                                 *)
ProbeTimed ==
  /\ \A t \in Direct : romPc[t] = "slow" => timing["cart"] = "slow" /\ saved = "boot"
  /\ (\A t \in Direct : romPc[t] # "slow") => timing["cart"] = "boot"

HandlesTimed ==
  /\ current["cart"] = "cart"
  /\ current["sram"] = "sram" => timing["sram"] = "sram"
  /\ bus # NoDma => current[bus.domain] = bus.domain

PiIInv == PiTypeOK /\ OneBusOwner /\ CompletionIsMine /\ ProbeTimed /\ HandlesTimed

(* Posting a request and posting a reply keep the queues' types.           *)
LEMMA PostedType ==
  ASSUME cmdQueue \in Seq(Blocks), NEW b \in Blocks, NEW p
  PROVE  Posted(b, p) \in Seq(Blocks)
<1>1. <<b>> \in Seq(Blocks) /\ Append(cmdQueue, b) \in Seq(Blocks)
  OBVIOUS
<1>2. <<b>> \o cmdQueue \in Seq(Blocks)
  BY <1>1, ConcatProperties
<1> QED  BY <1>1, <1>2 DEF Posted

LEMMA ReplyType ==
  ASSUME retQueue \in [Queues -> Seq(Blocks)], NEW q \in Queues, mb' \in Blocks
  PROVE  Reply(q) \in [Queues -> Seq(Blocks)]
BY DEF Reply

LEMMA PiInitInv == PiInit => PiIInv
<1> SUFFICES ASSUME PiInit PROVE PiIInv
  OBVIOUS
<1> USE DEF PiInit
<1>1. PiTypeOK
  <2>1. <<>> \in Seq(Blocks)
    OBVIOUS
  <2>2. retQueue \in [Queues -> Seq(Blocks)]
    BY <2>1
  <2>3. held \in [Rams -> (Domains \X Addrs) \cup {NoDma}] /\ romPc \in [Direct -> RomPcs]
    BY DEF RomPcs
  <2>4. timing \in [Domains -> Timings] /\ current \in [Domains -> Domains] /\ saved \in Timings
    BY DEF Domains, Timings
  <2>5. /\ access \in 0 .. 1 /\ evtQueue \in 0 .. 1 /\ mgr = "command"
        /\ mb \in Blocks \cup {NoBlock} /\ kind = "LOOPBACK" /\ bus \in Dmas \cup {NoDma}
    OBVIOUS
  <2>6. romFirst \in BOOLEAN /\ romBuilt \in BOOLEAN
    BY Zenon
  <2>7. cmdQueue \in Seq(Blocks) /\ block \in [Blocks -> Requests]
    BY <2>1
  <2> QED  BY ONLY <2>2, <2>3, <2>4, <2>5, <2>6, <2>7 DEF PiTypeOK
<1>2. OneBusOwner
  BY DEF OneBusOwner, HoldsBus
<1>3. CompletionIsMine /\ ProbeTimed /\ HandlesTimed
  BY DEF CompletionIsMine, ProbeTimed, HandlesTimed, Domains
<1> QED  BY <1>1, <1>2, <1>3 DEF PiIInv

-----------------------------------------------------------------------------
(* Every action keeps it.  What the manager's queues hold matters only for *)
(* the types; the token and the registers are for the last two conjuncts.  *)

LEMMA RequestsInv ==
  ASSUME PiIInv, block' \in [Blocks -> Requests], cmdQueue' \in Seq(Blocks),
         retQueue' \in [Queues -> Seq(Blocks)],
         UNCHANGED <<access, manager, wires, timing, current, rom>>
  PROVE  PiIInv'
<1> USE DEF PiIInv, manager, wires, rom
<1>1. PiTypeOK'
  BY DEF PiTypeOK
<1>2. OneBusOwner'
  BY DEF OneBusOwner, HoldsBus
<1>3. CompletionIsMine' /\ ProbeTimed' /\ HandlesTimed'
  BY DEF CompletionIsMine, ProbeTimed, HandlesTimed
<1> QED  BY <1>1, <1>2, <1>3

LEMMA RequestInv ==
  ASSUME PiIInv, NEW b \in Blocks, NEW r \in Requests, Request(b, r)
  PROVE  PiIInv'
<1>1. cmdQueue' \in Seq(Blocks) /\ block' \in [Blocks -> Requests]
  BY PostedType DEF PiIInv, PiTypeOK, Request
<1> QED  BY <1>1, RequestsInv DEF Request, PiIInv, PiTypeOK

LEMMA CollectInv ==
  ASSUME PiIInv, NEW q \in Queues, Collect(q)
  PROVE  PiIInv'
<1>1. Tail(retQueue[q]) \in Seq(Blocks)
  BY DEF PiIInv, PiTypeOK, Collect
<1> QED  BY <1>1, RequestsInv DEF Collect, PiIInv, PiTypeOK

LEMMA TakeCommandInv ==
  ASSUME PiIInv, TakeCommand
  PROVE  PiIInv'
<1> USE DEF PiIInv, TakeCommand, wires, rom
<1>1. PiTypeOK'
  <2>1. Head(cmdQueue) \in Blocks /\ cmdQueue' \in Seq(Blocks)
    BY DEF PiTypeOK
  <2>2. mb' \in Blocks /\ block[mb'] \in Requests
    BY <2>1 DEF PiTypeOK
  <2>3. block[mb'].ret \in Queues /\ block[mb'].type \in {"EDMAREAD", "EDMAWRITE", "LOOPBACK"}
    BY <2>2 DEF Requests
  <2>4. Reply(block[mb'].ret) \in [Queues -> Seq(Blocks)]
    BY <2>2, <2>3, ReplyType DEF PiTypeOK
  <2>5. retQueue' \in [Queues -> Seq(Blocks)] /\ mgr' \in {"command", "access"}
    BY <2>4 DEF PiTypeOK
  <2> QED  BY <2>1, <2>2, <2>3, <2>5 DEF PiTypeOK
<1>2. mgr' \in {"command", "access"}
  OBVIOUS
<1>3. OneBusOwner'
  BY <1>2 DEF OneBusOwner, HoldsBus
<1>4. CompletionIsMine' /\ ProbeTimed' /\ HandlesTimed'
  BY <1>2 DEF CompletionIsMine, ProbeTimed, HandlesTimed
<1> QED  BY <1>1, <1>3, <1>4

LEMMA StartDmaInv ==
  ASSUME PiIInv, StartDma
  PROVE  PiIInv'
<1> USE DEF PiIInv, StartDma, requests, rom
<1> DEFINE b == block[mb]
<1>1. b \in Requests /\ mb \in Blocks /\ kind \in {"EDMAREAD", "EDMAWRITE"}
  BY DEF PiTypeOK
<1>2. b.domain \in Domains /\ b.dev \in Addrs /\ b.ram \in Rams
  BY <1>1 DEF Requests
<1>3. bus' = [domain |-> b.domain, type |-> kind, dev |-> b.dev, ram |-> b.ram]
  OBVIOUS
<1>4. bus' \in Dmas /\ bus' # NoDma /\ bus'.domain = b.domain
  BY <1>1, <1>2, <1>3, PiAssumption DEF Dmas
<1>5. /\ timing' = IF current[b.domain] # b.domain THEN [timing EXCEPT ![b.domain] = b.domain]
                   ELSE timing
      /\ current' = [current EXCEPT ![b.domain] = b.domain]
  BY DEF Synced
<1>6. /\ timing \in [Domains -> Timings] /\ current \in [Domains -> Domains]
      /\ current["cart"] = "cart" /\ (current["sram"] = "sram" => timing["sram"] = "sram")
      /\ access = 1 /\ access' = 0
  BY DEF PiTypeOK, HandlesTimed
<1> HIDE DEF b
<1>7. /\ timing' \in [Domains -> Timings] /\ current' \in [Domains -> Domains]
      /\ timing'["cart"] = timing["cart"]
  <2>1. b.domain = "cart" => current[b.domain] = b.domain
    BY <1>6
  <2>2. b.domain = "cart" \/ b.domain = "sram"
    BY <1>2 DEF Domains
  <2>3. timing' = timing \/ timing' = [timing EXCEPT !["sram"] = "sram"]
    BY <1>5, <2>1, <2>2
  <2>4. timing' \in [Domains -> Timings] /\ timing'["cart"] = timing["cart"]
    <3>1. timing \in [Domains -> Timings] /\ "cart" \in Domains /\ "sram" \in Timings
      BY <1>6 DEF Domains, Timings
    <3> QED  BY ONLY <2>3, <3>1
  <2> QED  BY <1>2, <1>5, <1>6, <2>4
<1>8. HandlesTimed'
  BY <1>2, <1>4, <1>5, <1>6 DEF HandlesTimed, Domains
<1>9. PiTypeOK'
  BY <1>1, <1>4, <1>6, <1>7 DEF PiTypeOK
<1>10. OneBusOwner' /\ CompletionIsMine'
  BY <1>4, <1>6 DEF OneBusOwner, CompletionIsMine, HoldsBus
<1>11. ProbeTimed'
  BY <1>7 DEF ProbeTimed
<1> QED  BY <1>8, <1>9, <1>10, <1>11

LEMMA BusDoneInv ==
  ASSUME PiIInv, BusDone
  PROVE  PiIInv'
<1> USE DEF PiIInv, BusDone, requests, rom
<1>1. mgr = "event" /\ evtQueue = 0 /\ evtQueue' = 1 /\ bus' = NoDma
  BY DEF CompletionIsMine, PiTypeOK
<1>2. held' \in [Rams -> (Domains \X Addrs) \cup {NoDma}]
  <2>1. bus \in Dmas
    BY DEF PiTypeOK
  <2>2. <<bus.domain, bus.dev>> \in Domains \X Addrs
    BY <2>1 DEF Dmas
  <2> QED  BY <2>2 DEF PiTypeOK
<1>3. PiTypeOK'
  BY <1>1, <1>2 DEF PiTypeOK
<1>4. OneBusOwner' /\ CompletionIsMine' /\ ProbeTimed' /\ HandlesTimed'
  BY <1>1 DEF OneBusOwner, CompletionIsMine, ProbeTimed, HandlesTimed, HoldsBus
<1> QED  BY <1>3, <1>4

LEMMA CompleteInv ==
  ASSUME PiIInv, Complete
  PROVE  PiIInv'
<1> USE DEF PiIInv, Complete, wires, rom
<1>1. /\ mb' = mb /\ mb \in Blocks /\ block[mb] \in Requests
      /\ access = 0 /\ access' = 1 /\ evtQueue = 1 /\ evtQueue' = 0 /\ bus = NoDma
      /\ \A t \in Direct : ~HoldsBus(t)
  BY DEF PiTypeOK, OneBusOwner, CompletionIsMine
<1>2. block[mb].ret \in Queues
  BY <1>1 DEF Requests
<1>3. retQueue' \in [Queues -> Seq(Blocks)]
  BY <1>1, <1>2, ReplyType DEF PiTypeOK
<1>4. PiTypeOK'
  BY <1>1, <1>3 DEF PiTypeOK
<1>5. OneBusOwner' /\ CompletionIsMine' /\ ProbeTimed' /\ HandlesTimed'
  BY <1>1 DEF OneBusOwner, CompletionIsMine, ProbeTimed, HandlesTimed, HoldsBus
<1> QED  BY <1>4, <1>5

(* In osCartRomInit a thread that holds the token holds it alone, with the *)
(* bus quiet; it alone changes the cartridge's registers.                  *)
LEMMA RomStepInv ==
  ASSUME PiIInv, NEW t \in Direct, RomStep(t)
  PROVE  PiIInv'
<1> USE DEF PiIInv, requests, manager, wires
<1>1. romPc \in [Direct -> RomPcs] /\ timing \in [Domains -> Timings] /\ access \in 0 .. 1
  BY DEF PiTypeOK
<1>2. CASE CartRomInit(t)
  <2>1. \A u \in Direct : HoldsBus(u)' <=> HoldsBus(u)
    BY <1>1, <1>2 DEF CartRomInit, HoldsBus
  <2>2. \A u \in Direct : romPc'[u] = "slow" <=> romPc[u] = "slow"
    BY <1>1, <1>2 DEF CartRomInit
  <2>3. PiTypeOK'
    BY <1>2 DEF CartRomInit, PiTypeOK, RomPcs
  <2>4. OneBusOwner'
    BY <1>2, <2>1 DEF CartRomInit, OneBusOwner
  <2>5. CompletionIsMine' /\ ProbeTimed' /\ HandlesTimed'
    BY <1>2, <2>2 DEF CartRomInit, CompletionIsMine, ProbeTimed, HandlesTimed
  <2> QED  BY <2>3, <2>4, <2>5
<1>3. CASE PiGetAccess(t)
  <2>1. access = 1 /\ access' = 0 /\ mgr # "event" /\ \A u \in Direct : ~HoldsBus(u)
    BY <1>1, <1>3 DEF PiGetAccess, OneBusOwner
  <2>2. \A u \in Direct : HoldsBus(u)' <=> u = t
    BY <1>1, <1>3, <2>1 DEF PiGetAccess, HoldsBus
  <2>3. \A u \in Direct : romPc'[u] = "slow" <=> romPc[u] = "slow"
    BY <1>1, <1>3 DEF PiGetAccess
  <2>4. PiTypeOK'
    BY <1>3, <2>1 DEF PiGetAccess, PiTypeOK, RomPcs
  <2>5. OneBusOwner'
    BY <1>3, <2>1, <2>2 DEF PiGetAccess, OneBusOwner
  <2>6. CompletionIsMine' /\ ProbeTimed' /\ HandlesTimed'
    BY <1>3, <2>3 DEF PiGetAccess, CompletionIsMine, ProbeTimed, HandlesTimed
  <2> QED  BY <2>4, <2>5, <2>6
<1>4. CASE AlreadyBuilt(t) \/ LinkHandle(t)
  <2>1. /\ romPc[t] \in {"held", "link"} /\ romPc' = [romPc EXCEPT ![t] = "done"]
        /\ access' = IF access = 0 THEN 1 ELSE access
        /\ UNCHANGED <<requests, manager, wires, timing, current, romFirst, romBuilt, saved>>
    BY <1>4 DEF AlreadyBuilt, LinkHandle, PiRelAccess
  <2>2. HoldsBus(t) /\ access' = 1 /\ access' \in 0 .. 1
    BY <1>1, <2>1 DEF HoldsBus
  <2>3. mgr # "event" /\ \A u \in Direct : HoldsBus(u) => u = t
    BY <2>2 DEF OneBusOwner
  <2>4. \A u \in Direct : ~HoldsBus(u)'
    BY <1>1, <2>1, <2>3 DEF HoldsBus
  <2>5. \A u \in Direct : romPc'[u] = "slow" <=> romPc[u] = "slow"
    BY <1>1, <2>1
  <2>6. PiTypeOK'
    BY <2>1, <2>2 DEF PiTypeOK, RomPcs
  <2>7. OneBusOwner'
    BY <2>1, <2>2, <2>3, <2>4 DEF OneBusOwner
  <2>8. CompletionIsMine' /\ ProbeTimed' /\ HandlesTimed'
    BY <2>1, <2>5 DEF CompletionIsMine, ProbeTimed, HandlesTimed
  <2> QED  BY <2>6, <2>7, <2>8
<1>5. CASE ProbeSlow(t) \/ ProbeRestore(t)
  <2>1. HoldsBus(t)
    BY <1>5 DEF ProbeSlow, ProbeRestore, HoldsBus
  <2>2. access = 0 /\ mgr # "event" /\ bus = NoDma /\ \A u \in Direct : HoldsBus(u) => u = t
    BY <1>1, <2>1 DEF OneBusOwner, CompletionIsMine
  <2>3. romPc' = [romPc EXCEPT ![t] = "slow"] \/ romPc' = [romPc EXCEPT ![t] = "link"]
    BY <1>5 DEF ProbeSlow, ProbeRestore
  <2>4. \A u \in Direct : HoldsBus(u)' <=> HoldsBus(u)
    BY <1>1, <2>1, <2>3 DEF HoldsBus
  <2>5. \A u \in Direct \ {t} : romPc[u] # "slow" /\ romPc'[u] # "slow"
    BY <1>1, <2>2, <2>3 DEF HoldsBus
  <2>6. CASE ProbeSlow(t)
    <3>1. timing["cart"] = "boot"
      BY <1>5, <2>5, <2>6 DEF ProbeTimed, ProbeSlow
    <3>2. /\ romPc'[t] = "slow" /\ timing' = [timing EXCEPT !["cart"] = "slow"]
          /\ saved' = "boot"
      BY <1>1, <2>6, <3>1 DEF ProbeSlow
    <3>3. timing'["cart"] = "slow" /\ timing'["sram"] = timing["sram"]
          /\ timing' \in [Domains -> Timings]
      BY <1>1, <3>2 DEF Domains, Timings
    <3>4. PiTypeOK'
      BY <2>6, <3>2, <3>3 DEF PiTypeOK, ProbeSlow, RomPcs, Timings
    <3> QED  BY <2>2, <2>4, <2>5, <2>6, <3>2, <3>3, <3>4
             DEF ProbeSlow, OneBusOwner, CompletionIsMine, ProbeTimed, HandlesTimed
  <2>7. CASE ProbeRestore(t)
    <3>1. romPc[t] = "slow" /\ saved = "boot"
      BY <2>7 DEF ProbeTimed, ProbeRestore
    <3>2. romPc'[t] = "link" /\ timing' = [timing EXCEPT !["cart"] = "boot"]
      BY <1>1, <2>7, <3>1 DEF ProbeRestore
    <3>3. timing'["cart"] = "boot" /\ timing'["sram"] = timing["sram"]
          /\ timing' \in [Domains -> Timings]
      BY <1>1, <3>2 DEF Domains, Timings
    <3>4. PiTypeOK'
      BY <2>7, <3>2, <3>3 DEF PiTypeOK, ProbeRestore, RomPcs
    <3> QED  BY <2>2, <2>4, <2>5, <2>7, <3>2, <3>3, <3>4
             DEF ProbeRestore, OneBusOwner, CompletionIsMine, ProbeTimed, HandlesTimed
  <2> QED  BY <1>5, <2>6, <2>7
<1> QED  BY <1>2, <1>3, <1>4, <1>5 DEF RomStep

LEMMA PiIInvTimed == PiIInv => PiInv
<1> SUFFICES ASSUME PiIInv PROVE BusTimed
  BY DEF PiIInv, PiInv
<1> SUFFICES ASSUME bus # NoDma
             PROVE  timing[bus.domain] = IF bus.domain = "cart" THEN "boot" ELSE "sram"
  BY DEF BusTimed
<1>1. bus \in Dmas /\ mgr = "event" /\ \A t \in Direct : ~HoldsBus(t)
  BY DEF PiIInv, PiTypeOK, CompletionIsMine, OneBusOwner
<1>2. timing["cart"] = "boot"
  BY <1>1 DEF HoldsBus, PiIInv, ProbeTimed
<1>3. bus.domain = "sram" => timing["sram"] = "sram"
  BY DEF PiIInv, HandlesTimed
<1> QED  BY <1>1, <1>2, <1>3 DEF Dmas, Domains

(* The bus has one owner at a time, every completion belongs to the request*)
(* the manager waits for, and no transfer runs with a timing that is not   *)
(* its device's, whatever the clients ask for and whenever a thread comes  *)
(* to probe the cartridge (__osDevMgrMain, osCartRomInit, EPI_SYNC).       *)
THEOREM PiAlwaysOwned == PiSpec => []PiInv
<1>1. PiInit => PiIInv
  BY PiInitInv
<1>2. PiIInv /\ [PiNext]_piVars => PiIInv'
  <2> SUFFICES ASSUME PiIInv, [PiNext]_piVars PROVE PiIInv'
    OBVIOUS
  <2>1. CASE \E b \in Blocks, r \in Requests : Request(b, r)
    BY <2>1, RequestInv
  <2>2. CASE \E q \in Queues : Collect(q)
    BY <2>2, CollectInv
  <2>3. CASE ManagerStep
    BY <2>3, TakeCommandInv, StartDmaInv, CompleteInv DEF ManagerStep
  <2>4. CASE BusDone
    BY <2>4, BusDoneInv
  <2>5. CASE \E t \in Direct : RomStep(t)
    BY <2>5, RomStepInv
  <2>6. CASE UNCHANGED piVars
    BY <2>6, RequestsInv DEF piVars, requests, PiIInv, PiTypeOK
  <2> QED  BY <2>1, <2>2, <2>3, <2>4, <2>5, <2>6 DEF PiNext
<1>3. PiIInv => PiInv
  BY PiIInvTimed
<1> QED  BY <1>1, <1>2, <1>3, PTL DEF PiSpec

-----------------------------------------------------------------------------
(* The readers and the cache of samples as clients.                        *)

LEMMA CallsInv ==
  ASSUME PiIInv, NEW t \in Threads, Calls(t)
  PROVE  PiIInv'
<1>1. t \in Blocks /\ t \in Queues /\ t \in Rams /\ t \in Direct
  BY ClientsAssumption DEF ClientsAssumption
<1>2. ASSUME NEW a \in RomAddrs PROVE RomRead(t, a) \in Requests
  <2>1. a \in Addrs
    BY ClientsAssumption DEF ClientsAssumption
  <2> QED  BY <1>1, <2>1 DEF RomRead, Requests, Domains
<1>3. ASSUME NEW a \in SramAddrs, NEW flag \in SramFlags PROVE SramMove(t, a, flag) \in Requests
  <2>1. a \in Addrs /\ flag \in {"EDMAREAD", "EDMAWRITE"}
    BY ClientsAssumption DEF ClientsAssumption
  <2> QED  BY <1>1, <2>1 DEF SramMove, RomRead, Requests, Domains
<1>4. ASSUME NEW r \in Requests, FirstRequest(t, r) PROVE PiIInv'
  <2>1. block' \in [Blocks -> Requests] /\ cmdQueue' \in Seq(Blocks)
    BY <1>1, <1>4, PostedType DEF FirstRequest, PiIInv, PiTypeOK
  <2>2. retQueue' \in [Queues -> Seq(Blocks)]
    <3>1. <<>> \in Seq(Blocks) /\ retQueue \in [Queues -> Seq(Blocks)]
      BY DEF PiIInv, PiTypeOK
    <3> QED  BY <3>1, <1>4 DEF FirstRequest
  <2> QED  BY <2>1, <2>2, <1>4, RequestsInv DEF FirstRequest
<1>5. CASE ReadRom(t) \/ ReadWriteSram(t)
  BY <1>2, <1>3, <1>4, <1>5 DEF ReadRom, ReadWriteSram
<1>6. CASE NextChunk(t)
  <2>1. block' \in [Blocks -> Requests] /\ cmdQueue' \in Seq(Blocks)
    BY <1>1, <1>2, <1>6, PostedType DEF NextChunk, PiIInv, PiTypeOK
  <2>2. retQueue' \in [Queues -> Seq(Blocks)]
    BY <1>1, <1>6 DEF NextChunk, PiIInv, PiTypeOK
  <2> QED  BY <2>1, <2>2, <1>6, RequestsInv DEF NextChunk
<1>7. CASE Return(t)
  BY <1>1, <1>7, CollectInv DEF Return
<1>8. CASE GetHandle(t) \/ InRomInit(t)
  BY <1>1, <1>8, RomStepInv DEF GetHandle, InRomInit, RomStep
<1> QED  BY <1>5, <1>6, <1>7, <1>8 DEF Calls, InCall

LEMMA AudioInv ==
  ASSUME PiIInv, dmaCount \in Nat, Audio \/ AudioOpens
  PROVE  PiIInv' /\ dmaCount' \in Nat
<1>1. AudQueue \in Queues /\ AudQueue \in Direct
  BY CacheAssumption DEF CacheAssumption
<1>2. ASSUME NEW b \in Buffers, NEW a \in SampleAddrs, dmaCount < MaxFetches, Claim(b, a)
      PROVE  PiIInv' /\ dmaCount' \in Nat
  <2>1. Cardinality(Buffers) \in Nat /\ MaxFetches \in Nat /\ MaxFetches <= 2 * Cardinality(Buffers)
    BY CacheAssumption, FS_CardinalityType DEF CacheAssumption
  <2>2. dmaCount \in 0 .. 2 * Cardinality(Buffers) - 1
    BY <1>2, <2>1
  <2>3. AudBlock[dmaCount] \in Blocks
    BY <2>2, CacheAssumption DEF CacheAssumption
  <2>4. b \in Rams /\ Aligned(a) \in Addrs
    BY CacheAssumption DEF CacheAssumption, Aligned
  <2>5. AudRequest(b, Aligned(a)) \in Requests
    BY <1>1, <2>4 DEF AudRequest, Requests, Domains
  <2>6. Request(AudBlock[dmaCount], AudRequest(b, Aligned(a))) /\ dmaCount' = dmaCount + 1
    BY <1>2 DEF Claim
  <2> QED  BY <2>3, <2>5, <2>6, RequestInv
<1>3. ASSUME UNCHANGED piVars PROVE PiIInv'
  <2>1. block' \in [Blocks -> Requests] /\ cmdQueue' \in Seq(Blocks) /\ retQueue' \in [Queues -> Seq(Blocks)]
    BY <1>3 DEF piVars, requests, PiIInv, PiTypeOK
  <2> QED  BY <1>3, <2>1, RequestsInv DEF piVars
<1>4. CASE \E a \in SampleAddrs, n \in Lengths : DmaSample(a, n)
  <2>1. PICK a \in SampleAddrs, n \in Lengths : DmaSample(a, n)
    BY <1>4
  <2>2. \/ \E b : FetchHit(b)
        \/ dmaCount < MaxFetches /\ \E l : FetchFree(a, l) \/ FetchEvict(a, l)
    BY <2>1, Zenon DEF DmaSample
  <2>3. CASE \E b : FetchHit(b)
    BY <1>3, <2>3 DEF FetchHit
  <2>4. CASE dmaCount < MaxFetches /\ \E l : FetchFree(a, l) \/ FetchEvict(a, l)
    <3>1. \E b \in Buffers : Claim(b, a)
      BY <2>4, Zenon DEF FetchFree, FetchEvict
    <3> QED  BY <1>2, <2>4, <3>1
  <2> QED  BY <2>2, <2>3, <2>4
<1>5. CASE EndFrame \/ AgeBuffers
  BY <1>3, <1>5 DEF EndFrame, AgeBuffers
<1>6. CASE Reap
  <2>1. dmaCount' \in Nat /\ (Collect(AudQueue) \/ UNCHANGED piVars)
    BY <1>6 DEF Reap
  <2> QED  BY <1>1, <1>3, <2>1, CollectInv
<1>7. CASE AudioOpens
  <2>1. RomStep(AudQueue) /\ dmaCount' = dmaCount
    BY <1>7 DEF AudioOpens, Opens, GetHandle, InRomInit, RomStep, cache
  <2> QED  BY <1>1, <2>1, RomStepInv
<1> QED  BY <1>4, <1>5, <1>6, <1>7 DEF Audio

(* The same in the program: with the threads that read the cartridge and   *)
(* its SRAM, and libmus' cache of samples (nuPiReadRom, nuPiReadWriteSram, *)
(* __MusIntDmaSample), whose calls combine requests and replies.           *)
THEOREM PiOwnedByClients == CacheSpec => []PiInv
<1>1. CacheStart => PiIInv /\ dmaCount \in Nat
  BY PiInitInv DEF CacheStart, CacheInit
<1>2. (PiIInv /\ dmaCount \in Nat) /\ [CacheNext]_cacheVars => (PiIInv /\ dmaCount \in Nat)'
  <2> SUFFICES ASSUME PiIInv, dmaCount \in Nat, [CacheNext]_cacheVars
               PROVE  PiIInv' /\ dmaCount' \in Nat
    OBVIOUS
  <2>1. CASE Audio \/ AudioOpens
    BY <2>1, AudioInv
  <2>2. CASE Manager
    <3>1. (ManagerStep \/ BusDone) /\ dmaCount' = dmaCount
      BY <2>2 DEF Manager, cache
    <3> QED  BY <3>1, TakeCommandInv, StartDmaInv, CompleteInv, BusDoneInv DEF ManagerStep
  <2>3. CASE \E t \in Threads : Reader(t)
    BY <2>3, CallsInv DEF Reader, cache
  <2>4. CASE UNCHANGED cacheVars
    <3>1. UNCHANGED piVars /\ dmaCount' = dmaCount
      BY <2>4 DEF cacheVars, cache
    <3>2. block' \in [Blocks -> Requests] /\ cmdQueue' \in Seq(Blocks) /\ retQueue' \in [Queues -> Seq(Blocks)]
      BY <3>1 DEF piVars, requests, PiIInv, PiTypeOK
    <3> QED  BY <3>1, <3>2, RequestsInv DEF piVars
  <2> QED  BY <2>1, <2>2, <2>3, <2>4 DEF CacheNext
<1>3. PiIInv => PiInv
  BY PiIInvTimed
<1> QED  BY <1>1, <1>2, <1>3, PTL DEF CacheSpec

-----------------------------------------------------------------------------
(* The lists of the cache of samples.                                      *)

CardB == Cardinality(Buffers)

LEMMA CardBNat == CardB \in Nat /\ Null \notin Buffers
BY CacheAssumption, FS_CardinalityType DEF CacheAssumption, CardB

(* The walks of Chain and of Ends from every place, for each length.       *)
Walk(nx) ==
  CHOOSE walk : walk = [n \in 0 .. CardB |->
    [q \in Links |-> IF q = Null \/ n = 0 THEN <<>> ELSE <<q>> \o walk[n - 1][nx[q]]]]
Stops(nx) ==
  CHOOSE after : after = [n \in 0 .. CardB |->
    [q \in Links |-> q = Null \/ (n > 0 /\ after[n - 1][nx[q]])]]

LEMMA ChainIsWalk ==
  ASSUME NEW nx, NEW p
  PROVE  Chain(nx, p) = Walk(nx)[CardB][p] /\ Ends(nx, p) = Stops(nx)[CardB][p]
BY DEF Chain, Ends, Walk, Stops, CardB

LEMMA WalkStep ==
  ASSUME NEW nx \in [Buffers -> Links]
  PROVE  \A n \in 0 .. CardB, q \in Links :
           Walk(nx)[n][q] = IF q = Null \/ n = 0 THEN <<>> ELSE <<q>> \o Walk(nx)[n - 1][nx[q]]
<1> DEFINE S == [Links -> Seq(Buffers)]
           c == [q \in Links |-> <<>>]
           D == [n \in 1 .. CardB |-> [g \in S |-> [q \in Links |-> IF q = Null THEN <<>> ELSE <<q>> \o g[nx[q]]]]]
           IsWalk(v) == v = [n \in 0 .. CardB |->
                          [q \in Links |-> IF q = Null \/ n = 0 THEN <<>> ELSE <<q>> \o v[n - 1][nx[q]]]]
<1>1. c \in S
  OBVIOUS
<1>2. D \in [1 .. CardB -> [S -> S]]
  <2>1. ASSUME NEW g \in S, NEW q \in Links, q # Null PROVE <<q>> \o g[nx[q]] \in Seq(Buffers)
    <3>1. q \in Buffers /\ <<q>> \in Seq(Buffers) /\ g[nx[q]] \in Seq(Buffers)
      BY <2>1 DEF Links
    <3> QED BY <3>1, ConcatProperties
  <2>2. ASSUME NEW g \in S PROVE [q \in Links |-> IF q = Null THEN <<>> ELSE <<q>> \o g[nx[q]]] \in S
    BY <2>1
  <2> QED BY <2>2
<1>3. PICK f : Recursive(f, CardB, S, c, D)
  <2>1. CardB \in Nat
    BY CardBNat
  <2> HIDE DEF S, c, D
  <2> QED BY <1>1, <1>2, <2>1, Recursion
<1>r. f \in [0 .. CardB -> S] /\ f[0] = c /\ \A n \in 1 .. CardB : f[n] = D[n][f[n - 1]]
  BY <1>3 DEF Recursive
<1>4. ASSUME NEW n \in 0 .. CardB
      PROVE f[n] = [q \in Links |-> IF q = Null \/ n = 0 THEN <<>> ELSE <<q>> \o f[n - 1][nx[q]]]
  <2>1. CASE n = 0
    BY <2>1, <1>r
  <2>2. CASE n # 0
    <3>1. n \in 1 .. CardB /\ n - 1 \in 0 .. CardB
      BY <2>2, CardBNat
    <3>2. f[n - 1] \in S /\ f[n] = D[n][f[n - 1]]
      BY <1>r, <3>1
    <3>3. f[n] = [r \in Links |-> IF r = Null THEN <<>> ELSE <<r>> \o f[n - 1][nx[r]]]
      BY <3>1, <3>2
    <3> QED BY <2>2, <3>3
  <2> QED BY <2>1, <2>2
<1>5. IsWalk(f)
  <2>1. f = [n \in 0 .. CardB |-> f[n]]
    BY <1>r
  <2> QED BY ONLY <1>4, <2>1
<1>6. Walk(nx) = CHOOSE v : IsWalk(v)
  BY DEF Walk
<1>7. IsWalk(Walk(nx))
  <2> HIDE DEF IsWalk
  <2> QED BY <1>5, <1>6
<1> DEFINE w == Walk(nx)
<1>8. \A n \in 0 .. CardB : w[n] = [q \in Links |-> IF q = Null \/ n = 0 THEN <<>> ELSE <<q>> \o w[n - 1][nx[q]]]
  <2>1. IsWalk(w)
    BY <1>7
  <2> HIDE DEF w
  <2> QED BY ONLY <2>1
<1> HIDE DEF w
<1>9. ASSUME NEW n \in 0 .. CardB, NEW q \in Links
      PROVE  w[n][q] = IF q = Null \/ n = 0 THEN <<>> ELSE <<q>> \o w[n - 1][nx[q]]
  BY ONLY <1>8
<1> QED BY <1>9 DEF w

LEMMA StopsStep ==
  ASSUME NEW nx \in [Buffers -> Links]
  PROVE  \A n \in 0 .. CardB, q \in Links :
           Stops(nx)[n][q] = (q = Null \/ (n > 0 /\ Stops(nx)[n - 1][nx[q]]))
<1> DEFINE S == [Links -> BOOLEAN]
           c == [q \in Links |-> q = Null]
           D == [n \in 1 .. CardB |-> [g \in S |-> [q \in Links |-> q = Null \/ g[nx[q]]]]]
           IsStops(v) == v = [n \in 0 .. CardB |-> [q \in Links |-> q = Null \/ (n > 0 /\ v[n - 1][nx[q]])]]
<1>1. c \in S /\ D \in [1 .. CardB -> [S -> S]]
  OBVIOUS
<1>2. PICK f : Recursive(f, CardB, S, c, D)
  <2>1. CardB \in Nat
    BY CardBNat
  <2> HIDE DEF S, c, D
  <2> QED BY <1>1, <2>1, Recursion
<1>r. f \in [0 .. CardB -> S] /\ f[0] = c /\ \A n \in 1 .. CardB : f[n] = D[n][f[n - 1]]
  BY <1>2 DEF Recursive
<1>3. ASSUME NEW n \in 0 .. CardB
      PROVE f[n] = [q \in Links |-> q = Null \/ (n > 0 /\ f[n - 1][nx[q]])]
  <2>1. CASE n = 0
    BY <2>1, <1>r
  <2>2. CASE n # 0
    <3>1. n \in 1 .. CardB /\ n - 1 \in 0 .. CardB /\ n > 0
      BY <2>2, CardBNat
    <3>2. f[n - 1] \in S /\ f[n] = D[n][f[n - 1]]
      BY <1>r, <3>1
    <3>3. f[n] = [r \in Links |-> r = Null \/ f[n - 1][nx[r]]]
      BY <3>1, <3>2
    <3> QED BY <3>1, <3>3
  <2> QED BY <2>1, <2>2
<1>4. IsStops(f)
  <2>1. f = [n \in 0 .. CardB |-> f[n]]
    BY <1>r
  <2> QED BY ONLY <1>3, <2>1
<1>5. Stops(nx) = CHOOSE v : IsStops(v)
  BY DEF Stops
<1>6. IsStops(Stops(nx))
  <2> HIDE DEF IsStops
  <2> QED BY <1>4, <1>5
<1> DEFINE w == Stops(nx)
<1>7. \A n \in 0 .. CardB : w[n] = [q \in Links |-> q = Null \/ (n > 0 /\ w[n - 1][nx[q]])]
  <2>1. IsStops(w)
    BY <1>6
  <2> HIDE DEF w
  <2> QED BY ONLY <2>1
<1> HIDE DEF w
<1>8. ASSUME NEW n \in 0 .. CardB, NEW q \in Links
      PROVE  w[n][q] = (q = Null \/ (n > 0 /\ w[n - 1][nx[q]]))
  BY ONLY <1>7
<1> QED BY <1>8 DEF w

(* The links nx from p are those of the sequence s.                        *)
Follows(nx, p, s) ==
  /\ s \in Seq(Buffers)
  /\ p = IF s = <<>> THEN Null ELSE s[1]
  /\ \A i \in 1 .. Len(s) : nx[s[i]] = IF i = Len(s) THEN Null ELSE s[i + 1]

(* Following the links of a sequence gives the sequence.                   *)
LEMMA ChainFollows ==
  ASSUME NEW nx \in [Buffers -> Links], NEW p, NEW s, Follows(nx, p, s), Len(s) <= CardB
  PROVE  Chain(nx, p) = s /\ Ends(nx, p)
<1> DEFINE Sound(k) == \A n \in k .. CardB, q \in Links, r \in Seq(Buffers) :
                         Len(r) = k /\ Follows(nx, q, r) => Walk(nx)[n][q] = r /\ Stops(nx)[n][q]
           T == {k \in Nat : Sound(k)}
<1>1. 0 \in T
  <2> SUFFICES ASSUME NEW n \in 0 .. CardB, NEW q \in Links, NEW r \in Seq(Buffers), Len(r) = 0, Follows(nx, q, r)
               PROVE  Walk(nx)[n][q] = r /\ Stops(nx)[n][q]
    OBVIOUS
  <2>1. r = <<>>
    BY EmptySeq
  <2>2. q = Null
    BY <2>1 DEF Follows
  <2> QED BY <2>1, <2>2, WalkStep, StopsStep
<1>2. ASSUME NEW k \in Nat, k \in T PROVE k + 1 \in T
  <2> SUFFICES ASSUME NEW n \in k + 1 .. CardB, NEW q \in Links, NEW r \in Seq(Buffers), Len(r) = k + 1, Follows(nx, q, r)
               PROVE  Walk(nx)[n][q] = r /\ Stops(nx)[n][q]
    OBVIOUS
  <2> DEFINE t == Tail(r)
  <2>1. r # <<>> /\ q = r[1] /\ q \in Buffers /\ q # Null
    BY CardBNat DEF Follows
  <2>2. t \in Seq(Buffers) /\ Len(t) = k /\ \A i \in 1 .. k : t[i] = r[i + 1]
    BY <2>1
  <2>3. Follows(nx, nx[q], t)
    <3>1. nx[q] = IF t = <<>> THEN Null ELSE t[1]
      <4>1. nx[r[1]] = IF 1 = k + 1 THEN Null ELSE r[2]
        BY DEF Follows
      <4>2. t = <<>> <=> k = 0
        BY <2>2, EmptySeq
      <4> QED BY <2>1, <2>2, <4>1, <4>2
    <3>2. \A i \in 1 .. k : nx[t[i]] = IF i = k THEN Null ELSE t[i + 1]
      <4> SUFFICES ASSUME NEW i \in 1 .. k PROVE nx[t[i]] = IF i = k THEN Null ELSE t[i + 1]
        OBVIOUS
      <4>1. nx[r[i + 1]] = IF i + 1 = k + 1 THEN Null ELSE r[i + 1 + 1]
        BY DEF Follows
      <4> QED BY <2>2, <4>1
    <3> QED BY <2>2, <3>1, <3>2 DEF Follows
  <2>4. nx[q] \in Links /\ n - 1 \in k .. CardB /\ n \in 0 .. CardB /\ n # 0 /\ n > 0
    BY <2>1, CardBNat
  <2>5. Walk(nx)[n - 1][nx[q]] = t /\ Stops(nx)[n - 1][nx[q]]
    BY <1>2, <2>2, <2>3, <2>4
  <2>6. <<q>> \o t = r
    BY <2>1, <2>2
  <2>7. /\ Walk(nx)[n][q] = IF q = Null \/ n = 0 THEN <<>> ELSE <<q>> \o Walk(nx)[n - 1][nx[q]]
        /\ Stops(nx)[n][q] = (q = Null \/ (n > 0 /\ Stops(nx)[n - 1][nx[q]]))
    BY <2>4, WalkStep, StopsStep
  <2> QED BY ONLY <2>1, <2>4, <2>5, <2>6, <2>7
<1>3. Len(s) \in T
  <2>1. Len(s) \in Nat
    BY DEF Follows
  <2> HIDE DEF T
  <2> QED BY <1>1, <1>2, <2>1, NatSetInduction
<1>4. p \in Links /\ s \in Seq(Buffers) /\ CardB \in Len(s) .. CardB
  BY CardBNat DEF Follows, Links
<1> QED BY <1>3, <1>4, ChainIsWalk

-----------------------------------------------------------------------------
Distinct(s) == \A i, j \in 1 .. Len(s) : s[i] = s[j] => i = j
Lies(b, s) == \E i \in 1 .. Len(s) : s[i] = b
Ins(s, m, b) == [i \in 1 .. Len(s) + 1 |-> IF i <= m THEN s[i] ELSE IF i = m + 1 THEN b ELSE s[i - 1]]
Del(s, k) == [i \in 1 .. Len(s) - 1 |-> IF i < k THEN s[i] ELSE s[i + 1]]

(* The doubly linked list of the sequence a.                               *)
Linked(nx, pv, hd, a) ==
  Follows(nx, hd, a) /\ \A i \in 1 .. Len(a) : pv[a[i]] = IF i = 1 THEN Null ELSE a[i - 1]

LEMMA FunIsSeq ==
  ASSUME NEW S, NEW n \in Nat, NEW f \in [1 .. n -> S]
  PROVE  f \in Seq(S) /\ Len(f) = n /\ (f = <<>> <=> n = 0)
<1>1. f \in Seq(S) /\ Len(f) = n
  OBVIOUS
<1>2. f = <<>> => n = 0
  BY <1>1, EmptySeq
<1>3. n = 0 => f = <<>>
  BY <1>1, EmptySeq
<1> QED BY <1>1, <1>2, <1>3

LEMMA InsSeq ==
  ASSUME NEW S, NEW s \in Seq(S), NEW m \in 0 .. Len(s), NEW b \in S
  PROVE  /\ Ins(s, m, b) \in Seq(S) /\ Len(Ins(s, m, b)) = Len(s) + 1 /\ Ins(s, m, b) # <<>>
         /\ \A i \in 1 .. Len(s) + 1 :
              Ins(s, m, b)[i] = IF i <= m THEN s[i] ELSE IF i = m + 1 THEN b ELSE s[i - 1]
<1>1. Len(s) + 1 \in Nat /\ Len(s) + 1 # 0 /\ Len(s) \in Nat
  OBVIOUS
<1>2. \A i \in 1 .. Len(s) : s[i] \in S
  OBVIOUS
<1>3. Ins(s, m, b) \in [1 .. Len(s) + 1 -> S]
  BY <1>1, <1>2 DEF Ins
<1>4. Ins(s, m, b) \in Seq(S) /\ Len(Ins(s, m, b)) = Len(s) + 1 /\ Ins(s, m, b) # <<>>
  BY <1>1, <1>3, FunIsSeq
<1> QED BY <1>4 DEF Ins

LEMMA DelSeq ==
  ASSUME NEW S, NEW s \in Seq(S), NEW k \in 1 .. Len(s)
  PROVE  /\ Del(s, k) \in Seq(S) /\ Len(Del(s, k)) = Len(s) - 1
         /\ Del(s, k) = <<>> <=> Len(s) = 1
         /\ \A i \in 1 .. Len(s) - 1 : Del(s, k)[i] = IF i < k THEN s[i] ELSE s[i + 1]
<1>1. Len(s) - 1 \in Nat /\ Len(s) \in Nat
  OBVIOUS
<1>2. \A i \in 1 .. Len(s) : s[i] \in S
  OBVIOUS
<1>3. Del(s, k) \in [1 .. Len(s) - 1 -> S]
  BY <1>1, <1>2 DEF Del
<1>4. Del(s, k) \in Seq(S) /\ Len(Del(s, k)) = Len(s) - 1 /\ (Del(s, k) = <<>> <=> Len(s) - 1 = 0)
  BY <1>1, <1>3, FunIsSeq
<1> QED BY <1>1, <1>4 DEF Del

LEMMA ExceptType ==
  ASSUME NEW S, NEW T, NEW f \in [S -> T], NEW x, NEW y \in T
  PROVE  [f EXCEPT ![x] = y] \in [S -> T]
OBVIOUS

(* Splicing b in behind the m-th makes the list of the longer sequence and *)
(* leaves the links of buffers elsewhere alone.                            *)
LEMMA SplicedLinked ==
  ASSUME NEW nx \in [Buffers -> Links], NEW pv \in [Buffers -> Links], NEW hd, NEW a,
         Linked(nx, pv, hd, a), Distinct(a), NEW b \in Buffers, ~Lies(b, a),
         NEW m \in 0 .. Len(a), NEW l, l = [prev |-> pv, next |-> nx, head |-> hd],
         NEW last, last = IF m = 0 THEN Null ELSE a[m]
  PROVE  LET s == Spliced(l, b, last)
         IN  /\ s.next \in [Buffers -> Links] /\ s.prev \in [Buffers -> Links]
             /\ Linked(s.next, s.prev, s.head, Ins(a, m, b))
             /\ \A c \in Buffers : c # b /\ ~Lies(c, a) => s.next[c] = nx[c]
<1> DEFINE s == Spliced(l, b, last)
           succ == IF last = Null THEN hd ELSE nx[last]
           z == Ins(a, m, b)
<1>1. a \in Seq(Buffers) /\ Len(a) \in Nat /\ m \in Nat /\ b # Null /\ Null \notin Buffers
  BY CardBNat DEF Linked, Follows
<1>2. \A i \in 1 .. Len(a) : a[i] \in Buffers /\ a[i] # b /\ a[i] # Null
  BY <1>1 DEF Lies
<1>3. last = Null <=> m = 0
  BY <1>2
<1>4. succ = IF m = Len(a) THEN Null ELSE a[m + 1]
  <2>1. CASE m = 0
    BY <1>1, <1>3, <2>1, EmptySeq DEF Linked, Follows
  <2>2. CASE m # 0
    <3>1. m \in 1 .. Len(a) /\ last = a[m]
      BY <2>2
    <3> QED BY <1>3, <2>2, <3>1 DEF Linked, Follows
  <2> QED BY <2>1, <2>2
<1>5. succ = Null <=> m = Len(a)
  BY <1>2, <1>4
<1>6. /\ s.next = IF last = Null THEN [nx EXCEPT ![b] = succ] ELSE [[nx EXCEPT ![b] = succ] EXCEPT ![last] = b]
      /\ s.prev = IF succ = Null THEN [pv EXCEPT ![b] = last] ELSE [[pv EXCEPT ![b] = last] EXCEPT ![succ] = b]
      /\ s.head = IF last = Null THEN b ELSE hd
  BY DEF Spliced
<1>7. succ \in Links /\ last \in Links
  BY <1>2, <1>4 DEF Links
<1>8. s.next \in [Buffers -> Links] /\ s.prev \in [Buffers -> Links]
  <2> DEFINE n1 == [nx EXCEPT ![b] = succ]
             p1 == [pv EXCEPT ![b] = last]
  <2>1. b \in Links /\ n1 \in [Buffers -> Links] /\ p1 \in [Buffers -> Links]
    BY <1>7, ExceptType DEF Links
  <2>2. s.next = (IF last = Null THEN n1 ELSE [n1 EXCEPT ![last] = b]) /\ s.prev = IF succ = Null THEN p1 ELSE [p1 EXCEPT ![succ] = b]
    BY <1>6
  <2> HIDE DEF s, succ, n1, p1
  <2> QED BY <2>1, <2>2, ExceptType
<1>9. /\ z \in Seq(Buffers) /\ Len(z) = Len(a) + 1 /\ z # <<>>
      /\ \A i \in 1 .. Len(a) + 1 : z[i] = IF i <= m THEN a[i] ELSE IF i = m + 1 THEN b ELSE a[i - 1]
  BY <1>1, InsSeq
<1>10. \A c \in Buffers : s.next[c] = IF last # Null /\ c = last THEN b ELSE IF c = b THEN succ ELSE nx[c]
  BY <1>6, <1>7 DEF Links
<1>11. \A c \in Buffers : s.prev[c] = IF succ # Null /\ c = succ THEN b ELSE IF c = b THEN last ELSE pv[c]
  BY <1>6, <1>7 DEF Links
<1>12. s.head = z[1]
  <2>1. hd = IF a = <<>> THEN Null ELSE a[1]
    BY DEF Linked, Follows
  <2>2. m # 0 => hd = a[1]
    BY <1>1, <2>1, EmptySeq
  <2> QED BY <1>1, <1>3, <1>6, <1>9, <2>2
<1> HIDE DEF s, succ, z
<1>13. ASSUME NEW i \in 1 .. Len(a) + 1 PROVE s.next[z[i]] = IF i = Len(a) + 1 THEN Null ELSE z[i + 1]
  <2>1. CASE i < m
    <3>1. z[i] = a[i] /\ z[i + 1] = a[i + 1] /\ i # Len(a) + 1 /\ i \in 1 .. Len(a) /\ m \in 1 .. Len(a)
      BY <1>1, <1>9, <2>1
    <3>2. a[i] # a[m] /\ nx[a[i]] = a[i + 1] /\ last = a[m]
      BY <2>1, <3>1 DEF Distinct, Linked, Follows
    <3> QED BY <1>2, <1>10, <3>1, <3>2
  <2>2. CASE i = m
    <3>1. z[i] = a[i] /\ z[i + 1] = b /\ i # Len(a) + 1 /\ i \in 1 .. Len(a) /\ last = a[i] /\ last # Null
      BY <1>1, <1>3, <1>9, <2>2
    <3> QED BY <1>2, <1>10, <3>1
  <2>3. CASE i = m + 1
    <3>1. z[i] = b /\ (i # Len(a) + 1 => z[i + 1] = a[m + 1]) /\ b # last
      BY <1>1, <1>2, <1>9, <2>3
    <3> QED BY <1>1, <1>4, <1>10, <2>3, <3>1
  <2>4. CASE i > m + 1
    <3>a. i - 1 \in 1 .. Len(a) /\ i - 1 # m /\ (i # Len(a) + 1 => i \in 1 .. Len(a) /\ i + 1 \in 1 .. Len(a) + 1)
      BY <1>1, <2>4
    <3>b. z[i] = a[i - 1]
      BY <1>1, <1>9, <2>4
    <3>c. i # Len(a) + 1 => z[i + 1] = a[i]
      <4>1. ASSUME i # Len(a) + 1 PROVE z[i + 1] = a[(i + 1) - 1]
        BY <1>1, <1>9, <2>4, <4>1, <3>a
      <4>2. (i + 1) - 1 = i
        OBVIOUS
      <4> QED BY <4>1, <4>2
    <3>1. /\ z[i] = a[i - 1] /\ (i # Len(a) + 1 => z[i + 1] = a[i]) /\ i - 1 \in 1 .. Len(a) /\ i - 1 # m
          /\ i # Len(a) + 1 => i \in 1 .. Len(a)
      BY <3>a, <3>b, <3>c
    <3>2. a[i - 1] # last /\ nx[a[i - 1]] = IF i - 1 = Len(a) THEN Null ELSE a[i]
      BY <1>2, <3>1 DEF Distinct, Linked, Follows
    <3> QED BY <1>2, <1>10, <3>1, <3>2
  <2> QED BY <1>1, <2>1, <2>2, <2>3, <2>4
<1>14. ASSUME NEW i \in 1 .. Len(a) + 1 PROVE s.prev[z[i]] = IF i = 1 THEN Null ELSE z[i - 1]
  <2>1. CASE i <= m
    <3>1. z[i] = a[i] /\ (i # 1 => z[i - 1] = a[i - 1]) /\ i \in 1 .. Len(a)
      BY <1>1, <1>9, <2>1
    <3>2. a[i] # succ /\ pv[a[i]] = IF i = 1 THEN Null ELSE a[i - 1]
      BY <1>1, <1>2, <1>4, <2>1, <3>1 DEF Distinct, Linked
    <3> QED BY <1>2, <1>11, <3>1, <3>2
  <2>2. CASE i = m + 1
    <3>1. z[i] = b /\ (i # 1 => z[i - 1] = a[m]) /\ b # succ
      BY <1>1, <1>2, <1>4, <1>9, <2>2
    <3> QED BY <1>1, <1>11, <2>2, <3>1
  <2>3. CASE i = m + 2
    <3>1. z[i] = a[m + 1] /\ z[i - 1] = b /\ m + 1 \in 1 .. Len(a) /\ i # 1
      BY <1>1, <1>9, <2>3
    <3>2. succ = a[m + 1] /\ succ # Null
      BY <1>1, <1>4, <1>5, <3>1
    <3> QED BY <1>2, <1>11, <3>1, <3>2
  <2>4. CASE i > m + 2
    <3>1. z[i] = a[i - 1] /\ z[i - 1] = a[i - 2] /\ i - 1 \in 1 .. Len(a) /\ i # 1 /\ i - 1 # m + 1 /\ i - 1 # 1
      BY <1>1, <1>9, <2>4
    <3>2. a[i - 1] # succ
      BY <1>1, <1>2, <1>4, <3>1 DEF Distinct
    <3>3. pv[a[i - 1]] = a[i - 2]
      BY <3>1 DEF Linked
    <3> QED BY <1>2, <1>11, <3>1, <3>2, <3>3
  <2> QED BY <1>1, <2>1, <2>2, <2>3, <2>4
<1>15. Linked(s.next, s.prev, s.head, z)
  BY <1>9, <1>12, <1>13, <1>14 DEF Linked, Follows
<1>16. ASSUME NEW c \in Buffers, c # b, ~Lies(c, a) PROVE s.next[c] = nx[c]
  <2>1. last # Null => c # last
    BY <1>1, <1>3, <1>16 DEF Lies
  <2> QED BY <1>10, <1>16, <2>1
<1> QED BY <1>8, <1>15, <1>16 DEF s, z

(* Taking the k-th out makes the list of the shorter sequence, with v put  *)
(* in front of the free list.                                              *)
LEMMA UnlinkedLinked ==
  ASSUME next \in [Buffers -> Links], prev \in [Buffers -> Links], free \in Links, NEW a,
         Linked(next, prev, head, a), Distinct(a), NEW k \in 1 .. Len(a)
  PROVE  LET u == Unlinked(a[k])
         IN  /\ u.next \in [Buffers -> Links] /\ u.prev \in [Buffers -> Links]
             /\ u = [prev |-> u.prev, next |-> u.next, head |-> u.head]
             /\ Linked(u.next, u.prev, u.head, Del(a, k))
<1> DEFINE u == Unlinked(a[k])
           v == a[k]
           z == Del(a, k)
<1>1. a \in Seq(Buffers) /\ Len(a) \in Nat /\ k \in Nat /\ v \in Buffers /\ Null \notin Buffers
  BY CardBNat DEF Linked, Follows
<1>n. 1 <= k /\ k <= Len(a) /\ (Len(a) = 1 \/ 1 \in 1 .. Len(a) - 1) /\ (k = 1 \/ (1 < k /\ Len(a) # 1))
  <2> DEFINE n == Len(a)
  <2>1. n \in Nat /\ k \in 1 .. n /\ k \in Nat
    BY <1>1
  <2> HIDE DEF n
  <2>2. n >= 1 /\ (n = 1 \/ n >= 2) /\ (k = 1 \/ (1 < k /\ n # 1))
    BY <2>1
  <2> QED BY <2>1, <2>2 DEF n
<1>2. \A i \in 1 .. Len(a) : a[i] \in Buffers /\ a[i] # Null
  BY <1>1
<1>3. /\ next[v] = IF k = Len(a) THEN Null ELSE a[k + 1]
      /\ prev[v] = IF k = 1 THEN Null ELSE a[k - 1]
  BY DEF Linked, Follows
<1>4. (next[v] = Null <=> k = Len(a)) /\ (prev[v] = Null <=> k = 1)
  <2>1. k # Len(a) => k + 1 \in 1 .. Len(a)
    BY <1>1
  <2>2. k # 1 => k - 1 \in 1 .. Len(a)
    BY <1>1
  <2> QED BY <1>2, <1>3, <2>1, <2>2
<1>5. /\ u.prev = [IF next[v] = Null THEN prev ELSE [prev EXCEPT ![next[v]] = prev[v]] EXCEPT ![v] = Null]
      /\ u.next = [IF prev[v] = Null THEN next ELSE [next EXCEPT ![prev[v]] = next[v]] EXCEPT ![v] = free]
      /\ u.head = IF prev[v] = Null THEN next[v] ELSE head
      /\ u = [prev |-> u.prev, next |-> u.next, head |-> u.head]
  BY DEF Unlinked
<1>6. u.next \in [Buffers -> Links] /\ u.prev \in [Buffers -> Links]
  <2> DEFINE p1 == IF next[v] = Null THEN prev ELSE [prev EXCEPT ![next[v]] = prev[v]]
             n1 == IF prev[v] = Null THEN next ELSE [next EXCEPT ![prev[v]] = next[v]]
  <2>1. Null \in Links /\ next[v] \in Links /\ prev[v] \in Links
    BY <1>1 DEF Links
  <2>2. p1 \in [Buffers -> Links] /\ n1 \in [Buffers -> Links]
    BY <2>1, ExceptType
  <2>3. u.prev = [p1 EXCEPT ![v] = Null] /\ u.next = [n1 EXCEPT ![v] = free]
    BY <1>5
  <2> HIDE DEF u, p1, n1
  <2> QED BY <2>1, <2>2, <2>3, ExceptType
<1>7. \A c \in Buffers \ {v} : u.next[c] = IF prev[v] # Null /\ c = prev[v] THEN next[v] ELSE next[c]
  BY <1>5
<1>8. \A c \in Buffers \ {v} : u.prev[c] = IF next[v] # Null /\ c = next[v] THEN prev[v] ELSE prev[c]
  BY <1>5
<1>9. /\ z \in Seq(Buffers) /\ Len(z) = Len(a) - 1 /\ (z = <<>> <=> Len(a) = 1)
      /\ \A i \in 1 .. Len(a) - 1 : z[i] = IF i < k THEN a[i] ELSE a[i + 1]
  BY <1>1, DelSeq
<1>10. u.head = IF z = <<>> THEN Null ELSE z[1]
  <2>1. head = a[1]
    BY <1>1, EmptySeq DEF Linked, Follows
  <2> HIDE DEF u, z
  <2>2. CASE k = 1
    <3>1. u.head = next[v]
      BY <1>4, <1>5, <2>2
    <3>2. Len(a) # 1 => z[1] = a[2]
      <4> SUFFICES ASSUME Len(a) # 1 PROVE z[1] = a[2]
        OBVIOUS
      <4>1. 1 \in 1 .. Len(a) - 1 /\ ~(1 < k)
        BY <1>n, <2>2
      <4>2. z[1] = a[1 + 1] /\ 1 + 1 = 2
        BY <1>9, <4>1
      <4> QED BY <4>2
    <3>3. next[v] = IF Len(a) = 1 THEN Null ELSE a[2]
      BY <1>3, <2>2
    <3> QED BY <1>9, <3>1, <3>2, <3>3
  <2>3. CASE k # 1
    <3>1. u.head = a[1]
      BY <1>4, <1>5, <2>1, <2>3
    <3>2. Len(a) # 1 /\ 1 \in 1 .. Len(a) - 1 /\ 1 < k
      BY <1>n, <2>3
    <3>3. z[1] = a[1] /\ z # <<>>
      BY <1>9, <3>2
    <3> QED BY <3>1, <3>3
  <2> QED BY <2>2, <2>3
<1> HIDE DEF u, z
<1>11. ASSUME NEW i \in 1 .. Len(a) - 1
       PROVE  /\ u.next[z[i]] = IF i = Len(a) - 1 THEN Null ELSE z[i + 1]
              /\ u.prev[z[i]] = IF i = 1 THEN Null ELSE z[i - 1]
  <2>1. CASE i < k - 1
    <3>1. /\ z[i] = a[i] /\ z[i + 1] = a[i + 1] /\ i # Len(a) - 1 /\ i \in 1 .. Len(a) /\ i # 1 => z[i - 1] = a[i - 1]
      BY <1>1, <1>9, <2>1
    <3>2. z[i] = a[i] /\ z[i + 1] = a[i + 1] /\ i # Len(a) - 1 /\ i \in 1 .. Len(a) /\ k - 1 \in 1 .. Len(a)
      BY <1>1, <1>9, <2>1
    <3>3. a[i] # v /\ a[i] # a[k - 1] /\ (k # Len(a) => a[i] # a[k + 1])
      BY <1>1, <2>1, <3>2 DEF Distinct
    <3>4. next[a[i]] = a[i + 1] /\ prev[a[i]] = IF i = 1 THEN Null ELSE a[i - 1]
      BY <1>1, <2>1, <3>2 DEF Linked, Follows
    <3>5. u.next[a[i]] = next[a[i]] /\ u.prev[a[i]] = prev[a[i]]
      BY <1>2, <1>3, <1>4, <1>7, <1>8, <3>2, <3>3
    <3>6. i # 1 => z[i - 1] = a[i - 1]
      BY <1>1, <1>9, <2>1
    <3> QED BY <3>2, <3>4, <3>5, <3>6
  <2>2. CASE i = k - 1
    <3>1. z[i] = a[i] /\ i \in 1 .. Len(a) /\ k # 1 /\ prev[v] = a[i] /\ a[i] # v
      BY <1>1, <1>3, <1>9, <2>2 DEF Distinct
    <3>2. u.next[a[i]] = next[v]
      BY <1>2, <1>4, <1>7, <3>1
    <3>3. i # Len(a) - 1 => z[i + 1] = a[k + 1]
      BY <1>1, <1>9, <2>2
    <3>4. u.next[z[i]] = IF i = Len(a) - 1 THEN Null ELSE z[i + 1]
      BY <1>1, <1>3, <2>2, <3>1, <3>2, <3>3
    <3>5. k # Len(a) => a[i] # a[k + 1]
      BY <1>1, <2>2, <3>1 DEF Distinct
    <3>6. u.prev[a[i]] = prev[a[i]]
      BY <1>2, <1>3, <1>4, <1>8, <3>1, <3>5
    <3>7. prev[a[i]] = IF i = 1 THEN Null ELSE a[i - 1]
      BY <3>1 DEF Linked
    <3>8. i # 1 => z[i - 1] = a[i - 1]
      BY <1>1, <1>9, <2>2
    <3> QED BY <3>1, <3>4, <3>6, <3>7, <3>8
  <2>3. CASE i = k
    <3>1. z[i] = a[k + 1] /\ k + 1 \in 1 .. Len(a) /\ k # Len(a) /\ next[v] = a[k + 1] /\ a[k + 1] # v
      BY <1>1, <1>3, <1>9, <2>3 DEF Distinct
    <3>2. u.prev[a[k + 1]] = prev[v]
      BY <1>2, <1>4, <1>8, <3>1
    <3>3. i # 1 => z[i - 1] = a[k - 1]
      BY <1>1, <1>9, <2>3
    <3>4. k # 1 => a[k + 1] # a[k - 1]
      BY <1>1, <3>1 DEF Distinct
    <3>5. u.next[a[k + 1]] = next[a[k + 1]]
      BY <1>2, <1>3, <1>4, <1>7, <3>1, <3>4
    <3>6. next[a[k + 1]] = IF k + 1 = Len(a) THEN Null ELSE a[k + 1 + 1]
      BY <3>1 DEF Linked, Follows
    <3>7. i # Len(a) - 1 => z[i + 1] = a[k + 1 + 1]
      BY <1>1, <1>9, <2>3
    <3> QED BY <1>1, <1>3, <2>3, <3>1, <3>2, <3>3, <3>5, <3>6, <3>7
  <2>4. CASE i > k
    <3>1. z[i] = a[i + 1] /\ z[i - 1] = a[i] /\ i + 1 \in 1 .. Len(a) /\ i # 1 /\ k # Len(a)
      BY <1>1, <1>9, <2>4
    <3>2. i # Len(a) - 1 => z[i + 1] = a[i + 1 + 1]
      <4>1. i # Len(a) - 1 => i + 1 \in 1 .. Len(a) - 1 /\ ~(i + 1 < k)
        BY <1>1, <2>4
      <4> QED BY <1>9, <4>1
    <3>3. a[i + 1] # v /\ a[i + 1] # a[k + 1] /\ (k # 1 => a[i + 1] # a[k - 1])
      BY <1>1, <2>4, <3>1 DEF Distinct
    <3>4. next[a[i + 1]] = IF i + 1 = Len(a) THEN Null ELSE a[i + 1 + 1]
      BY <3>1 DEF Linked, Follows
    <3>5. prev[a[i + 1]] = a[i]
      BY <1>1, <2>4, <3>1 DEF Linked
    <3>6. u.next[a[i + 1]] = next[a[i + 1]] /\ u.prev[a[i + 1]] = prev[a[i + 1]]
      BY <1>2, <1>3, <1>4, <1>7, <1>8, <3>1, <3>3
    <3> QED BY <1>1, <3>1, <3>2, <3>4, <3>5, <3>6
  <2> QED BY <1>1, <2>1, <2>2, <2>3, <2>4
<1>12. Linked(u.next, u.prev, u.head, z)
  BY <1>9, <1>10, <1>11 DEF Linked, Follows
<1> QED BY <1>5, <1>6, <1>12 DEF u, z

-----------------------------------------------------------------------------
(* The two lists as sequences: a in use, by address, and f free.           *)
Ordered(w, s) ==
  /\ \A i \in 1 .. Len(s) : w[s[i]] \in {Aligned(x) : x \in SampleAddrs}
  /\ \A i, j \in 1 .. Len(s) : i < j => w[s[i]] <= w[s[j]]

Lists(a, f) ==
  /\ Linked(next, prev, head, a) /\ Distinct(a)
  /\ Follows(next, free, f) /\ Distinct(f)
  /\ \A b \in Buffers : Lies(b, a) <=> ~Lies(b, f)
  /\ Ordered(sampleAddr, a)
  /\ \A i \in 1 .. Len(f) : keep[f[i]] = 0

Ages ==
  /\ keep \in [Buffers -> Nat] /\ idle \in [Buffers -> Nat]
  /\ \A b \in Buffers : keep[b] + idle[b] = FrameLag + 1

ListTypes ==
  /\ next \in [Buffers -> Links] /\ prev \in [Buffers -> Links]
  /\ sampleAddr \in [Buffers -> Addrs \cup {Invalid}]

ListInv == ListTypes /\ Ages /\ \E a, f : Lists(a, f)

LEMMA AlignedDown ==
  ASSUME NEW x \in Nat, NEW y \in Nat
  PROVE  Aligned(x) \in Nat /\ Aligned(x) <= x /\ (Aligned(x) <= y => Aligned(x) <= Aligned(y))
BY DEF Aligned

LEMMA SampleInAddrs ==
  ASSUME NEW x \in SampleAddrs
  PROVE  x \in Nat /\ Aligned(x) \in Nat /\ Aligned(x) \in Addrs
BY CacheAssumption, AlignedDown DEF CacheAssumption, Aligned

LEMMA DistinctIn ==
  ASSUME NEW S, IsFiniteSet(S), NEW s \in Seq(S), Distinct(s)
  PROVE  Len(s) <= Cardinality(S)
<1> DEFINE D == 1 .. Len(s)
           g == [i \in D |-> s[i]]
<1>1. Len(s) \in Nat
  OBVIOUS
<1>2. IsFiniteSet(D) /\ Cardinality(D) = Len(s)
  BY <1>1, FS_Interval
<1>3. g \in Injection(D, S)
  BY DEF Injection, IsInjective, Distinct
<1> HIDE DEF g, D
<1> QED BY <1>1, <1>2, <1>3, FS_Injection

LEMMA DistinctLen ==
  ASSUME NEW s \in Seq(Buffers), Distinct(s)
  PROVE  Len(s) <= CardB
BY CacheAssumption, DistinctIn DEF CacheAssumption, CardB

LEMMA InsLies ==
  ASSUME NEW s \in Seq(Buffers), NEW m \in 0 .. Len(s), NEW b \in Buffers, Distinct(s), ~Lies(b, s)
  PROVE  /\ Distinct(Ins(s, m, b))
         /\ \A c : Lies(c, Ins(s, m, b)) <=> c = b \/ Lies(c, s)
<1> DEFINE z == Ins(s, m, b)
<1>1. /\ Len(z) = Len(s) + 1
      /\ \A i \in 1 .. Len(s) + 1 : z[i] = IF i <= m THEN s[i] ELSE IF i = m + 1 THEN b ELSE s[i - 1]
  BY InsSeq
<1>2. \A i \in 1 .. Len(s) : s[i] # b
  BY DEF Lies
<1>3. \A i, j \in 1 .. Len(s) : s[i] = s[j] => i = j
  BY DEF Distinct
<1> HIDE DEF z
<1>4. ASSUME NEW i \in 1 .. Len(z), NEW j \in 1 .. Len(z), z[i] = z[j] PROVE i = j
  <2> DEFINE Old(q) == IF q <= m THEN q ELSE q - 1
  <2>1. \A q \in 1 .. Len(z) : q # m + 1 => Old(q) \in 1 .. Len(s) /\ z[q] = s[Old(q)]
    BY <1>1
  <2>2. z[m + 1] = b /\ m + 1 \in 1 .. Len(z)
    BY <1>1
  <2>3. CASE i = m + 1 \/ j = m + 1
    BY <1>2, <1>4, <2>1, <2>2, <2>3
  <2>4. CASE i # m + 1 /\ j # m + 1
    <3>1. Old(i) = Old(j)
      BY <1>3, <1>4, <2>1, <2>4
    <3> QED BY <1>1, <2>4, <3>1
  <2> QED BY <2>3, <2>4
<1>5. ASSUME NEW c PROVE Lies(c, z) <=> c = b \/ Lies(c, s)
  <2>1. ASSUME Lies(c, z) PROVE c = b \/ Lies(c, s)
    <3>1. PICK i \in 1 .. Len(s) + 1 : z[i] = c
      BY <1>1, <2>1 DEF Lies
    <3>2. i # m + 1 => (IF i <= m THEN i ELSE i - 1) \in 1 .. Len(s)
      BY <3>1
    <3> QED BY <1>1, <3>1, <3>2 DEF Lies
  <2>2. Lies(b, z)
    <3>1. m + 1 \in 1 .. Len(s) + 1 /\ ~(m + 1 <= m)
      OBVIOUS
    <3> QED BY <1>1, <3>1 DEF Lies
  <2>3. ASSUME Lies(c, s) PROVE Lies(c, z)
    <3>1. PICK i \in 1 .. Len(s) : s[i] = c
      BY <2>3 DEF Lies
    <3>2. CASE i <= m
      <4>1. i \in 1 .. Len(s) + 1 /\ z[i] = c
        BY <1>1, <3>1, <3>2
      <4> QED BY <1>1, <4>1 DEF Lies
    <3>3. CASE ~(i <= m)
      <4>1. i + 1 \in 1 .. Len(s) + 1 /\ ~(i + 1 <= m) /\ i + 1 # m + 1 /\ (i + 1) - 1 = i
        BY <3>1, <3>3
      <4>2. z[i + 1] = s[(i + 1) - 1]
        BY <1>1, <4>1
      <4> QED BY <1>1, <3>1, <4>1, <4>2 DEF Lies
    <3> QED BY <3>2, <3>3
  <2> QED BY <2>1, <2>2, <2>3
<1> QED BY <1>4, <1>5 DEF Distinct, z

LEMMA DelLies ==
  ASSUME NEW s \in Seq(Buffers), NEW k \in 1 .. Len(s), Distinct(s)
  PROVE  /\ Distinct(Del(s, k))
         /\ \A c : Lies(c, Del(s, k)) <=> c # s[k] /\ Lies(c, s)
<1> DEFINE z == Del(s, k)
           Old(q) == IF q < k THEN q ELSE q + 1
<1>1. /\ Len(z) = Len(s) - 1
      /\ \A i \in 1 .. Len(s) - 1 : z[i] = s[Old(i)]
  BY DelSeq
<1>2. \A i \in 1 .. Len(s) - 1 : Old(i) \in 1 .. Len(s) /\ Old(i) # k
  OBVIOUS
<1>3. \A i, j \in 1 .. Len(s) - 1 : Old(i) = Old(j) => i = j
  OBVIOUS
<1> HIDE DEF z
<1>4. \A i, j \in 1 .. Len(s) : s[i] = s[j] => i = j
  BY DEF Distinct
<1>5. ASSUME NEW i \in 1 .. Len(z), NEW j \in 1 .. Len(z), z[i] = z[j] PROVE i = j
  <2> HIDE DEF Old
  <2>1. Old(i) = Old(j)
    BY <1>1, <1>2, <1>4, <1>5
  <2> QED BY <1>1, <1>3, <2>1
<1>6. ASSUME NEW c, Lies(c, z) PROVE c # s[k] /\ Lies(c, s)
  <2>1. PICK i \in 1 .. Len(s) - 1 : z[i] = c
    BY <1>1, <1>6 DEF Lies
  <2> HIDE DEF Old
  <2> QED BY <1>1, <1>2, <1>4, <2>1 DEF Lies
<1>7. ASSUME NEW c, c # s[k], Lies(c, s) PROVE Lies(c, z)
  <2>1. PICK i \in 1 .. Len(s) : s[i] = c
    BY <1>7 DEF Lies
  <2>2. i # k
    BY <1>7, <2>1
  <2> DEFINE q == IF i < k THEN i ELSE i - 1
  <2>3. q \in 1 .. Len(s) - 1 /\ Old(q) = i
    BY <2>2
  <2> HIDE DEF q, Old
  <2> QED BY <1>1, <2>1, <2>3 DEF Lies
<1> QED BY <1>5, <1>6, <1>7 DEF Distinct, z

LEMMA FirstIn ==
  ASSUME NEW S \in SUBSET Nat, S # {}
  PROVE  First(S) \in S /\ \A j \in S : First(S) <= j
<1>1. \E i \in S : \A j \in S : i <= j
  BY LeastNatural
<1> QED BY <1>1 DEF First

LEMMA InsOrdered ==
  ASSUME NEW s \in Seq(Buffers), NEW m \in 0 .. Len(s), NEW b \in Buffers, ~Lies(b, s),
         sampleAddr \in [Buffers -> Addrs \cup {Invalid}], Ordered(sampleAddr, s), NEW x \in SampleAddrs,
         \A i \in 1 .. m : sampleAddr[s[i]] <= x,
         \A i \in m + 1 .. Len(s) : x < sampleAddr[s[i]]
  PROVE  Ordered([sampleAddr EXCEPT ![b] = Aligned(x)], Ins(s, m, b))
<1> DEFINE z == Ins(s, m, b)
           w == [sampleAddr EXCEPT ![b] = Aligned(x)]
           Old(q) == IF q <= m THEN q ELSE q - 1
           V(i) == sampleAddr[s[i]]
<1>1. /\ Len(z) = Len(s) + 1 /\ Len(s) \in Nat
      /\ \A i \in 1 .. Len(s) + 1 : z[i] = IF i <= m THEN s[i] ELSE IF i = m + 1 THEN b ELSE s[i - 1]
  BY InsSeq
<1>2. \A i \in 1 .. Len(s) : s[i] \in Buffers /\ s[i] # b
  BY DEF Lies
<1>3. w[b] = Aligned(x) /\ \A i \in 1 .. Len(s) : w[s[i]] = V(i)
  BY <1>2
<1>4. \A i \in 1 .. Len(s) : \E y \in SampleAddrs : V(i) = Aligned(y)
  BY DEF Ordered
<1>5. \A i \in 1 .. Len(s) : V(i) \in Nat
  BY <1>4, SampleInAddrs
<1>6. \A i, j \in 1 .. Len(s) : i < j => V(i) <= V(j)
  BY DEF Ordered
<1>7. \A i \in 1 .. Len(s) : i <= m => V(i) <= Aligned(x)
  <2> SUFFICES ASSUME NEW i \in 1 .. Len(s), i <= m PROVE V(i) <= Aligned(x)
    OBVIOUS
  <2>1. PICK y \in SampleAddrs : V(i) = Aligned(y)
    BY <1>4
  <2>2. Aligned(y) <= x
    BY <2>1
  <2> QED BY <2>1, <2>2, AlignedDown, SampleInAddrs
<1>8. \A i \in 1 .. Len(s) : ~(i <= m) => Aligned(x) <= V(i)
  <2> SUFFICES ASSUME NEW i \in 1 .. Len(s), ~(i <= m) PROVE Aligned(x) <= V(i)
    OBVIOUS
  <2>1. x < V(i)
    OBVIOUS
  <2> QED BY <1>5, <2>1, AlignedDown, SampleInAddrs
<1> HIDE DEF z, w, V
<1>9. \A q \in 1 .. Len(z) : q # m + 1 => Old(q) \in 1 .. Len(s) /\ w[z[q]] = V(Old(q)) /\ (Old(q) <= m <=> q <= m)
  BY <1>1, <1>3
<1>10. w[z[m + 1]] = Aligned(x)
  BY <1>1, <1>3
<1>11. ASSUME NEW q \in 1 .. Len(z) PROVE w[z[q]] \in {Aligned(y) : y \in SampleAddrs}
  <2> HIDE DEF Old
  <2> QED BY <1>4, <1>9, <1>10
<1>12. ASSUME NEW q \in 1 .. Len(z), NEW r \in 1 .. Len(z), q < r PROVE w[z[q]] <= w[z[r]]
  <2>1. CASE q # m + 1 /\ r # m + 1
    <3>1. Old(q) < Old(r)
      BY <1>1, <1>12, <2>1
    <3> HIDE DEF Old
    <3> QED BY <1>6, <1>9, <2>1, <3>1
  <2>2. CASE q = m + 1
    <3>1. r # m + 1 /\ ~(r <= m)
      BY <1>1, <1>12, <2>2
    <3> HIDE DEF Old
    <3> QED BY <1>8, <1>9, <1>10, <2>2, <3>1
  <2>3. CASE r = m + 1
    <3>1. q # m + 1 /\ q <= m
      BY <1>1, <1>12, <2>3
    <3> HIDE DEF Old
    <3> QED BY <1>7, <1>9, <1>10, <2>3, <3>1
  <2> QED BY <2>1, <2>2, <2>3
<1> QED BY <1>11, <1>12 DEF Ordered, z, w

LEMMA DelOrdered ==
  ASSUME NEW s \in Seq(Buffers), NEW k \in 1 .. Len(s), Ordered(sampleAddr, s)
  PROVE  Ordered(sampleAddr, Del(s, k))
<1> DEFINE z == Del(s, k)
           Old(q) == IF q < k THEN q ELSE q + 1
<1>1. /\ Len(z) = Len(s) - 1
      /\ \A i \in 1 .. Len(s) - 1 : z[i] = s[Old(i)]
  BY DelSeq
<1>2. \A i \in 1 .. Len(s) - 1 : Old(i) \in 1 .. Len(s)
  OBVIOUS
<1>3. \A i, j \in 1 .. Len(s) - 1 : i < j => Old(i) < Old(j)
  OBVIOUS
<1> HIDE DEF z, Old
<1> QED BY <1>1, <1>2, <1>3 DEF Ordered, z

(* Lookups see the sequence.                                               *)
LEMMA ActiveIs ==
  ASSUME ListTypes, NEW a, NEW f, Lists(a, f)
  PROVE  /\ Active = a /\ Ends(next, head) /\ Chain(next, free) = f /\ Ends(next, free)
         /\ a \in Seq(Buffers) /\ f \in Seq(Buffers)
<1>1. a \in Seq(Buffers) /\ f \in Seq(Buffers) /\ Follows(next, head, a) /\ Follows(next, free, f)
  BY DEF Lists, Linked, Follows
<1>2. Len(a) <= CardB /\ Len(f) <= CardB
  BY <1>1, DistinctLen DEF Lists
<1> QED BY <1>1, <1>2, ChainFollows DEF ListTypes, Active

(* The scan stops behind the last buffer that does not start after addr.   *)
LEMMA ScanStops ==
  ASSUME ListTypes, NEW a, NEW f, Lists(a, f), NEW x \in SampleAddrs, NEW len
  PROVE  \E m \in 0 .. Len(a) :
           /\ \A i \in 1 .. m : sampleAddr[a[i]] <= x
           /\ \A i \in m + 1 .. Len(a) : x < sampleAddr[a[i]]
           /\ Scan(x, len).last = IF m = 0 THEN Null ELSE a[m]
           /\ Scan(x, len).hit # Null => Lies(Scan(x, len).hit, a)
<1>1. Active = a /\ a \in Seq(Buffers)
  BY ActiveIs
<1> DEFINE after == {i \in DOMAIN a : sampleAddr[a[i]] > x}
           seen == IF after = {} THEN Len(a) ELSE First(after) - 1
           hits == {i \in 1 .. seen : Covers(a[i], x, len)}
<1>2. /\ Scan(x, len).hit = IF hits = {} THEN Null ELSE a[First(hits)]
      /\ Scan(x, len).last = IF seen = 0 THEN Null ELSE a[seen]
  BY <1>1 DEF Scan
<1>3. DOMAIN a = 1 .. Len(a) /\ Len(a) \in Nat
  BY <1>1
<1>4. \A i \in 1 .. Len(a) : sampleAddr[a[i]] \in Nat
  BY SampleInAddrs DEF Lists, Ordered
<1>5. x \in Nat
  BY SampleInAddrs
<1>6. \A i, j \in 1 .. Len(a) : i < j => sampleAddr[a[i]] <= sampleAddr[a[j]]
  BY DEF Lists, Ordered
<1>7. seen \in 0 .. Len(a) /\ (hits # {} => First(hits) \in 1 .. seen)
  <2>1. after # {} => First(after) \in 1 .. Len(a)
    <3>1. after \subseteq 1 .. Len(a) /\ after \in SUBSET Nat
      BY <1>3
    <3> HIDE DEF after
    <3> QED BY <3>1, FirstIn
  <2>2. seen \in 0 .. Len(a)
    BY <1>3, <2>1
  <2>3. hits \subseteq 1 .. seen /\ hits \in SUBSET Nat
    BY <2>2
  <2> HIDE DEF seen, hits
  <2> QED BY <2>2, <2>3, FirstIn
<1>8. Scan(x, len).hit # Null => Lies(Scan(x, len).hit, a)
  <2> HIDE DEF seen, hits
  <2> QED BY <1>2, <1>7 DEF Lies
<1>9. /\ \A i \in 1 .. seen : sampleAddr[a[i]] <= x
      /\ \A i \in seen + 1 .. Len(a) : x < sampleAddr[a[i]]
  <2>1. CASE after = {}
    BY <1>3, <1>4, <1>5, <2>1
  <2>2. CASE after # {}
    <3> DEFINE first == First(after)
    <3>1. first \in after /\ (\A j \in after : first <= j) /\ seen = first - 1
      <4>1. after \in SUBSET Nat
        BY <1>3
      <4>2. seen = first - 1
        BY <2>2
      <4> HIDE DEF after, seen
      <4> QED BY <2>2, <4>1, <4>2, FirstIn
    <3> HIDE DEF first
    <3>2. ASSUME NEW i \in 1 .. seen PROVE sampleAddr[a[i]] <= x
      <4>1. i \in 1 .. Len(a) /\ i \notin after
        BY <1>3, <3>1
      <4> QED BY <1>3, <1>4, <1>5, <4>1
    <3>3. ASSUME NEW i \in seen + 1 .. Len(a) PROVE x < sampleAddr[a[i]]
      <4>1. first \in 1 .. Len(a) /\ i \in 1 .. Len(a) /\ first <= i /\ x < sampleAddr[a[first]]
        BY <1>3, <1>4, <1>5, <3>1
      <4>2. sampleAddr[a[first]] <= sampleAddr[a[i]]
        <5>1. first = i \/ first < i
          BY <4>1
        <5> QED BY <1>4, <1>6, <4>1, <5>1
      <4> QED BY <1>4, <1>5, <4>1, <4>2
    <3> QED BY <3>2, <3>3
  <2> QED BY <2>1, <2>2
<1> HIDE DEF seen, hits, after
<1> QED BY <1>2, <1>7, <1>8, <1>9

(* The victim is on the list in use, and no buffer there was kept less.    *)
LEMMA OldestIn ==
  ASSUME ListTypes, Ages, NEW a, NEW f, Lists(a, f), a # <<>>
  PROVE  \E k \in 1 .. Len(a) : Oldest = a[k] /\ \A j \in 1 .. Len(a) : keep[a[k]] <= keep[a[j]]
<1>1. Active = a /\ a \in Seq(Buffers)
  BY ActiveIs
<1> DEFINE lowest == {i \in DOMAIN a : \A j \in DOMAIN a : keep[a[i]] <= keep[a[j]]}
           K == {keep[a[i]] : i \in 1 .. Len(a)}
<1>2. DOMAIN a = 1 .. Len(a) /\ Len(a) \in Nat /\ 1 \in 1 .. Len(a) /\ \A i \in 1 .. Len(a) : keep[a[i]] \in Nat
  BY <1>1, EmptySeq DEF Ages
<1>3. K \in SUBSET Nat /\ K # {}
  BY <1>2
<1>4. PICK q \in K : \A r \in K : q <= r
  <2> HIDE DEF K
  <2> QED BY <1>3, LeastNatural
<1>5. lowest # {} /\ lowest \in SUBSET Nat
  <2>1. PICK i \in 1 .. Len(a) : q = keep[a[i]]
    OBVIOUS
  <2>2. \A j \in 1 .. Len(a) : keep[a[j]] \in K
    OBVIOUS
  <2>3. \A j \in 1 .. Len(a) : keep[a[i]] <= keep[a[j]]
    BY <1>4, <2>1, <2>2
  <2>4. i \in lowest
    BY ONLY <1>2, <2>3
  <2>5. lowest \in SUBSET Nat
    BY ONLY <1>2
  <2> HIDE DEF lowest
  <2> QED BY <2>4, <2>5
<1>6. Oldest = a[First(lowest)]
  BY <1>1 DEF Oldest
<1>7. First(lowest) \in lowest
  <2> HIDE DEF lowest
  <2> QED BY <1>5, FirstIn
<1> QED BY <1>2, <1>6, <1>7

-----------------------------------------------------------------------------
(* The steps of the audio thread on the lists.                             *)
Evicts == \A b \in Buffers : sampleAddr'[b] # sampleAddr[b] => \A c \in Buffers : idle[c] <= idle[b]

LEMMA FreshAges ==
  ASSUME Ages, NEW b \in Buffers, keep' = [keep EXCEPT ![b] = Fresh], idle' = [idle EXCEPT ![b] = 0]
  PROVE  Ages'
<1>1. FrameLag \in Nat
  BY CacheAssumption DEF CacheAssumption
<1> QED BY <1>1 DEF Ages, Fresh

LEMMA ClaimTypes ==
  ASSUME ListTypes, NEW b \in Buffers, NEW x \in SampleAddrs, Claim(b, x)
  PROVE  sampleAddr' = [sampleAddr EXCEPT ![b] = Aligned(x)] /\ sampleAddr' \in [Buffers -> Addrs \cup {Invalid}]
BY SampleInAddrs DEF Claim, ListTypes

LEMMA FetchHitLists ==
  ASSUME ListInv, NEW x \in SampleAddrs, NEW len, FetchHit(Scan(x, len).hit)
  PROVE  ListInv' /\ Evicts
<1> DEFINE b == Scan(x, len).hit
<1>1. PICK a, f : Lists(a, f)
  BY DEF ListInv
<1>2. b # Null /\ Lies(b, a)
  BY <1>1, ScanStops DEF FetchHit, ListInv
<1> HIDE DEF b
<1>3. b \in Buffers
  BY <1>1, <1>2 DEF Lies, Lists, Linked, Follows
<1>4. ~Lies(b, f)
  BY <1>1, <1>2, <1>3 DEF Lists
<1>5. /\ keep' = [keep EXCEPT ![b] = Fresh] /\ idle' = [idle EXCEPT ![b] = 0]
      /\ UNCHANGED <<next, prev, head, free, sampleAddr>>
  BY DEF FetchHit, lists, b
<1>6. Ages'
  BY <1>3, <1>5, FreshAges DEF ListInv
<1>7. \A i \in 1 .. Len(f) : keep'[f[i]] = keep[f[i]]
  BY <1>1, <1>4, <1>5 DEF Lies, Lists, Follows, ListInv, Ages
<1>8. Lists(a, f)'
  BY <1>1, <1>5, <1>7 DEF Lists, Linked, Follows, Distinct, Lies, Ordered, Aligned
<1> QED BY <1>5, <1>6, <1>8 DEF ListInv, ListTypes, Evicts

LEMMA FetchFreeLists ==
  ASSUME ListInv, NEW x \in SampleAddrs, NEW len, FetchFree(x, Scan(x, len).last)
  PROVE  ListInv' /\ Evicts
<1> DEFINE last == Scan(x, len).last
           b == free
           l == [prev |-> prev, next |-> next, head |-> head]
           s == Spliced(l, b, last)
<1>1. PICK a, f : Lists(a, f)
  BY DEF ListInv
<1>2. PICK m \in 0 .. Len(a) :
        /\ \A i \in 1 .. m : sampleAddr[a[i]] <= x
        /\ \A i \in m + 1 .. Len(a) : x < sampleAddr[a[i]]
        /\ last = IF m = 0 THEN Null ELSE a[m]
  BY <1>1, ScanStops DEF ListInv
<1>3. /\ b \in Buffers /\ free' = next[b] /\ Claim(b, x)
      /\ prev' = s.prev /\ next' = s.next /\ head' = s.head
  BY DEF FetchFree
<1> DEFINE z == Ins(a, m, b)
           g == Del(f, 1)
<1>4. /\ a \in Seq(Buffers) /\ f \in Seq(Buffers) /\ Distinct(a) /\ Distinct(f) /\ Linked(next, prev, head, a)
      /\ Len(a) \in Nat /\ Len(f) \in Nat /\ Ordered(sampleAddr, a)
  BY <1>1 DEF Lists, Linked, Follows
<1>5. f # <<>> /\ f[1] = b /\ 1 \in 1 .. Len(f)
  BY <1>1, <1>3, <1>4, CardBNat, EmptySeq DEF Lists, Follows
<1>6. Lies(b, f) /\ ~Lies(b, a)
  BY <1>1, <1>3, <1>5 DEF Lies, Lists
<1>7. next \in [Buffers -> Links] /\ prev \in [Buffers -> Links] /\ sampleAddr \in [Buffers -> Addrs \cup {Invalid}]
  BY DEF ListInv, ListTypes
<1> HIDE DEF last, b
<1>8. /\ s.next \in [Buffers -> Links] /\ s.prev \in [Buffers -> Links]
      /\ Linked(s.next, s.prev, s.head, z)
      /\ \A c \in Buffers : c # b /\ ~Lies(c, a) => s.next[c] = next[c]
  <2>1. l = [prev |-> prev, next |-> next, head |-> head]
    OBVIOUS
  <2> HIDE DEF l
  <2> QED BY <1>2, <1>3, <1>4, <1>6, <1>7, <2>1, SplicedLinked
<1> HIDE DEF s
<1>9. Linked(next', prev', head', z)
  BY <1>3, <1>8
<1>10. Distinct(z) /\ \A c : Lies(c, z) <=> c = b \/ Lies(c, a)
  BY <1>3, <1>4, <1>6, InsLies
<1>11. Distinct(g) /\ \A c : Lies(c, g) <=> c # b /\ Lies(c, f)
  BY <1>4, <1>5, DelLies
<1>12. /\ g \in Seq(Buffers) /\ Len(g) = Len(f) - 1 /\ (g = <<>> <=> Len(f) = 1)
       /\ \A i \in 1 .. Len(f) - 1 : g[i] = IF i < 1 THEN f[i] ELSE f[i + 1]
  BY <1>4, <1>5, DelSeq
<1>13. \A i \in 1 .. Len(f) : next[f[i]] = IF i = Len(f) THEN Null ELSE f[i + 1]
  BY <1>1 DEF Lists, Follows
<1> HIDE DEF g, z
<1>14. \A i \in 1 .. Len(g) : g[i] = f[i + 1] /\ g[i] \in Buffers /\ g[i] # b /\ ~Lies(g[i], a) /\ Lies(g[i], f)
  <2> SUFFICES ASSUME NEW i \in 1 .. Len(g)
               PROVE  g[i] = f[i + 1] /\ g[i] \in Buffers /\ g[i] # b /\ ~Lies(g[i], a) /\ Lies(g[i], f)
    OBVIOUS
  <2>1. g[i] = f[i + 1] /\ g[i] \in Buffers
    BY <1>4, <1>12
  <2>2. Lies(g[i], g)
    BY DEF Lies
  <2>3. g[i] # b /\ Lies(g[i], f)
    BY <1>11, <2>2
  <2> QED BY <1>1, <2>1, <2>3 DEF Lists
<1>15. Follows(next', free', g)
  <2>1. free' = IF g = <<>> THEN Null ELSE g[1]
    <3>1. free' = IF 1 = Len(f) THEN Null ELSE f[1 + 1]
      BY <1>3, <1>5, <1>13
    <3>2. 1 # Len(f) => 1 \in 1 .. Len(g)
      BY <1>5, <1>12
    <3> QED BY <1>12, <1>14, <3>1, <3>2
  <2>2. ASSUME NEW i \in 1 .. Len(g) PROVE next'[g[i]] = IF i = Len(g) THEN Null ELSE g[i + 1]
    <3>1. next'[g[i]] = next[f[i + 1]]
      BY <1>3, <1>8, <1>14
    <3>2. next[f[i + 1]] = IF i + 1 = Len(f) THEN Null ELSE f[i + 1 + 1]
      <4>1. i + 1 \in 1 .. Len(f)
        BY <1>4, <1>12
      <4> QED BY <1>13, <4>1
    <3>3. i # Len(g) => g[i + 1] = f[i + 1 + 1]
      <4>1. i # Len(g) => i + 1 \in 1 .. Len(g)
        BY <1>4, <1>12
      <4> QED BY <1>14, <4>1
    <3> QED BY <1>4, <1>12, <3>1, <3>2, <3>3
  <2> QED BY <1>12, <2>1, <2>2 DEF Follows
<1>16. /\ sampleAddr' = [sampleAddr EXCEPT ![b] = Aligned(x)] /\ sampleAddr' \in [Buffers -> Addrs \cup {Invalid}]
       /\ keep' = [keep EXCEPT ![b] = Fresh] /\ idle' = [idle EXCEPT ![b] = 0]
  BY <1>3, ClaimTypes DEF Claim, ListInv
<1>17. Ordered(sampleAddr', z)
  BY <1>2, <1>3, <1>4, <1>6, <1>7, <1>16, InsOrdered DEF z
<1>18. \A i \in 1 .. Len(g) : keep'[g[i]] = 0
  <2>1. \A c : Lies(c, f) => keep[c] = 0
    BY <1>1 DEF Lists, Lies
  <2> QED BY <1>14, <1>16, <2>1 DEF ListInv, Ages
<1>19. Ages'
  BY <1>3, <1>16, FreshAges DEF ListInv
<1>20. \A c \in Buffers : Lies(c, z) <=> ~Lies(c, g)
  BY <1>1, <1>6, <1>10, <1>11 DEF Lists
<1>s. PICK a1, f1 : a1 = z /\ f1 = g
  OBVIOUS
<1>21. Lists(a1, f1)'
  BY <1>s, <1>9, <1>10, <1>11, <1>15, <1>17, <1>18, <1>20
     DEF Lists, Linked, Follows, Distinct, Lies, Ordered, Aligned
<1>22. ListInv'
  BY <1>3, <1>8, <1>16, <1>19, <1>21 DEF ListInv, ListTypes
<1>23. Evicts
  <2>1. keep[b] = 0
    BY <1>1, <1>6 DEF Lists, Lies
  <2>2. \A c \in Buffers : idle[c] <= idle[b]
    <3>1. FrameLag \in Nat
      BY CacheAssumption DEF CacheAssumption
    <3> QED BY <1>3, <2>1, <3>1 DEF ListInv, Ages
  <2>3. \A c \in Buffers : sampleAddr'[c] # sampleAddr[c] => c = b
    BY <1>7, <1>16
  <2> QED BY <2>2, <2>3 DEF Evicts
<1> QED BY <1>22, <1>23

LEMMA FetchEvictLists ==
  ASSUME ListInv, NEW x \in SampleAddrs, NEW len, FetchEvict(x, Scan(x, len).last)
  PROVE  ListInv' /\ Evicts
<1> DEFINE last == Scan(x, len).last
<1>1. PICK a, f : Lists(a, f)
  BY DEF ListInv
<1>2. PICK m \in 0 .. Len(a) :
        /\ \A i \in 1 .. m : sampleAddr[a[i]] <= x
        /\ \A i \in m + 1 .. Len(a) : x < sampleAddr[a[i]]
        /\ last = IF m = 0 THEN Null ELSE a[m]
  BY <1>1, ScanStops DEF ListInv
<1>3. PICK v \in Buffers \cap {Oldest} :
        /\ LET s == Spliced(Unlinked(v), v, IF v = last THEN prev[v] ELSE last)
           IN  prev' = s.prev /\ next' = s.next /\ head' = s.head
        /\ Claim(v, x)
  BY DEF FetchEvict
<1>4. /\ a \in Seq(Buffers) /\ f \in Seq(Buffers) /\ Distinct(a) /\ Linked(next, prev, head, a)
      /\ Len(a) \in Nat /\ Ordered(sampleAddr, a)
  BY <1>1 DEF Lists, Linked, Follows
<1>5. free = Null /\ free' = Null /\ f = <<>>
  <2>1. f # <<>> => 1 \in 1 .. Len(f) /\ f[1] \in Buffers
    BY <1>4, EmptySeq
  <2> QED BY <1>1, <2>1, CardBNat DEF FetchEvict, Lists, Follows
<1>6. \A c \in Buffers : Lies(c, a)
  <2>1. \A c : ~Lies(c, f)
    BY <1>5 DEF Lies
  <2> QED BY <1>1, <2>1 DEF Lists
<1>7. PICK k \in 1 .. Len(a) : v = a[k] /\ \A j \in 1 .. Len(a) : keep[a[k]] <= keep[a[j]]
  <2>1. a # <<>>
    BY <1>3, <1>4, <1>6 DEF Lies
  <2> QED BY <1>1, <1>3, <2>1, OldestIn DEF ListInv
<1> DEFINE n == IF k <= m THEN m - 1 ELSE m
           z == Del(a, k)
           u == Unlinked(v)
           p == IF v = last THEN prev[v] ELSE last
           s == Spliced(u, v, p)
           y == Ins(z, n, v)
<1>8. /\ z \in Seq(Buffers) /\ Len(z) = Len(a) - 1
      /\ \A i \in 1 .. Len(a) - 1 : z[i] = IF i < k THEN a[i] ELSE a[i + 1]
  BY <1>4, DelSeq
<1>9. next \in [Buffers -> Links] /\ prev \in [Buffers -> Links] /\ sampleAddr \in [Buffers -> Addrs \cup {Invalid}]
  BY DEF ListInv, ListTypes
<1>10. /\ u.next \in [Buffers -> Links] /\ u.prev \in [Buffers -> Links]
       /\ u = [prev |-> u.prev, next |-> u.next, head |-> u.head]
       /\ Linked(u.next, u.prev, u.head, z)
  <2>1. free \in Links
    BY <1>5 DEF Links
  <2> QED BY <1>4, <1>7, <1>9, <2>1, UnlinkedLinked
<1>11. Distinct(z) /\ \A c : Lies(c, z) <=> c # v /\ Lies(c, a)
  BY <1>4, <1>7, DelLies
<1>12. prev' = s.prev /\ next' = s.next /\ head' = s.head /\ v \in Buffers /\ Claim(v, x)
  BY <1>3
<1>13. n \in 0 .. Len(z)
  BY <1>4, <1>8
<1> HIDE DEF last, z, u
<1>14. p = IF n = 0 THEN Null ELSE z[n]
  <2>1. m # 0 => m \in 1 .. Len(a) /\ a[m] \in Buffers /\ (v = a[m] <=> k = m)
    BY <1>4, <1>7 DEF Distinct
  <2>2. v = last <=> k = m
    BY <1>2, <1>4, <1>7, <2>1, CardBNat
  <2>3. CASE k = m
    <3>1. p = IF k = 1 THEN Null ELSE a[k - 1]
      BY <1>7, <2>2, <2>3, <1>4 DEF Linked
    <3>2. n = k - 1 /\ (n # 0 => z[n] = a[k - 1])
      BY <1>4, <1>8, <2>3
    <3> QED BY <3>1, <3>2
  <2>4. CASE k < m
    <3>1. p = a[m]
      BY <1>2, <2>2, <2>4
    <3>2. n = m - 1 /\ n # 0 /\ n \in 1 .. Len(a) - 1 /\ ~(n < k) /\ n + 1 = m
      BY <1>4, <2>4
    <3> QED BY <1>8, <3>1, <3>2
  <2>5. CASE k > m
    <3>1. p = (IF m = 0 THEN Null ELSE a[m]) /\ n = m
      BY <1>2, <2>2, <2>5
    <3>2. m # 0 => m \in 1 .. Len(a) - 1 /\ m < k
      BY <1>4, <2>5
    <3> QED BY <1>8, <3>1, <3>2
  <2> QED BY <2>3, <2>4, <2>5
<1> HIDE DEF p, n
<1>15. ~Lies(v, z)
  BY <1>11
<1>16. /\ s.next \in [Buffers -> Links] /\ s.prev \in [Buffers -> Links]
       /\ Linked(s.next, s.prev, s.head, y)
  BY <1>10, <1>11, <1>12, <1>13, <1>14, <1>15, SplicedLinked
<1> HIDE DEF s
<1>17. Linked(next', prev', head', y)
  BY <1>12, <1>16
<1>18. Distinct(y) /\ \A c : Lies(c, y) <=> c = v \/ Lies(c, z)
  BY <1>8, <1>11, <1>12, <1>13, <1>15, InsLies
<1>19. /\ sampleAddr' = [sampleAddr EXCEPT ![v] = Aligned(x)] /\ sampleAddr' \in [Buffers -> Addrs \cup {Invalid}]
       /\ keep' = [keep EXCEPT ![v] = Fresh] /\ idle' = [idle EXCEPT ![v] = 0]
  BY <1>12, ClaimTypes DEF Claim, ListInv
<1>20. /\ \A i \in 1 .. n : sampleAddr[z[i]] <= x
       /\ \A i \in n + 1 .. Len(z) : x < sampleAddr[z[i]]
  <2>1. ASSUME NEW i \in 1 .. n PROVE sampleAddr[z[i]] <= x
    <3>1. /\ i \in 1 .. Len(a) - 1 /\ (i < k => i \in 1 .. m) /\ (~(i < k) => i + 1 \in 1 .. m)
      BY <1>4, <1>8, <1>13 DEF n
    <3> QED BY <1>2, <1>8, <3>1
  <2>2. ASSUME NEW i \in n + 1 .. Len(z) PROVE x < sampleAddr[z[i]]
    <3>1. /\ i \in 1 .. Len(a) - 1 /\ (i < k => i \in m + 1 .. Len(a)) /\ (~(i < k) => i + 1 \in m + 1 .. Len(a))
      BY <1>4, <1>8, <1>13 DEF n
    <3> QED BY <1>2, <1>8, <3>1
  <2> QED BY <2>1, <2>2
<1>21. Ordered(sampleAddr', y)
  <2>1. Ordered(sampleAddr, z)
    BY <1>4, DelOrdered DEF z
  <2> QED BY <1>8, <1>9, <1>12, <1>13, <1>15, <1>19, <1>20, <2>1, InsOrdered
<1>22. Ages'
  BY <1>12, <1>19, FreshAges DEF ListInv
<1>23. \A c \in Buffers : Lies(c, y)
  BY <1>6, <1>11, <1>18
<1> HIDE DEF y
<1>s. PICK a1 : a1 = y
  OBVIOUS
<1>24. Lists(a1, <<>>)'
  <2>1. <<>> \in Seq(Buffers) /\ Len(<<>>) = 0
    OBVIOUS
  <2>2. Linked(next', prev', head', a1) /\ Distinct(a1)
    BY <1>s, <1>17, <1>18
  <2>3. Follows(next', free', <<>>) /\ Distinct(<<>>)
    BY <1>5, <2>1 DEF Follows, Distinct
  <2>4. \A c \in Buffers : Lies(c, a1) /\ ~Lies(c, <<>>)
    BY <1>s, <1>23, <2>1 DEF Lies
  <2>5. Ordered(sampleAddr', a1)
    BY <1>s, <1>21
  <2> QED BY ONLY <2>1, <2>2, <2>3, <2>4, <2>5 DEF Lists, Linked, Follows, Distinct, Lies, Ordered, Aligned
<1>25. ListInv'
  BY <1>12, <1>16, <1>19, <1>22, <1>24 DEF ListInv, ListTypes
<1>26. Evicts
  <2>1. \A c \in Buffers : keep[v] <= keep[c]
    BY <1>6, <1>7 DEF Lies
  <2>2. \A c \in Buffers : idle[c] <= idle[v]
    <3>1. FrameLag \in Nat
      BY CacheAssumption DEF CacheAssumption
    <3> QED BY <1>12, <2>1, <3>1 DEF ListInv, Ages
  <2>3. \A c \in Buffers : sampleAddr'[c] # sampleAddr[c] => c = v
    BY <1>9, <1>19
  <2> QED BY <2>2, <2>3 DEF Evicts
<1> QED BY <1>25, <1>26

-----------------------------------------------------------------------------
(* The requests of the frame in the making, and who waits for what.        *)
Live == IF audPc = "reap" THEN 0 ELSE dmaCount
Mine == Threads \cup {AudBlock[n] : n \in 0 .. Live - 1}
Queued == {cmdQueue[i] : i \in 1 .. Len(cmdQueue)}
AtWork == Queued \cup {x \in {mb} : mgr # "command"}
Pending == Queued \cup {x \in {mb} : mgr = "access" \/ bus # NoDma}

FillTypes ==
  /\ dmaCount \in 0 .. MaxFetches /\ audPc \in {"synthesis", "reap"}
  /\ sampleAddr \in [Buffers -> Addrs \cup {Invalid}]
  /\ call \in [Threads -> {"out", "rom", "sram"}]

(* A block is at most once with the manager, and those of the audio thread *)
(* in the order in which they were filled.                                 *)
QueueInv ==
  /\ \A i \in 1 .. Len(cmdQueue) : cmdQueue[i] \in Mine
  /\ Distinct(cmdQueue)
  /\ mgr # "command" => mb \in Mine /\ mb \notin Queued
  /\ \A n, m \in 0 .. Live - 1 : \A j \in 1 .. Len(cmdQueue) : cmdQueue[j] = AudBlock[m] =>
       /\ \A i \in 1 .. j - 1 : cmdQueue[i] = AudBlock[n] => n < m
       /\ mgr # "command" /\ mb = AudBlock[n] => n < m

(* What the blocks at work ask for, and the transfer under way.            *)
BlocksInv ==
  /\ \A n \in 0 .. Live - 1 : \E b \in Buffers, a \in Addrs : block[AudBlock[n]] = AudRequest(b, a)
  /\ \A t \in Threads : t \in AtWork => block[t].ret = t /\ block[t].ram = t /\ block[t].type # "LOOPBACK"
  /\ mgr # "command" => kind = block[mb].type
  /\ bus # NoDma => bus = [domain |-> block[mb].domain, type |-> block[mb].type,
                           dev |-> block[mb].dev, ram |-> block[mb].ram]

(* A reader inside a call has its block at work or its reply, with the data*)
(* in its place.                                                           *)
Served == {t \in Threads : retQueue[t] # <<>> \/ (mgr = "event" /\ mb = t /\ bus = NoDma)}
ReadersInv ==
  \A t \in Threads :
    /\ t \in AtWork => call[t] # "out" /\ retQueue[t] = <<>>
    /\ Len(retQueue[t]) <= 1 /\ (retQueue[t] # <<>> => call[t] # "out")
    /\ t \in Served /\ block[t].type = "EDMAREAD" => held[t] = <<block[t].domain, block[t].dev>>

(* A buffer with a sample has it, or the last transfer to come brings it.  *)
Fills == [b \in Buffers |-> {n \in 0 .. Live - 1 : AudBlock[n] \in Pending /\ block[AudBlock[n]].ram = b}]
FilledInv ==
  \A b \in Buffers : sampleAddr[b] # Invalid =>
    /\ Fills[b] = {} => held[b] = <<"cart", sampleAddr[b]>>
    /\ \A n \in Fills[b] : (\A m \in Fills[b] : m <= n) => block[AudBlock[n]].dev = sampleAddr[b]

FillInv == FillTypes /\ QueueInv /\ BlocksInv /\ ReadersInv /\ FilledInv

(* The command queue of 50 has room for the misses of a frame and for one  *)
(* request of each reader.                                                 *)
QueueFits == IsFiniteSet(Threads) /\ MaxFetches + Cardinality(Threads) <= CmdMax

LEMMA AudBlocks ==
  \A n \in 0 .. MaxFetches - 1 :
    /\ AudBlock[n] \in Blocks /\ AudBlock[n] \notin Threads
    /\ \A m \in 0 .. MaxFetches - 1 : AudBlock[m] = AudBlock[n] => m = n
<1>1. \A n \in 0 .. MaxFetches - 1 : n \in 0 .. 2 * Cardinality(Buffers) - 1
  BY CacheAssumption, FS_CardinalityType DEF CacheAssumption
<1>2. AudBlock \in [0 .. 2 * Cardinality(Buffers) - 1 -> Blocks]
  BY CacheAssumption DEF CacheAssumption
<1>3. DOMAIN AudBlock = 0 .. 2 * Cardinality(Buffers) - 1
  BY <1>2
<1>4. /\ \A m, n \in DOMAIN AudBlock : AudBlock[m] = AudBlock[n] => m = n
      /\ \A n \in DOMAIN AudBlock : AudBlock[n] \notin Threads
  BY CacheAssumption DEF CacheAssumption
<1> QED BY <1>1, <1>2, <1>3, <1>4

LEMMA LiveType ==
  ASSUME FillTypes
  PROVE  Live \in Nat /\ Live <= MaxFetches /\ MaxFetches \in Nat
BY CacheAssumption DEF CacheAssumption, FillTypes, Live

LEMMA FillStutter ==
  ASSUME FillInv, FillTypes',
         UNCHANGED <<block, cmdQueue, retQueue, mgr, mb, kind, bus, held, sampleAddr, call, Live>>
  PROVE  FillInv'
<1>1. /\ block' = block /\ cmdQueue' = cmdQueue /\ retQueue' = retQueue /\ mgr' = mgr /\ mb' = mb
      /\ kind' = kind /\ bus' = bus /\ held' = held /\ sampleAddr' = sampleAddr /\ call' = call /\ Live' = Live
  OBVIOUS
<1>2. Mine' = Mine /\ Queued' = Queued /\ AtWork' = AtWork /\ Pending' = Pending
  BY <1>1 DEF Mine, Queued, AtWork, Pending
<1>3. \A b \in Buffers : Fills'[b] = Fills[b]
  BY <1>1, <1>2 DEF Fills
<1>4. QueueInv'
  BY <1>1, <1>2 DEF FillInv, QueueInv, Distinct
<1>5. BlocksInv'
  BY <1>1, <1>2 DEF FillInv, BlocksInv, AudRequest
<1>6. ReadersInv'
  BY <1>1, <1>2 DEF FillInv, ReadersInv, Served
<1>7. FilledInv'
  BY <1>1, <1>3 DEF FillInv, FilledInv
<1> QED BY <1>4, <1>5, <1>6, <1>7 DEF FillInv

(* A block that is not at work finds room in the queue.                    *)
LEMMA QueueRoom ==
  ASSUME PiIInv, FillInv, QueueFits, NEW x, x \notin AtWork,
         x \in Threads \/ \E n \in 0 .. MaxFetches - 1 : x = AudBlock[n]
  PROVE  Len(cmdQueue) < CmdMax
<1> DEFINE A == {AudBlock[n] : n \in 0 .. MaxFetches - 1}
           W == Threads \cup A
           s == Append(cmdQueue, x)
<1>1. MaxFetches \in Nat /\ Live \in Nat /\ Live <= MaxFetches
  BY LiveType DEF FillInv
<1>2. IsFiniteSet(0 .. MaxFetches - 1) /\ Cardinality(0 .. MaxFetches - 1) = MaxFetches
  BY <1>1, FS_Interval
<1>3. IsFiniteSet(A) /\ Cardinality(A) <= MaxFetches
  <2> DEFINE D == 0 .. MaxFetches - 1
             g == [n \in D |-> AudBlock[n]]
  <2>1. g \in Surjection(D, A)
    BY DEF Surjection
  <2> HIDE DEF D, g, A
  <2>2. IsFiniteSet(D) /\ Cardinality(D) = MaxFetches
    BY <1>2 DEF D
  <2> QED BY <2>1, <2>2, FS_Surjection
<1>4. IsFiniteSet(W) /\ Cardinality(W) <= MaxFetches + Cardinality(Threads) /\ Cardinality(W) \in Nat
  <2>1. IsFiniteSet(Threads)
    BY DEF QueueFits
  <2>2. /\ IsFiniteSet(Threads \cup A)
        /\ Cardinality(Threads \cup A) = Cardinality(Threads) + Cardinality(A) - Cardinality(Threads \cap A)
    <3> HIDE DEF A
    <3> QED BY <1>3, <2>1, FS_Union
  <2>3. IsFiniteSet(Threads \cap A)
    <3> HIDE DEF A
    <3> QED BY <2>1, FS_Intersection
  <2>4. Cardinality(Threads) \in Nat /\ Cardinality(A) \in Nat /\ Cardinality(Threads \cap A) \in Nat /\ Cardinality(W) \in Nat
    <3> HIDE DEF A
    <3> QED BY <1>3, <2>1, <2>2, <2>3, FS_CardinalityType
  <2> HIDE DEF A
  <2> QED BY <1>1, <1>3, <2>2, <2>4
<1>5. cmdQueue \in Seq(Blocks) /\ Len(cmdQueue) \in Nat
  BY DEF PiIInv, PiTypeOK
<1>6. \A i \in 1 .. Len(cmdQueue) : cmdQueue[i] \in W /\ cmdQueue[i] # x
  <2> SUFFICES ASSUME NEW i \in 1 .. Len(cmdQueue) PROVE cmdQueue[i] \in W /\ cmdQueue[i] # x
    OBVIOUS
  <2>1. cmdQueue[i] \in Mine /\ cmdQueue[i] \in Queued
    BY DEF FillInv, QueueInv, Queued
  <2> QED BY <1>1, <2>1 DEF Mine, AtWork
<1>7. x \in W
  OBVIOUS
<1>8. /\ s \in Seq(W) /\ Len(s) = Len(cmdQueue) + 1
      /\ \A i \in 1 .. Len(s) : s[i] = IF i <= Len(cmdQueue) THEN cmdQueue[i] ELSE x
  <2>1. cmdQueue \in Seq(W)
    <3> HIDE DEF W
    <3>1. cmdQueue = [i \in 1 .. Len(cmdQueue) |-> cmdQueue[i]]
      BY <1>5
    <3>2. [i \in 1 .. Len(cmdQueue) |-> cmdQueue[i]] \in [1 .. Len(cmdQueue) -> W]
      BY <1>6
    <3> QED BY <1>5, <3>1, <3>2, FunIsSeq
  <2> HIDE DEF W
  <2> QED BY <1>5, <1>7, <2>1
<1> HIDE DEF W, s
<1>9. Distinct(s)
  BY <1>5, <1>6, <1>8 DEF FillInv, QueueInv, Distinct
<1>10. Len(s) <= Cardinality(W)
  BY <1>4, <1>8, <1>9, DistinctIn
<1>11. MaxFetches + Cardinality(Threads) <= CmdMax /\ CmdMax \in Nat /\ Cardinality(Threads) \in Nat
  BY PiAssumption, FS_CardinalityType DEF QueueFits, PiAssumption
<1> QED BY <1>1, <1>4, <1>5, <1>8, <1>10, <1>11

(* Such a block is added at the end.                                       *)
LEMMA PostAdds ==
  ASSUME PiIInv, NEW x \in Blocks, NEW r \in Requests, x \notin AtWork, Len(cmdQueue) < CmdMax,
         block' = [block EXCEPT ![x] = r], cmdQueue' = Posted(x, "NORMAL"), UNCHANGED <<manager, wires>>
  PROVE  /\ Len(cmdQueue') = Len(cmdQueue) + 1 /\ Len(cmdQueue) \in Nat
         /\ \A i \in 1 .. Len(cmdQueue) : cmdQueue'[i] = cmdQueue[i] /\ cmdQueue[i] # x
         /\ cmdQueue'[Len(cmdQueue) + 1] = x
         /\ mgr # "command" => mb # x
         /\ Queued' = Queued \cup {x} /\ AtWork' = AtWork \cup {x} /\ Pending' = Pending \cup {x}
         /\ \A y \in Blocks : block'[y] = IF y = x THEN r ELSE block[y]
<1>1. cmdQueue \in Seq(Blocks) /\ Len(cmdQueue) \in Nat /\ block \in [Blocks -> Requests] /\ CmdMax \in Nat
  BY PiAssumption DEF PiIInv, PiTypeOK, PiAssumption
<1>2. cmdQueue' = Append(cmdQueue, x)
  BY <1>1 DEF Posted
<1>3. /\ Len(cmdQueue') = Len(cmdQueue) + 1
      /\ \A i \in 1 .. Len(cmdQueue) : cmdQueue'[i] = cmdQueue[i]
      /\ cmdQueue'[Len(cmdQueue) + 1] = x
  BY <1>1, <1>2
<1>4. Queued' = Queued \cup {x}
  <2>1. Queued' = {cmdQueue'[i] : i \in 1 .. Len(cmdQueue) + 1}
    BY <1>3 DEF Queued
  <2>2. Len(cmdQueue) + 1 \in 1 .. Len(cmdQueue) + 1 /\ \A i \in 1 .. Len(cmdQueue) : i \in 1 .. Len(cmdQueue) + 1
    BY <1>1
  <2>3. \A i \in 1 .. Len(cmdQueue) + 1 : i \in 1 .. Len(cmdQueue) \/ i = Len(cmdQueue) + 1
    BY <1>1
  <2> QED BY <1>3, <2>1, <2>2, <2>3 DEF Queued
<1>5. mgr' = mgr /\ mb' = mb /\ bus' = bus
  BY DEF manager, wires
<1>7. AtWork' = AtWork \cup {x} /\ Pending' = Pending \cup {x}
  BY <1>4, <1>5 DEF AtWork, Pending
<1>8. (\A i \in 1 .. Len(cmdQueue) : cmdQueue[i] # x) /\ (mgr # "command" => mb # x)
  BY DEF AtWork, Queued
<1>9. \A y \in Blocks : block'[y] = IF y = x THEN r ELSE block[y]
  BY <1>1
<1> QED BY <1>1, <1>3, <1>4, <1>7, <1>8, <1>9

LEMMA ReaderPost ==
  ASSUME PiIInv, FillInv, FillTypes', QueueFits, NEW t \in Threads, NEW r \in Requests, t \notin AtWork,
         block' = [block EXCEPT ![t] = r], cmdQueue' = Posted(t, "NORMAL"),
         retQueue'[t] = <<>>, \A u \in Threads \ {t} : retQueue'[u] = retQueue[u] /\ call'[u] = call[u],
         call'[t] # "out", r.ret = t, r.ram = t, r.type # "LOOPBACK",
         UNCHANGED <<manager, wires, sampleAddr, Live>>
  PROVE  FillInv'
<1>1. t \in Blocks
  BY ClientsAssumption DEF ClientsAssumption
<1>2. Len(cmdQueue) < CmdMax
  BY QueueRoom
<1>3. /\ Len(cmdQueue') = Len(cmdQueue) + 1 /\ Len(cmdQueue) \in Nat
      /\ \A i \in 1 .. Len(cmdQueue) : cmdQueue'[i] = cmdQueue[i] /\ cmdQueue[i] # t
      /\ cmdQueue'[Len(cmdQueue) + 1] = t
      /\ mgr # "command" => mb # t
      /\ Queued' = Queued \cup {t} /\ AtWork' = AtWork \cup {t} /\ Pending' = Pending \cup {t}
      /\ \A y \in Blocks : block'[y] = IF y = t THEN r ELSE block[y]
  BY <1>1, <1>2, PostAdds
<1>4. /\ mgr' = mgr /\ mb' = mb /\ kind' = kind /\ bus' = bus /\ held' = held
      /\ sampleAddr' = sampleAddr /\ Live' = Live
  BY DEF manager, wires
<1>5. Mine' = Mine
  BY <1>4 DEF Mine
<1>6. \A n \in 0 .. Live - 1 : AudBlock[n] \in Blocks /\ AudBlock[n] # t /\ block'[AudBlock[n]] = block[AudBlock[n]]
  <2>1. \A n \in 0 .. Live - 1 : n \in 0 .. MaxFetches - 1
    BY LiveType DEF FillInv
  <2> QED BY <1>3, <2>1, AudBlocks
<1>7. \A y : y \in Mine /\ y # t => y \in Blocks /\ block'[y] = block[y]
  <2>1. \A y \in Threads : y \in Blocks
    BY ClientsAssumption DEF ClientsAssumption
  <2> QED BY <1>3, <1>6, <2>1 DEF Mine
<1>8. QueueInv'
  <2>1. \A i \in 1 .. Len(cmdQueue') : i \in 1 .. Len(cmdQueue) \/ i = Len(cmdQueue) + 1
    BY <1>3
  <2>2. t \in Mine
    BY DEF Mine
  <2>3. \A i \in 1 .. Len(cmdQueue') : cmdQueue'[i] \in Mine'
    BY <1>3, <1>5, <2>1, <2>2 DEF FillInv, QueueInv
  <2>4. Distinct(cmdQueue)'
    BY <1>3, <2>1 DEF FillInv, QueueInv, Distinct
  <2>5. (mgr # "command" => mb \in Mine /\ mb \notin Queued)'
    BY <1>3, <1>4, <1>5 DEF FillInv, QueueInv
  <2>6. ASSUME NEW n \in 0 .. Live - 1, NEW m \in 0 .. Live - 1, NEW j \in 1 .. Len(cmdQueue'), cmdQueue'[j] = AudBlock[m]
        PROVE  /\ \A i \in 1 .. j - 1 : cmdQueue'[i] = AudBlock[n] => n < m
               /\ mgr # "command" /\ mb = AudBlock[n] => n < m
    <3>1. j \in 1 .. Len(cmdQueue) /\ cmdQueue[j] = AudBlock[m]
      BY <1>3, <1>6, <2>1, <2>6
    <3>2. \A i \in 1 .. j - 1 : cmdQueue'[i] = cmdQueue[i]
      BY <1>3, <3>1
    <3> QED BY <3>1, <3>2 DEF FillInv, QueueInv
  <2> QED BY <1>4, <2>3, <2>4, <2>5, <2>6 DEF QueueInv
<1>9. BlocksInv'
  <2>1. \A n \in 0 .. Live' - 1 : \E b \in Buffers, a \in Addrs : block'[AudBlock[n]] = AudRequest(b, a)
    BY <1>4, <1>6 DEF FillInv, BlocksInv
  <2>2. \A u \in Threads : u \in AtWork' => block'[u].ret = u /\ block'[u].ram = u /\ block'[u].type # "LOOPBACK"
    <3>1. \A u \in Threads : u \in Blocks
      BY ClientsAssumption DEF ClientsAssumption
    <3> QED BY <1>3, <3>1 DEF FillInv, BlocksInv
  <2>3. mgr # "command" => block'[mb] = block[mb]
    BY <1>3, <1>7 DEF FillInv, QueueInv
  <2>4. bus # NoDma => mgr # "command"
    BY DEF PiIInv, CompletionIsMine
  <2> QED BY <1>4, <2>1, <2>2, <2>3, <2>4 DEF FillInv, BlocksInv, AudRequest
<1>10. ReadersInv'
  <2> SUFFICES ASSUME NEW u \in Threads
               PROVE  /\ u \in AtWork' => call'[u] # "out" /\ retQueue'[u] = <<>>
                      /\ Len(retQueue'[u]) <= 1 /\ (retQueue'[u] # <<>> => call'[u] # "out")
                      /\ u \in Served' /\ block'[u].type = "EDMAREAD" => held'[u] = <<block'[u].domain, block'[u].dev>>
    BY DEF ReadersInv
  <2>1. CASE u = t
    <3>1. u \notin Served'
      BY <1>3, <1>4, <2>1 DEF Served
    <3> QED BY <2>1, <3>1
  <2>2. CASE u # t
    <3>1. block'[u] = block[u] /\ retQueue'[u] = retQueue[u] /\ call'[u] = call[u] /\ (u \in AtWork' <=> u \in AtWork)
      BY <1>3, <1>7, <2>2 DEF Mine
    <3>2. u \in Served' <=> u \in Served
      BY <1>4, <3>1 DEF Served
    <3> QED BY <1>4, <3>1, <3>2 DEF FillInv, ReadersInv
  <2> QED BY <2>1, <2>2
<1>11. FilledInv'
  <2>1. \A b \in Buffers : Fills'[b] = Fills[b]
    BY <1>3, <1>4, <1>6 DEF Fills
  <2>2. \A b \in Buffers : \A n \in Fills[b] : block'[AudBlock[n]] = block[AudBlock[n]]
    BY <1>6 DEF Fills
  <2> QED BY <1>4, <2>1, <2>2 DEF FillInv, FilledInv
<1> QED BY <1>8, <1>9, <1>10, <1>11 DEF FillInv

LEMMA ClaimFill ==
  ASSUME PiIInv, FillInv, QueueFits, audPc = "synthesis", dmaCount < MaxFetches,
         NEW b \in Buffers, NEW x \in SampleAddrs, Claim(b, x)
  PROVE  FillInv'
<1> DEFINE k == dmaCount
           o == AudBlock[k]
           a == Aligned(x)
           r == AudRequest(b, a)
<1>1. Live = k /\ k \in Nat /\ k \in 0 .. MaxFetches - 1 /\ MaxFetches \in Nat
  BY LiveType DEF FillInv, FillTypes, Live
<1>2. /\ o \in Blocks /\ o \notin Threads
      /\ \A n \in 0 .. Live - 1 : AudBlock[n] # o /\ AudBlock[n] \in Blocks
  BY <1>1, AudBlocks
<1>3. o \notin AtWork
  <2>1. \A y : y \in AtWork => y \in Mine
    BY DEF FillInv, QueueInv, AtWork, Queued
  <2> QED BY <1>2, <2>1 DEF Mine
<1>4. Len(cmdQueue) < CmdMax
  BY <1>1, <1>3, QueueRoom
<1>5. r \in Requests /\ a \in Addrs /\ r.ram = b /\ r.dev = a /\ r.type = "EDMAREAD" /\ r.pri = "NORMAL"
  BY SampleInAddrs, CacheAssumption DEF CacheAssumption, AudRequest, Requests, Domains
<1>6. /\ block' = [block EXCEPT ![o] = r] /\ cmdQueue' = Posted(o, "NORMAL") /\ UNCHANGED <<manager, wires>>
      /\ retQueue' = retQueue /\ call' = call /\ dmaCount' = dmaCount + 1 /\ audPc' = audPc
      /\ sampleAddr' = [sampleAddr EXCEPT ![b] = a]
  BY <1>5 DEF Claim, Request, clients, AudRequest
<1> HIDE DEF o, a, r, k
<1>7. /\ Len(cmdQueue') = Len(cmdQueue) + 1 /\ Len(cmdQueue) \in Nat
      /\ \A i \in 1 .. Len(cmdQueue) : cmdQueue'[i] = cmdQueue[i] /\ cmdQueue[i] # o
      /\ cmdQueue'[Len(cmdQueue) + 1] = o
      /\ mgr # "command" => mb # o
      /\ Queued' = Queued \cup {o} /\ AtWork' = AtWork \cup {o} /\ Pending' = Pending \cup {o}
      /\ \A y \in Blocks : block'[y] = IF y = o THEN r ELSE block[y]
  BY <1>2, <1>3, <1>4, <1>5, <1>6, PostAdds
<1>8. mgr' = mgr /\ mb' = mb /\ kind' = kind /\ bus' = bus /\ held' = held /\ Live' = k + 1 /\ o = AudBlock[k]
  BY <1>1, <1>6 DEF manager, wires, Live, k, o
<1>9. \A n \in 0 .. Live' - 1 : n = k \/ n \in 0 .. Live - 1
  BY <1>1, <1>8
<1>10. (\A n \in 0 .. Live - 1 : n \in 0 .. Live' - 1 /\ n < k) /\ k \in 0 .. Live' - 1
  BY <1>1, <1>8
<1>11. Mine' = Mine \cup {o}
  BY <1>8, <1>9, <1>10 DEF Mine
<1>12. \A y : y \in Mine /\ y # o => y \in Blocks /\ block'[y] = block[y]
  <2>1. \A y \in Threads : y \in Blocks
    BY ClientsAssumption DEF ClientsAssumption
  <2> QED BY <1>2, <1>7, <2>1 DEF Mine
<1>13. block'[o] = r /\ \A n \in 0 .. Live - 1 : block'[AudBlock[n]] = block[AudBlock[n]]
  BY <1>2, <1>7
<1>14. FillTypes'
  BY <1>1, <1>5, <1>6 DEF FillInv, FillTypes, k
<1>15. QueueInv'
  <2>1. \A i \in 1 .. Len(cmdQueue') : i \in 1 .. Len(cmdQueue) \/ i = Len(cmdQueue) + 1
    BY <1>7
  <2>3. \A i \in 1 .. Len(cmdQueue') : cmdQueue'[i] \in Mine'
    BY <1>7, <1>11, <2>1 DEF FillInv, QueueInv
  <2>4. Distinct(cmdQueue)'
    BY <1>7, <2>1 DEF FillInv, QueueInv, Distinct
  <2>5. (mgr # "command" => mb \in Mine /\ mb \notin Queued)'
    BY <1>7, <1>8, <1>11 DEF FillInv, QueueInv
  <2>6. ASSUME NEW n \in 0 .. Live' - 1, NEW m \in 0 .. Live' - 1, NEW j \in 1 .. Len(cmdQueue'), cmdQueue'[j] = AudBlock[m]
        PROVE  /\ \A i \in 1 .. j - 1 : cmdQueue'[i] = AudBlock[n] => n < m
               /\ mgr # "command" /\ mb = AudBlock[n] => n < m
    <3>1. CASE j = Len(cmdQueue) + 1
      <4>1. m = k
        BY <1>2, <1>7, <1>8, <1>9, <2>6, <3>1
      <4>2. \A i \in 1 .. j - 1 : cmdQueue'[i] = AudBlock[n] => n # k
        BY <1>7, <1>8, <3>1
      <4> QED BY <1>7, <1>8, <1>9, <1>10, <4>1, <4>2
    <3>2. CASE j \in 1 .. Len(cmdQueue)
      <4>1. m # k /\ cmdQueue[j] = AudBlock[m] /\ m \in 0 .. Live - 1
        BY <1>7, <1>8, <1>9, <2>6, <3>2
      <4>2. \A i \in 1 .. j - 1 : cmdQueue'[i] = cmdQueue[i] /\ cmdQueue[i] # o
        BY <1>7, <3>2
      <4>3. n # k => n \in 0 .. Live - 1
        BY <1>9
      <4> QED BY <1>7, <1>8, <3>2, <4>1, <4>2, <4>3 DEF FillInv, QueueInv
    <3> QED BY <2>1, <3>1, <3>2
  <2> QED BY <1>8, <2>3, <2>4, <2>5, <2>6 DEF QueueInv
<1>16. BlocksInv'
  <2>1. \A n \in 0 .. Live' - 1 : \E c \in Buffers, d \in Addrs : block'[AudBlock[n]] = AudRequest(c, d)
    <3>1. block'[o] = AudRequest(b, a) /\ a \in Addrs
      BY <1>5, <1>13 DEF r
    <3> QED BY <1>8, <1>9, <1>13, <3>1 DEF FillInv, BlocksInv
  <2>2. \A u \in Threads : u \in AtWork' => block'[u].ret = u /\ block'[u].ram = u /\ block'[u].type # "LOOPBACK"
    <3>1. \A u \in Threads : u # o /\ block'[u] = block[u]
      BY <1>2, <1>12 DEF Mine
    <3> QED BY <1>7, <3>1 DEF FillInv, BlocksInv
  <2>3. mgr # "command" => block'[mb] = block[mb]
    BY <1>7, <1>12 DEF FillInv, QueueInv
  <2>4. bus # NoDma => mgr # "command"
    BY DEF PiIInv, CompletionIsMine
  <2> QED BY <1>8, <2>1, <2>2, <2>3, <2>4 DEF FillInv, BlocksInv, AudRequest
<1>17. ReadersInv'
  <2>1. ASSUME NEW u \in Threads
        PROVE  /\ block'[u] = block[u] /\ retQueue'[u] = retQueue[u] /\ call'[u] = call[u]
               /\ (u \in AtWork' <=> u \in AtWork) /\ (u \in Served' <=> u \in Served)
    <3>1. u # o /\ block'[u] = block[u]
      BY <1>2, <1>12 DEF Mine
    <3> QED BY <1>6, <1>7, <1>8, <3>1 DEF Served
  <2> QED BY <1>8, <2>1 DEF FillInv, ReadersInv
<1>18. FilledInv'
  <2> SUFFICES ASSUME NEW c \in Buffers, sampleAddr'[c] # Invalid
               PROVE  /\ Fills'[c] = {} => held'[c] = <<"cart", sampleAddr'[c]>>
                      /\ \A n \in Fills'[c] : (\A m \in Fills'[c] : m <= n) => block'[AudBlock[n]].dev = sampleAddr'[c]
    BY DEF FilledInv
  <2>1. CASE c = b
    <3>1. sampleAddr'[c] = a
      BY <1>6, <2>1 DEF FillInv, FillTypes
    <3>2. k \in Fills'[c]
      BY <1>5, <1>7, <1>8, <1>10, <1>13, <2>1 DEF Fills
    <3>3. ASSUME NEW n \in Fills'[c], \A m \in Fills'[c] : m <= n PROVE n = k
      <4>1. k <= n /\ n \in 0 .. Live' - 1
        BY <3>2, <3>3 DEF Fills
      <4> QED BY <1>1, <1>8, <4>1
    <3> QED BY <1>5, <1>8, <1>13, <3>1, <3>2, <3>3
  <2>2. CASE c # b
    <3>1. sampleAddr'[c] = sampleAddr[c]
      BY <1>6, <2>2 DEF FillInv, FillTypes
    <3>2. Fills'[c] = Fills[c]
      <4>1. ASSUME NEW n \in Fills'[c] PROVE n \in Fills[c]
        <5>1. n \in 0 .. Live' - 1 /\ AudBlock[n] \in Pending' /\ block'[AudBlock[n]].ram = c
          BY DEF Fills
        <5>2. n # k
          BY <1>5, <1>8, <1>13, <2>2, <5>1
        <5>3. n \in 0 .. Live - 1 /\ AudBlock[n] # o
          BY <1>2, <1>9, <5>1, <5>2
        <5> QED BY <1>7, <1>13, <5>1, <5>3 DEF Fills
      <4>2. ASSUME NEW n \in Fills[c] PROVE n \in Fills'[c]
        BY <1>7, <1>10, <1>13 DEF Fills
      <4> QED BY <4>1, <4>2
    <3>3. \A n \in Fills[c] : block'[AudBlock[n]] = block[AudBlock[n]]
      BY <1>13 DEF Fills
    <3> QED BY <1>8, <3>1, <3>2, <3>3 DEF FillInv, FilledInv
  <2> QED BY <2>1, <2>2
<1> QED BY <1>14, <1>15, <1>16, <1>17, <1>18 DEF FillInv

(* What a block that is with the manager asks for.                         *)
LEMMA BlockAsks ==
  ASSUME PiIInv, FillInv, NEW x \in Mine, x \in AtWork
  PROVE  /\ x \in Blocks /\ block[x].type # "LOOPBACK"
         /\ \/ x \in Threads /\ block[x].ret = x /\ block[x].ram = x
            \/ /\ x \notin Threads
               /\ \E n \in 0 .. Live - 1, b \in Buffers : x = AudBlock[n] /\ block[x] = AudRequest(b, block[x].dev)
<1>1. CASE x \in Threads
  BY <1>1, ClientsAssumption DEF ClientsAssumption, FillInv, BlocksInv
<1>2. CASE x \notin Threads
  <2>1. PICK n \in 0 .. Live - 1 : x = AudBlock[n]
    BY <1>2 DEF Mine
  <2>2. x \in Blocks
    <3>1. n \in 0 .. MaxFetches - 1
      BY LiveType DEF FillInv
    <3> QED BY <2>1, <3>1, AudBlocks
  <2>3. PICK b \in Buffers, a \in Addrs : block[x] = AudRequest(b, a)
    BY <2>1 DEF FillInv, BlocksInv
  <2>4. block[x].type # "LOOPBACK" /\ block[x] = AudRequest(b, block[x].dev)
    BY <2>3 DEF AudRequest
  <2> QED BY <1>2, <2>1, <2>2, <2>4
<1> QED BY <1>1, <1>2

LEMMA TakeCommandFill ==
  ASSUME PiIInv, FillInv, TakeCommand, UNCHANGED <<clients, cache>>
  PROVE  FillInv'
<1> DEFINE x == cmdQueue[1]
           L == Len(cmdQueue)
<1>1. /\ cmdQueue \in Seq(Blocks) /\ cmdQueue # <<>> /\ mgr = "command" /\ bus = NoDma
  BY DEF TakeCommand, PiIInv, PiTypeOK, CompletionIsMine
<1>2. /\ L \in Nat /\ 1 \in 1 .. L /\ mb' = x /\ x \in Blocks
      /\ cmdQueue' = Tail(cmdQueue) /\ Len(cmdQueue') = L - 1
      /\ \A i \in 1 .. L - 1 : cmdQueue'[i] = cmdQueue[i + 1] /\ i + 1 \in 1 .. L
  BY <1>1, EmptySeq DEF TakeCommand
<1>3. x \in Mine /\ x \in Queued /\ x \in AtWork
  BY <1>2 DEF FillInv, QueueInv, Queued, AtWork
<1>4. block[x].type # "LOOPBACK"
  BY <1>3, BlockAsks
<1>5. /\ mgr' = "access" /\ kind' = block[x].type /\ retQueue' = retQueue
      /\ UNCHANGED <<block, bus, held, call, sampleAddr, Live>>
  BY <1>2, <1>4 DEF TakeCommand, wires, clients, cache, Live
<1> HIDE DEF x
<1>6. Queued' = Queued \ {x}
  <2>1. Queued' = {cmdQueue[i + 1] : i \in 1 .. L - 1}
    BY <1>2 DEF Queued
  <2>2. \A i \in 1 .. L : i = 1 \/ i - 1 \in 1 .. L - 1
    BY <1>2
  <2>3. \A i \in 1 .. L - 1 : cmdQueue[i + 1] # x
    <3>1. \A i \in 1 .. L - 1 : i + 1 # 1
      OBVIOUS
    <3> QED BY <1>2, <3>1 DEF FillInv, QueueInv, Distinct, x
  <2>4. ASSUME NEW y \in Queued, y # x PROVE y \in Queued'
    <3>1. PICK i \in 1 .. L : cmdQueue[i] = y
      BY DEF Queued
    <3>2. i - 1 \in 1 .. L - 1 /\ (i - 1) + 1 = i
      BY <2>2, <2>4, <3>1 DEF x
    <3> QED BY <2>1, <3>1, <3>2
  <2>5. \A y \in Queued' : y \in Queued /\ y # x
    BY <1>2, <2>1, <2>3 DEF Queued
  <2> QED BY <2>4, <2>5
<1>7. AtWork' = AtWork /\ Pending' = Pending /\ Mine' = Mine
  BY <1>1, <1>2, <1>3, <1>5, <1>6 DEF AtWork, Pending, Mine
<1>8. QueueInv'
  <2>1. \A i \in 1 .. Len(cmdQueue') : cmdQueue'[i] \in Mine'
    BY <1>2, <1>7 DEF FillInv, QueueInv
  <2>2. Distinct(cmdQueue)'
    <3>1. \A i, j \in 1 .. L - 1 : cmdQueue[i + 1] = cmdQueue[j + 1] => i + 1 = j + 1
      BY <1>2 DEF FillInv, QueueInv, Distinct
    <3>2. \A i, j \in 1 .. L - 1 : i + 1 = j + 1 => i = j
      OBVIOUS
    <3> QED BY <1>2, <3>1, <3>2 DEF Distinct
  <2>3. ASSUME NEW n \in 0 .. Live - 1, NEW m \in 0 .. Live - 1, NEW j \in 1 .. L - 1, cmdQueue'[j] = AudBlock[m]
        PROVE  /\ \A i \in 1 .. j - 1 : cmdQueue'[i] = AudBlock[n] => n < m
               /\ x = AudBlock[n] => n < m
    <3>1. j + 1 \in 1 .. L /\ cmdQueue[j + 1] = AudBlock[m]
      BY <1>2, <2>3
    <3>2. \A i \in 1 .. (j + 1) - 1 : cmdQueue[i] = AudBlock[n] => n < m
      BY <3>1 DEF FillInv, QueueInv
    <3>3. 1 \in 1 .. (j + 1) - 1 /\ \A i \in 1 .. j - 1 : i + 1 \in 1 .. (j + 1) - 1 /\ i \in 1 .. L - 1
      OBVIOUS
    <3> QED BY <1>2, <3>2, <3>3 DEF x
  <2> QED BY <1>2, <1>3, <1>5, <1>6, <1>7, <2>1, <2>2, <2>3 DEF QueueInv
<1>9. BlocksInv'
  BY <1>1, <1>2, <1>5, <1>7 DEF FillInv, BlocksInv, AudRequest
<1>10. ReadersInv'
  <2>1. Served' = Served
    BY <1>1, <1>5 DEF Served
  <2> QED BY <1>5, <1>7, <2>1 DEF FillInv, ReadersInv
<1>11. FilledInv'
  <2>1. Fills' = Fills
    BY <1>5, <1>7 DEF Fills
  <2> QED BY <1>5, <2>1 DEF FillInv, FilledInv
<1>12. FillTypes'
  BY <1>5 DEF FillInv, FillTypes, cache
<1> QED BY <1>8, <1>9, <1>10, <1>11, <1>12 DEF FillInv

LEMMA StartDmaFill ==
  ASSUME PiIInv, FillInv, StartDma, UNCHANGED <<clients, cache>>
  PROVE  FillInv'
<1>1. /\ mgr = "access" /\ mgr' = "event" /\ bus = NoDma /\ mb' = mb /\ kind' = kind /\ mb \in Blocks
      /\ bus' = [domain |-> block[mb].domain, type |-> kind, dev |-> block[mb].dev, ram |-> block[mb].ram]
      /\ UNCHANGED <<block, cmdQueue, retQueue, held, call, sampleAddr, Live>>
  BY DEF StartDma, requests, clients, cache, Live, PiIInv, PiTypeOK
<1>2. bus' # NoDma
  <2>1. bus' \in Dmas
    BY <1>1 DEF PiIInv, PiTypeOK, Requests, Dmas
  <2> QED BY <2>1, PiAssumption DEF PiAssumption, Dmas
<1>3. Queued' = Queued /\ AtWork' = AtWork /\ Pending' = Pending /\ Mine' = Mine
  BY <1>1, <1>2 DEF Queued, AtWork, Pending, Mine
<1>4. Served' = Served /\ Fills' = Fills
  BY <1>1, <1>2, <1>3 DEF Served, Fills
<1>5. QueueInv'
  BY <1>1, <1>3 DEF FillInv, QueueInv, Distinct
<1>6. BlocksInv'
  BY <1>1, <1>3 DEF FillInv, BlocksInv, AudRequest
<1>7. ReadersInv' /\ FilledInv'
  BY <1>1, <1>3, <1>4 DEF FillInv, ReadersInv, FilledInv
<1>8. FillTypes'
  BY <1>1 DEF FillInv, FillTypes, cache
<1> QED BY <1>5, <1>6, <1>7, <1>8 DEF FillInv

LEMMA BusDoneFill ==
  ASSUME PiIInv, FillInv, BusDone, UNCHANGED <<clients, cache>>
  PROVE  FillInv'
<1> DEFINE r == block[mb]
<1>1. /\ mgr = "event" /\ bus # NoDma /\ bus' = NoDma /\ held \in [Rams -> (Domains \X Addrs) \cup {NoDma}]
      /\ UNCHANGED <<block, cmdQueue, retQueue, mgr, mb, kind, call, sampleAddr, Live>>
  BY DEF BusDone, requests, clients, cache, Live, PiIInv, CompletionIsMine, PiTypeOK
<1>2. bus = [domain |-> r.domain, type |-> r.type, dev |-> r.dev, ram |-> r.ram]
  BY <1>1 DEF FillInv, BlocksInv
<1>3. held' = IF r.type = "EDMAREAD" THEN [held EXCEPT ![r.ram] = <<r.domain, r.dev>>] ELSE held
  BY <1>2 DEF BusDone
<1>4. mb \in Mine /\ mb \in AtWork /\ mb \notin Queued /\ mb \in Pending
  BY <1>1 DEF FillInv, QueueInv, AtWork, Pending
<1>5. Queued' = Queued /\ AtWork' = AtWork /\ Pending' = Pending \ {mb} /\ Mine' = Mine
  BY <1>1, <1>4 DEF Queued, AtWork, Pending, Mine
<1>6. \/ mb \in Threads /\ r.ret = mb /\ r.ram = mb
      \/ /\ mb \notin Threads
         /\ \E n \in 0 .. Live - 1, b \in Buffers : mb = AudBlock[n] /\ r = AudRequest(b, r.dev)
  BY <1>4, BlockAsks
<1> HIDE DEF r
<1>7. QueueInv'
  BY <1>1, <1>5 DEF FillInv, QueueInv, Distinct
<1>8. BlocksInv'
  BY <1>1, <1>5 DEF FillInv, BlocksInv, AudRequest
<1>9. Threads \subseteq Rams /\ Buffers \subseteq Rams /\ Threads \cap Buffers = {}
  BY ClientsAssumption, CacheAssumption DEF ClientsAssumption, CacheAssumption
<1>10. ReadersInv'
  <2> SUFFICES ASSUME NEW t \in Threads
               PROVE  t \in Served' /\ block[t].type = "EDMAREAD" => held'[t] = <<block[t].domain, block[t].dev>>
    BY <1>1, <1>5 DEF FillInv, ReadersInv
  <2>1. CASE t = mb
    BY <1>1, <1>3, <1>6, <1>9, <2>1 DEF r
  <2>2. CASE t # mb
    <3>1. r.ram # t
      BY <1>6, <1>9, <2>2 DEF AudRequest
    <3>2. held'[t] = held[t] /\ (t \in Served' => t \in Served)
      BY <1>1, <1>3, <1>9, <2>2, <3>1 DEF Served
    <3> QED BY <3>2 DEF FillInv, ReadersInv
  <2> QED BY <2>1, <2>2
<1>11. FilledInv'
  <2> SUFFICES ASSUME NEW b \in Buffers, sampleAddr[b] # Invalid
               PROVE  /\ Fills'[b] = {} => held'[b] = <<"cart", sampleAddr[b]>>
                      /\ \A n \in Fills'[b] : (\A m \in Fills'[b] : m <= n) => block[AudBlock[n]].dev = sampleAddr[b]
    BY <1>1 DEF FilledInv
  <2>0. /\ Fills[b] = {} => held[b] = <<"cart", sampleAddr[b]>>
        /\ \A n \in Fills[b] : (\A m \in Fills[b] : m <= n) => block[AudBlock[n]].dev = sampleAddr[b]
    BY DEF FillInv, FilledInv
  <2>1. \A n : n \in Fills'[b] <=> n \in Fills[b] /\ AudBlock[n] # mb
    BY <1>1, <1>5 DEF Fills
  <2>2. CASE r.ram # b
    <3>1. \A n \in Fills[b] : AudBlock[n] # mb
      BY <2>2 DEF Fills, r
    <3>2. Fills'[b] = Fills[b]
      BY <2>1, <3>1
    <3>3. held'[b] = held[b]
      BY <1>1, <1>3, <1>9, <2>2
    <3> QED BY <2>0, <3>2, <3>3
  <2>3. CASE r.ram = b
    <3>1. PICK k \in 0 .. Live - 1 : mb = AudBlock[k] /\ r = AudRequest(b, r.dev)
      BY <1>6, <1>9, <2>3 DEF AudRequest
    <3>2. k \in Fills[b]
      BY <1>4, <2>3, <3>1 DEF Fills, r
    <3>3. ASSUME NEW n \in Fills'[b] PROVE n \in Fills[b] /\ k < n
      <4>1. n \in Fills[b] /\ AudBlock[n] # mb
        BY <2>1
      <4>2. n \in 0 .. Live - 1 /\ AudBlock[n] \in Queued
        BY <4>1 DEF Fills, Pending
      <4>3. PICK j \in 1 .. Len(cmdQueue) : cmdQueue[j] = AudBlock[n]
        BY <4>2 DEF Queued
      <4>4. k < n
        BY <1>1, <3>1, <4>2, <4>3 DEF FillInv, QueueInv
      <4> QED BY <4>1, <4>4
    <3>4. held'[b] = <<"cart", r.dev>>
      BY <1>1, <1>3, <1>9, <2>3, <3>1 DEF AudRequest
    <3>5. \A n \in Fills[b] : n \in Nat
      BY DEF Fills
    <3>6. ASSUME Fills'[b] = {} PROVE r.dev = sampleAddr[b]
      <4>1. \A n \in Fills[b] : AudBlock[n] = mb
        BY <2>1, <3>6
      <4>2. \A n \in Fills[b] : n = k
        <5>1. \A n \in 0 .. Live - 1 : n \in 0 .. MaxFetches - 1
          BY LiveType DEF FillInv
        <5>2. \A n \in Fills[b] : n \in 0 .. Live - 1
          BY DEF Fills
        <5> QED BY <3>1, <4>1, <5>1, <5>2, AudBlocks
      <4> QED BY <2>0, <3>1, <3>2, <3>5, <4>2 DEF r
    <3>7. ASSUME NEW n \in Fills'[b], \A m \in Fills'[b] : m <= n PROVE block[AudBlock[n]].dev = sampleAddr[b]
      <4>1. n \in Fills[b] /\ k < n
        BY <3>3
      <4>2. ASSUME NEW m \in Fills[b] PROVE m <= n
        <5>1. CASE AudBlock[m] # mb
          BY <2>1, <3>7, <5>1
        <5>2. CASE AudBlock[m] = mb
          <6>1. m = k
            <7>1. \A q \in 0 .. Live - 1 : q \in 0 .. MaxFetches - 1
              BY LiveType DEF FillInv
            <7>2. m \in 0 .. Live - 1
              BY DEF Fills
            <7> QED BY <3>1, <5>2, <7>1, <7>2, AudBlocks
          <6> QED BY <3>5, <4>1, <6>1
        <5> QED BY <5>1, <5>2
      <4> QED BY <2>0, <4>1, <4>2
    <3> QED BY <3>4, <3>6, <3>7
  <2> QED BY <2>2, <2>3
<1>12. FillTypes'
  BY <1>1 DEF FillInv, FillTypes, cache
<1> QED BY <1>7, <1>8, <1>10, <1>11, <1>12 DEF FillInv

LEMMA CompleteFill ==
  ASSUME PiIInv, FillInv, Complete, UNCHANGED <<clients, cache>>
  PROVE  FillInv'
<1>1. /\ mgr = "event" /\ mgr' = "command" /\ bus = NoDma /\ mb' = mb
      /\ retQueue' = Reply(block[mb].ret) /\ retQueue \in [Queues -> Seq(Blocks)]
      /\ UNCHANGED <<block, cmdQueue, bus, held, kind, call, sampleAddr, Live>>
  BY DEF Complete, wires, clients, cache, Live, PiIInv, CompletionIsMine, PiTypeOK
<1>2. mb \in Mine /\ mb \in AtWork /\ mb \notin Queued /\ mb \in Blocks
  BY <1>1 DEF FillInv, QueueInv, AtWork, PiIInv, PiTypeOK
<1>3. Queued' = Queued /\ AtWork' = AtWork \ {mb} /\ Pending' = Pending /\ Mine' = Mine
  BY <1>1, <1>2 DEF Queued, AtWork, Pending, Mine
<1>4. \/ mb \in Threads /\ block[mb].ret = mb
      \/ mb \notin Threads /\ block[mb].ret = AudQueue
  <2>1. \A b, a : AudRequest(b, a).ret = AudQueue
    BY DEF AudRequest
  <2> QED BY <1>2, <2>1, BlockAsks
<1>5. QueueInv'
  BY <1>1, <1>3 DEF FillInv, QueueInv, Distinct
<1>6. BlocksInv'
  BY <1>1, <1>3 DEF FillInv, BlocksInv, AudRequest
<1>7. ReadersInv'
  <2> SUFFICES ASSUME NEW t \in Threads
               PROVE  /\ t \in AtWork' => call[t] # "out" /\ retQueue'[t] = <<>>
                      /\ Len(retQueue'[t]) <= 1 /\ (retQueue'[t] # <<>> => call[t] # "out")
                      /\ t \in Served' /\ block[t].type = "EDMAREAD" => held[t] = <<block[t].domain, block[t].dev>>
    BY <1>1 DEF ReadersInv
  <2>0. t \in Queues /\ RetMax[t] = 1 /\ t # AudQueue
    BY ClientsAssumption, CacheAssumption DEF ClientsAssumption, CacheAssumption
  <2>1. CASE t = mb
    <3>1. retQueue[t] = <<>> /\ call[t] # "out" /\ t \in Served
      BY <1>1, <1>2, <2>1 DEF FillInv, ReadersInv, Served
    <3>2. retQueue'[t] = <<mb>>
      <4>0. retQueue' = Reply(t)
        BY <1>1, <1>4, <2>1
      <4>a. Len(retQueue[t]) = 0 /\ ~(Len(retQueue[t]) >= RetMax[t])
        BY <2>0, <3>1
      <4>1. retQueue' = [retQueue EXCEPT ![t] = Append(retQueue[t], mb)]
        BY <1>1, <4>0, <4>a DEF Reply
      <4> QED BY <1>1, <2>0, <3>1, <4>1
    <3>3. Len(retQueue'[t]) = 1 /\ retQueue'[t] # <<>> /\ t \notin AtWork'
      BY <1>3, <2>1, <3>2
    <3> QED BY <3>1, <3>3 DEF FillInv, ReadersInv
  <2>2. CASE t # mb
    <3>1. retQueue'[t] = retQueue[t]
      BY <1>1, <1>4, <2>0, <2>2 DEF Reply
    <3>2. (t \in AtWork' => t \in AtWork) /\ (t \in Served' => t \in Served)
      BY <1>1, <1>3, <2>2, <3>1 DEF Served
    <3> QED BY <3>1, <3>2 DEF FillInv, ReadersInv
  <2> QED BY <2>1, <2>2
<1>8. FilledInv'
  <2>1. Fills' = Fills
    BY <1>1, <1>3 DEF Fills
  <2> QED BY <1>1, <2>1 DEF FillInv, FilledInv
<1>9. FillTypes'
  BY <1>1 DEF FillInv, FillTypes, cache
<1> QED BY <1>5, <1>6, <1>7, <1>8, <1>9 DEF FillInv

LEMMA CallsFill ==
  ASSUME PiIInv, FillInv, QueueFits, NEW t \in Threads, Calls(t), UNCHANGED cache
  PROVE  FillInv'
<1>1. t \in Blocks /\ t \in Queues /\ t \in Rams
  BY ClientsAssumption DEF ClientsAssumption
<1>2. retQueue \in [Queues -> Seq(Blocks)] /\ call \in [Threads -> {"out", "rom", "sram"}]
  BY DEF PiIInv, PiTypeOK, FillInv, FillTypes
<1>3. UNCHANGED <<sampleAddr, dmaCount, audPc, Live>>
  BY DEF cache, Live
<1>4. ASSUME call' \in [Threads -> {"out", "rom", "sram"}] PROVE FillTypes'
  BY <1>3, <1>4 DEF FillInv, FillTypes
<1>5. ASSUME NEW a \in RomAddrs
      PROVE /\ RomRead(t, a) \in Requests /\ RomRead(t, a).ret = t /\ RomRead(t, a).ram = t
            /\ RomRead(t, a).type # "LOOPBACK" /\ RomRead(t, a).pri = "NORMAL"
  <2>1. a \in Addrs
    BY ClientsAssumption DEF ClientsAssumption
  <2> QED BY <1>1, <2>1 DEF RomRead, Requests, Domains
<1>6. ASSUME NEW a \in SramAddrs, NEW flag \in SramFlags
      PROVE /\ SramMove(t, a, flag) \in Requests /\ SramMove(t, a, flag).ret = t /\ SramMove(t, a, flag).ram = t
            /\ SramMove(t, a, flag).type # "LOOPBACK" /\ SramMove(t, a, flag).pri = "NORMAL"
  <2>1. a \in Addrs /\ flag \in {"EDMAREAD", "EDMAWRITE"}
    BY ClientsAssumption DEF ClientsAssumption
  <2> QED BY <1>1, <2>1 DEF SramMove, RomRead, Requests, Domains
<1>7. CASE ReadRom(t) \/ ReadWriteSram(t)
  <2>1. PICK r \in Requests : FirstRequest(t, r) /\ r.ret = t /\ r.ram = t /\ r.type # "LOOPBACK" /\ r.pri = "NORMAL"
    BY <1>5, <1>6, <1>7 DEF ReadRom, ReadWriteSram
  <2>2. PICK w \in {"rom", "sram"} : call' = [call EXCEPT ![t] = w]
    BY <1>7 DEF ReadRom, ReadWriteSram
  <2>3. call[t] = "out"
    BY <1>7 DEF ReadRom, ReadWriteSram, CanCall
  <2>4. t \notin AtWork
    BY <2>3 DEF FillInv, ReadersInv
  <2>5. /\ block' = [block EXCEPT ![t] = r] /\ cmdQueue' = Posted(t, "NORMAL")
        /\ retQueue' = [retQueue EXCEPT ![t] = <<>>] /\ UNCHANGED <<manager, wires>>
    BY <2>1 DEF FirstRequest
  <2>6. /\ retQueue'[t] = <<>> /\ call'[t] # "out" /\ call' \in [Threads -> {"out", "rom", "sram"}]
        /\ \A u \in Threads \ {t} : retQueue'[u] = retQueue[u] /\ call'[u] = call[u]
    BY <1>1, <1>2, <2>2, <2>5
  <2> QED BY <1>3, <1>4, <2>1, <2>4, <2>5, <2>6, ReaderPost
<1>8. CASE NextChunk(t)
  <2>1. PICK a \in RomAddrs : block' = [block EXCEPT ![t] = RomRead(t, a)]
    BY <1>8 DEF NextChunk
  <2>2. /\ retQueue[t] # <<>> /\ retQueue' = [retQueue EXCEPT ![t] = Tail(@)] /\ call' = call
        /\ cmdQueue' = Posted(t, "NORMAL") /\ UNCHANGED <<manager, wires>>
    BY <1>8 DEF NextChunk
  <2>3. t \notin AtWork /\ call[t] # "out" /\ Len(retQueue[t]) <= 1
    BY <2>2 DEF FillInv, ReadersInv
  <2>4. Tail(retQueue[t]) = <<>>
    BY <1>1, <1>2, <2>2, <2>3
  <2>5. /\ retQueue'[t] = <<>> /\ \A u \in Threads \ {t} : retQueue'[u] = retQueue[u] /\ call'[u] = call[u]
    BY <1>1, <1>2, <2>2, <2>4
  <2> DEFINE r == RomRead(t, a)
  <2>6. r \in Requests /\ r.ret = t /\ r.ram = t /\ r.type # "LOOPBACK" /\ block' = [block EXCEPT ![t] = r]
    BY <1>5, <2>1
  <2>7. FillTypes' /\ call'[t] # "out"
    BY <1>2, <1>4, <2>2, <2>3
  <2> HIDE DEF r
  <2> QED BY <1>3, <2>2, <2>3, <2>5, <2>6, <2>7, ReaderPost
<1>9. CASE Return(t)
  <2>1. /\ retQueue[t] # <<>> /\ retQueue' = [retQueue EXCEPT ![t] = Tail(@)] /\ call' = [call EXCEPT ![t] = "out"]
        /\ UNCHANGED <<block, cmdQueue, mgr, mb, kind, bus, held>>
    BY <1>9 DEF Return, Collect, manager, wires
  <2>2. t \notin AtWork /\ Len(retQueue[t]) <= 1
    BY <2>1 DEF FillInv, ReadersInv
  <2>3. Tail(retQueue[t]) = <<>>
    BY <1>1, <1>2, <2>1, <2>2
  <2>4. /\ retQueue'[t] = <<>> /\ call' \in [Threads -> {"out", "rom", "sram"}]
        /\ \A u \in Threads \ {t} : retQueue'[u] = retQueue[u] /\ call'[u] = call[u]
    BY <1>1, <1>2, <2>1, <2>3
  <2>5. Mine' = Mine /\ Queued' = Queued /\ AtWork' = AtWork /\ Pending' = Pending
    BY <1>3, <2>1 DEF Mine, Queued, AtWork, Pending
  <2>6. QueueInv' /\ BlocksInv' /\ FilledInv'
    <3>1. Fills' = Fills
      BY <1>3, <2>1, <2>5 DEF Fills
    <3>2. QueueInv'
      BY <1>3, <2>1, <2>5 DEF FillInv, QueueInv, Distinct
    <3>3. BlocksInv'
      BY <1>3, <2>1, <2>5 DEF FillInv, BlocksInv, AudRequest
    <3>4. FilledInv'
      BY <1>3, <2>1, <3>1 DEF FillInv, FilledInv
    <3> QED BY <3>2, <3>3, <3>4
  <2>7. ReadersInv'
    <3> SUFFICES ASSUME NEW u \in Threads
                 PROVE  /\ u \in AtWork => call'[u] # "out" /\ retQueue'[u] = <<>>
                        /\ Len(retQueue'[u]) <= 1 /\ (retQueue'[u] # <<>> => call'[u] # "out")
                        /\ u \in Served' /\ block[u].type = "EDMAREAD" => held[u] = <<block[u].domain, block[u].dev>>
      BY <2>1, <2>5 DEF ReadersInv
    <3>1. u \in Served' => u \in Served
      BY <2>1, <2>4 DEF Served
    <3>2. CASE u = t
      BY <2>2, <2>4, <3>1, <3>2 DEF FillInv, ReadersInv
    <3>3. CASE u # t
      BY <2>4, <3>1, <3>3 DEF FillInv, ReadersInv
    <3> QED BY <3>2, <3>3
  <2> QED BY <1>4, <2>4, <2>6, <2>7 DEF FillInv
<1>10. CASE GetHandle(t) \/ InRomInit(t)
  <2>1. UNCHANGED <<block, cmdQueue, retQueue, mgr, mb, kind, bus, held, call>>
    BY <1>10 DEF GetHandle, CartRomInit, InRomInit, PiGetAccess, AlreadyBuilt, ProbeSlow, ProbeRestore, LinkHandle,
                 requests, manager, wires, clients
  <2> QED BY <1>2, <1>3, <1>4, <2>1, FillStutter
<1> QED BY <1>7, <1>8, <1>9, <1>10 DEF Calls, InCall

-----------------------------------------------------------------------------
LEMMA ListStutter ==
  ASSUME ListInv, UNCHANGED <<lists, keep, sampleAddr, idle>>
  PROVE  ListInv' /\ Evicts
<1>1. /\ next' = next /\ prev' = prev /\ head' = head /\ free' = free
      /\ keep' = keep /\ sampleAddr' = sampleAddr /\ idle' = idle
  BY DEF lists
<1>2. PICK a, f : Lists(a, f)
  BY DEF ListInv
<1>3. Lists(a, f)'
  BY <1>1, <1>2 DEF Lists, Linked, Follows, Distinct, Lies, Ordered, Aligned
<1> QED BY <1>1, <1>3 DEF ListInv, ListTypes, Ages, Evicts

LEMMA AgeLists ==
  ASSUME ListInv, AgeBuffers
  PROVE  ListInv' /\ Evicts
<1>1. /\ next' = next /\ prev' = prev /\ head' = head /\ free' = free /\ sampleAddr' = sampleAddr
      /\ keep' = [b \in Buffers |-> IF keep[b] = 0 THEN 0 ELSE keep[b] - 1]
      /\ idle' = [b \in Buffers |-> IF idle[b] = FrameLag + 1 THEN idle[b] ELSE idle[b] + 1]
  BY DEF AgeBuffers, lists
<1>2. PICK a, f : Lists(a, f)
  BY DEF ListInv
<1>3. FrameLag \in Nat
  BY CacheAssumption DEF CacheAssumption
<1>4. Ages'
  BY <1>1, <1>3 DEF ListInv, Ages
<1>5. \A i \in 1 .. Len(f) : keep'[f[i]] = 0
  <2>1. \A i \in 1 .. Len(f) : f[i] \in Buffers /\ keep[f[i]] = 0
    BY <1>2 DEF Lists, Follows
  <2> QED BY <1>1, <2>1
<1>6. Lists(a, f)'
  BY <1>1, <1>2, <1>5 DEF Lists, Linked, Follows, Distinct, Lies, Ordered, Aligned
<1> QED BY <1>1, <1>4, <1>6 DEF ListInv, ListTypes, Evicts

LEMMA EndFrameFill ==
  ASSUME PiIInv, FillInv, EndFrame
  PROVE  FillInv'
<1>1. /\ mgr = "command" /\ cmdQueue = <<>> /\ bus = NoDma /\ Live' = 0
      /\ UNCHANGED <<block, cmdQueue, retQueue, mgr, mb, kind, bus, held, sampleAddr, call, dmaCount>>
  BY DEF EndFrame, PiIdle, piVars, requests, manager, wires, clients, PiIInv, CompletionIsMine, Live
<1>2. /\ Len(cmdQueue) = 0 /\ Queued = {} /\ Queued' = {} /\ AtWork = {} /\ AtWork' = {} /\ Pending = {} /\ Pending' = {}
  BY <1>1 DEF Queued, AtWork, Pending
<1>3. \A n : n \notin 0 .. Live' - 1
  BY <1>1
<1>4. QueueInv'
  BY <1>1, <1>2, <1>3 DEF QueueInv, Distinct
<1>5. BlocksInv'
  BY <1>1, <1>2, <1>3 DEF BlocksInv
<1>6. ReadersInv'
  BY <1>1, <1>2 DEF FillInv, ReadersInv, Served
<1>7. FilledInv'
  <2>1. \A b \in Buffers : Fills[b] = {} /\ Fills'[b] = {}
    BY <1>2 DEF Fills
  <2> QED BY <1>1, <2>1 DEF FillInv, FilledInv
<1>8. FillTypes'
  BY <1>1 DEF FillInv, FillTypes, EndFrame
<1> QED BY <1>4, <1>5, <1>6, <1>7, <1>8 DEF FillInv

LEMMA ReapFill ==
  ASSUME PiIInv, FillInv, Reap
  PROVE  FillInv'
<1>1. /\ audPc = "reap" /\ dmaCount > 0 /\ dmaCount' = dmaCount - 1
      /\ UNCHANGED <<audPc, call, sampleAddr>> /\ (Collect(AudQueue) \/ UNCHANGED piVars)
  BY DEF Reap, clients
<1>2. UNCHANGED <<block, cmdQueue, mgr, mb, kind, bus, held>>
  BY <1>1 DEF Collect, piVars, requests, manager, wires
<1>3. Live = 0 /\ Live' = 0
  BY <1>1 DEF Live
<1>4. FillTypes'
  BY <1>1, LiveType DEF FillInv, FillTypes
<1>5. \A t \in Threads : retQueue'[t] = retQueue[t]
  <2>1. AudQueue \notin Threads
    BY CacheAssumption DEF CacheAssumption
  <2>2. CASE Collect(AudQueue)
    <3>1. Threads \subseteq Queues /\ retQueue \in [Queues -> Seq(Blocks)]
      BY ClientsAssumption DEF ClientsAssumption, PiIInv, PiTypeOK
    <3> QED BY <2>1, <2>2, <3>1 DEF Collect
  <2>3. CASE UNCHANGED piVars
    BY <2>3 DEF piVars, requests
  <2> QED BY <1>1, <2>2, <2>3
<1>6. Mine' = Mine /\ Queued' = Queued /\ AtWork' = AtWork /\ Pending' = Pending
  BY <1>2, <1>3 DEF Mine, Queued, AtWork, Pending
<1>7. Fills' = Fills /\ Served' = Served
  BY <1>2, <1>3, <1>5, <1>6 DEF Fills, Served
<1>8. QueueInv'
  BY <1>2, <1>3, <1>6 DEF FillInv, QueueInv, Distinct
<1>9. BlocksInv'
  BY <1>2, <1>3, <1>6 DEF FillInv, BlocksInv, AudRequest
<1>10. ReadersInv'
  BY <1>1, <1>2, <1>5, <1>6, <1>7 DEF FillInv, ReadersInv
<1>11. FilledInv'
  BY <1>1, <1>2, <1>7 DEF FillInv, FilledInv
<1> QED BY <1>4, <1>8, <1>9, <1>10, <1>11 DEF FillInv

LEMMA ListSteps ==
  ASSUME ListInv, [CacheNext]_cacheVars
  PROVE  ListInv' /\ Evicts
<1>1. ASSUME UNCHANGED <<lists, keep, sampleAddr, idle>> PROVE ListInv' /\ Evicts
  BY <1>1, ListStutter
<1>2. CASE Audio
  <2>1. CASE \E x \in SampleAddrs, n \in Lengths : DmaSample(x, n)
    <3>1. PICK x \in SampleAddrs, len \in Lengths : DmaSample(x, len)
      BY <2>1
    <3>2. \/ FetchHit(Scan(x, len).hit)
          \/ FetchFree(x, Scan(x, len).last)
          \/ FetchEvict(x, Scan(x, len).last)
      BY <3>1, Zenon DEF DmaSample
    <3> QED BY <3>2, FetchHitLists, FetchFreeLists, FetchEvictLists
  <2>2. CASE EndFrame \/ Reap
    BY <1>1, <2>2 DEF EndFrame, Reap
  <2>3. CASE AgeBuffers
    BY <2>3, AgeLists
  <2> QED BY <1>2, <2>1, <2>2, <2>3 DEF Audio
<1>3. CASE AudioOpens \/ Manager \/ \E t \in Threads : Reader(t)
  BY <1>1, <1>3 DEF AudioOpens, Manager, Reader, cache
<1>4. CASE UNCHANGED cacheVars
  BY <1>1, <1>4 DEF cacheVars, cache
<1> QED BY <1>2, <1>3, <1>4 DEF CacheNext

LEMMA AudioFill ==
  ASSUME PiIInv, FillInv, QueueFits, Audio
  PROVE  FillInv'
<1>1. CASE \E x \in SampleAddrs, n \in Lengths : DmaSample(x, n)
  <2>1. PICK x \in SampleAddrs, len \in Lengths : DmaSample(x, len)
    BY <1>1
  <2>2. /\ audPc = "synthesis"
        /\ \/ FetchHit(Scan(x, len).hit)
           \/ dmaCount < MaxFetches /\ FetchFree(x, Scan(x, len).last)
           \/ dmaCount < MaxFetches /\ FetchEvict(x, Scan(x, len).last)
    BY <2>1, Zenon DEF DmaSample
  <2>3. CASE FetchHit(Scan(x, len).hit)
    <3>1. UNCHANGED <<block, cmdQueue, retQueue, mgr, mb, kind, bus, held, sampleAddr, call, dmaCount, audPc>>
      BY <2>3 DEF FetchHit, piVars, requests, manager, wires, clients
    <3>2. Live' = Live /\ FillTypes'
      BY <3>1 DEF Live, FillInv, FillTypes
    <3> QED BY <2>3, <3>1, <3>2, FillStutter
  <2>4. CASE dmaCount < MaxFetches /\ FetchFree(x, Scan(x, len).last)
    <3>1. free \in Buffers /\ Claim(free, x)
      BY <2>4 DEF FetchFree
    <3> QED BY <2>2, <2>4, <3>1, ClaimFill
  <2>5. CASE dmaCount < MaxFetches /\ FetchEvict(x, Scan(x, len).last)
    <3>1. PICK v \in Buffers : Claim(v, x)
      BY <2>5, Zenon DEF FetchEvict
    <3> QED BY <2>2, <2>5, <3>1, ClaimFill
  <2> QED BY <2>2, <2>3, <2>4, <2>5
<1>2. CASE EndFrame
  BY <1>2, EndFrameFill
<1>3. CASE Reap
  BY <1>3, ReapFill
<1>4. CASE AgeBuffers
  <2>1. UNCHANGED <<block, cmdQueue, retQueue, mgr, mb, kind, bus, held, sampleAddr, call, dmaCount>>
    BY <1>4 DEF AgeBuffers, piVars, requests, manager, wires, clients
  <2>2. Live' = Live /\ FillTypes'
    BY <1>4, <2>1 DEF AgeBuffers, Live, FillInv, FillTypes
  <2> QED BY <1>4, <2>1, <2>2, FillStutter
<1> QED BY <1>1, <1>2, <1>3, <1>4 DEF Audio

LEMMA FillSteps ==
  ASSUME PiIInv, FillInv, QueueFits, [CacheNext]_cacheVars
  PROVE  FillInv'
<1>1. CASE Audio
  BY <1>1, AudioFill
<1>2. CASE AudioOpens
  <2>1. UNCHANGED <<block, cmdQueue, retQueue, mgr, mb, kind, bus, held, call>>
    BY <1>2 DEF AudioOpens, Opens, GetHandle, CartRomInit, InRomInit, PiGetAccess, AlreadyBuilt, ProbeSlow, ProbeRestore,
                LinkHandle, requests, manager, wires, clients
  <2>2. UNCHANGED <<cache, sampleAddr, Live>> /\ FillTypes'
    BY <1>2, <2>1 DEF AudioOpens, cache, Live, FillInv, FillTypes
  <2> QED BY <2>1, <2>2, FillStutter
<1>3. CASE Manager
  <2>1. UNCHANGED <<clients, cache>> /\ (TakeCommand \/ StartDma \/ Complete \/ BusDone)
    BY <1>3 DEF Manager, ManagerStep
  <2> QED BY <2>1, TakeCommandFill, StartDmaFill, CompleteFill, BusDoneFill
<1>4. CASE \E t \in Threads : Reader(t)
  BY <1>4, CallsFill DEF Reader
<1>5. CASE UNCHANGED cacheVars
  <2>1. UNCHANGED <<cache, block, cmdQueue, retQueue, mgr, mb, kind, bus, held, call, sampleAddr, Live>>
    BY <1>5 DEF cacheVars, cache, piVars, requests, manager, wires, clients, Live
  <2>2. FillTypes'
    BY <2>1 DEF cache, FillInv, FillTypes
  <2> QED BY <2>1, <2>2, FillStutter
<1> QED BY <1>1, <1>2, <1>3, <1>4, <1>5 DEF CacheNext

LEMMA CacheStarts == CacheStart => ListInv /\ FillInv
<1> SUFFICES ASSUME CacheStart PROVE ListInv /\ FillInv
  OBVIOUS
<1> DEFINE f == FirstFree
           At(b) == CHOOSE i \in DOMAIN f : f[i] = b
<1>1. /\ f \in Seq(Buffers) /\ f # <<>> /\ DOMAIN f = 1 .. Len(f) /\ Len(f) \in Nat
      /\ \A b \in Buffers : \E i \in DOMAIN f : f[i] = b
      /\ \A i, j \in DOMAIN f : f[i] = f[j] => i = j
  BY CacheAssumption DEF CacheAssumption
<1>2. /\ next = [b \in Buffers |-> IF At(b) = Len(f) THEN Null ELSE f[At(b) + 1]]
      /\ prev = [b \in Buffers |-> IF At(b) = 1 THEN Null ELSE f[At(b) - 1]]
      /\ head = Null /\ free = Head(f) /\ keep = [b \in Buffers |-> 0] /\ sampleAddr = [b \in Buffers |-> Invalid]
      /\ dmaCount = 0 /\ audPc = "synthesis" /\ idle = [b \in Buffers |-> FrameLag + 1]
  BY DEF CacheStart, CacheInit
<1>3. \A b \in Buffers : At(b) \in 1 .. Len(f) /\ f[At(b)] = b
  BY <1>1
<1>4. \A i \in 1 .. Len(f) : f[i] \in Buffers /\ At(f[i]) = i
  BY <1>1, <1>3
<1> HIDE DEF At, f
<1>5. next \in [Buffers -> Links] /\ prev \in [Buffers -> Links]
  BY <1>1, <1>2, <1>3, <1>4 DEF Links
<1>6. Ages
  <2>1. FrameLag \in Nat
    BY CacheAssumption DEF CacheAssumption
  <2> QED BY <1>2, <2>1 DEF Ages
<1>7. Follows(next, free, f) /\ Distinct(f)
  <2>1. Head(f) = f[1]
    BY <1>1
  <2> QED BY <1>1, <1>2, <1>4, <2>1 DEF Follows, Distinct
<1>8. Lists(<<>>, f)
  <2>1. <<>> \in Seq(Buffers) /\ Len(<<>>) = 0
    OBVIOUS
  <2>2. \A b \in Buffers : Lies(b, f)
    BY <1>3 DEF Lies
  <2>3. \A i \in 1 .. Len(f) : keep[f[i]] = 0
    BY <1>2, <1>4
  <2> QED BY <1>2, <1>7, <2>1, <2>2, <2>3 DEF Lists, Linked, Follows, Distinct, Lies, Ordered
<1>9. ListInv
  BY <1>2, <1>5, <1>6, <1>8 DEF ListInv, ListTypes
<1>10. /\ cmdQueue = <<>> /\ Len(cmdQueue) = 0 /\ retQueue = [q \in Queues |-> <<>>] /\ mgr = "command" /\ bus = NoDma
       /\ call = [t \in Threads |-> "out"]
  BY DEF CacheStart, PiInit, ClientsInit
<1>11. Live = 0 /\ Queued = {} /\ AtWork = {} /\ Pending = {} /\ (\A n : n \notin 0 .. Live - 1)
  BY <1>2, <1>10 DEF Live, Queued, AtWork, Pending
<1>12. FillTypes
  BY <1>2, <1>10, CacheAssumption DEF FillTypes, CacheAssumption
<1>13. QueueInv /\ BlocksInv /\ FilledInv
  BY <1>2, <1>10, <1>11 DEF QueueInv, BlocksInv, FilledInv, Distinct
<1>14. ReadersInv
  <2>1. Threads \subseteq Queues
    BY ClientsAssumption DEF ClientsAssumption
  <2> QED BY <1>10, <1>11, <2>1 DEF ReadersInv, Served
<1> QED BY <1>9, <1>12, <1>13, <1>14 DEF FillInv

LEMMA ListsHold ==
  ASSUME ListInv
  PROVE  ListsWellFormed
<1>1. PICK a, f : Lists(a, f)
  BY DEF ListInv
<1>2. /\ Active = a /\ Ends(next, head) /\ Chain(next, free) = f /\ Ends(next, free)
      /\ a \in Seq(Buffers) /\ f \in Seq(Buffers)
  BY <1>1, ActiveIs DEF ListInv
<1>3. DOMAIN a = 1 .. Len(a) /\ DOMAIN f = 1 .. Len(f) /\ Len(a) \in Nat
  BY <1>2
<1>4. BuffersOf(a) \cap BuffersOf(f) = {}
  BY <1>1, <1>2, <1>3 DEF Lists, Lies, BuffersOf
<1>5. BuffersOf(a) \cup BuffersOf(f) = Buffers
  <2>1. (\A i \in DOMAIN a : a[i] \in Buffers) /\ (\A i \in DOMAIN f : f[i] \in Buffers)
    BY <1>2
  <2>2. ASSUME NEW b \in Buffers PROVE b \in BuffersOf(a) \/ b \in BuffersOf(f)
    <3>1. Lies(b, a) \/ Lies(b, f)
      BY <1>1 DEF Lists
    <3> QED BY <1>3, <3>1 DEF Lies, BuffersOf
  <2> QED BY <2>1, <2>2 DEF BuffersOf
<1>6. ASSUME NEW i \in DOMAIN a
      PROVE  /\ prev[a[i]] = IF i = 1 THEN Null ELSE a[i - 1]
             /\ i > 1 => sampleAddr[a[i - 1]] <= sampleAddr[a[i]]
  <2>1. i \in 1 .. Len(a) /\ (i > 1 => i - 1 \in 1 .. Len(a) /\ i - 1 < i)
    BY <1>3, <1>6
  <2> QED BY <1>1, <2>1 DEF Lists, Linked, Ordered
<1> QED BY <1>2, <1>4, <1>5, <1>6 DEF ListsWellFormed

LEMMA CacheHolds ==
  ASSUME PiIInv, ListInv, FillInv
  PROVE  CacheInv
<1>1. PICK a, f : Lists(a, f)
  BY DEF ListInv
<1>2. /\ Active = a /\ Ends(next, head) /\ Chain(next, free) = f /\ Ends(next, free)
      /\ a \in Seq(Buffers) /\ f \in Seq(Buffers)
  BY <1>1, ActiveIs DEF ListInv
<1>3. DOMAIN a = 1 .. Len(a) /\ DOMAIN f = 1 .. Len(f) /\ Len(a) \in Nat
  BY <1>2
<1>4. \A i \in 1 .. Len(a) : a[i] \in Buffers /\ sampleAddr[a[i]] \in Addrs
  BY <1>1, <1>2, SampleInAddrs DEF Lists, Ordered
<1>5. BuffersHoldSamples
  <2> SUFFICES ASSUME PiIdle, NEW i \in DOMAIN a PROVE held[a[i]] = <<"cart", sampleAddr[a[i]]>>
    BY <1>2 DEF BuffersHoldSamples
  <2>1. mgr = "command" /\ Len(cmdQueue) = 0 /\ bus = NoDma
    BY DEF PiIdle, PiIInv, CompletionIsMine
  <2>2. Pending = {}
    BY <2>1 DEF Pending, Queued
  <2>3. a[i] \in Buffers /\ sampleAddr[a[i]] # Invalid
    BY <1>3, <1>4, CacheAssumption DEF CacheAssumption
  <2>4. Fills[a[i]] = {}
    BY <2>2, <2>3 DEF Fills
  <2> QED BY <2>3, <2>4 DEF FillInv, FilledInv
<1>6. ReplyMeansLoaded
  BY DEF ReplyMeansLoaded, FillInv, ReadersInv, Served
<1> QED BY <1>5, <1>6, ListsHold DEF CacheInv

(* What the steps of the program keep of the PI under the cache.           *)
LEMMA CachePi ==
  ASSUME PiIInv, FillTypes, [CacheNext]_cacheVars
  PROVE  PiIInv'
<1>1. dmaCount \in Nat
  BY DEF FillTypes
<1>2. CASE Audio \/ AudioOpens
  BY <1>1, <1>2, AudioInv
<1>3. CASE Manager
  <2>1. ManagerStep \/ BusDone
    BY <1>3 DEF Manager
  <2> QED BY <2>1, TakeCommandInv, StartDmaInv, CompleteInv, BusDoneInv DEF ManagerStep
<1>4. CASE \E t \in Threads : Reader(t)
  BY <1>4, CallsInv DEF Reader
<1>5. CASE UNCHANGED cacheVars
  <2>1. UNCHANGED piVars
    BY <1>5 DEF cacheVars
  <2>2. block' \in [Blocks -> Requests] /\ cmdQueue' \in Seq(Blocks) /\ retQueue' \in [Queues -> Seq(Blocks)]
    BY <2>1 DEF piVars, requests, PiIInv, PiTypeOK
  <2> QED  BY <2>1, <2>2, RequestsInv DEF piVars
<1> QED BY <1>2, <1>3, <1>4, <1>5 DEF CacheNext

LEMMA CacheBegins == CacheStart => PiIInv /\ ListInv /\ FillInv
BY PiInitInv, CacheStarts DEF CacheStart

(* The lists of __MusIntDmaSample, whatever the PI and the other readers do*)
(* between its calls: active and free can be walked, they partition the    *)
(* buffers, and the active one is ordered by address and linked both ways. *)
THEOREM CacheListsWellFormed == CacheSpec => []ListsWellFormed
<1>1. ListInv /\ [CacheNext]_cacheVars => ListInv'
  BY ListSteps
<1> QED BY CacheBegins, <1>1, ListsHold, PTL DEF CacheSpec

(* The eviction of __MusIntDmaSample takes a buffer that no other was left *)
(* unused longer than.                                                     *)
THEOREM CacheEvictsOldest == CacheSpec => EvictsLeastRecent
<1>1. ListInv /\ [CacheNext]_cacheVars => ListInv'
  BY ListSteps
<1>2. ListInv /\ [CacheNext]_cacheVars
      => [\A b \in Buffers : sampleAddr'[b] # sampleAddr[b] => \A c \in Buffers : idle[c] <= idle[b]]_cacheVars
  BY ListSteps DEF Evicts
<1> QED BY CacheBegins, <1>1, <1>2, PTL DEF CacheSpec, EvictsLeastRecent

(* And with the PI manager and the other readers of the cartridge: a buffer*)
(* in use holds its sample once the PI is quiet, though the player counts  *)
(* its requests down without waiting for their replies, and a reader whose *)
(* wait ends finds its data, as long as the queue of the manager has room  *)
(* for what a frame misses and for one request of every reader.            *)
THEOREM CacheAlways ==
  ASSUME QueueFits
  PROVE  CacheSpec => []CacheInv
<1>1. (PiIInv /\ ListInv /\ FillInv) /\ [CacheNext]_cacheVars => (PiIInv /\ ListInv /\ FillInv)'
  BY QueueFits, CachePi, ListSteps, FillSteps DEF FillInv
<1>2. PiIInv /\ ListInv /\ FillInv => CacheInv
  BY CacheHolds
<1> QED BY CacheBegins, <1>1, <1>2, PTL DEF CacheSpec
================================================================================
