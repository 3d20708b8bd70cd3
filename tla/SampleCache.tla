------------------------------ MODULE SampleCache ------------------------------
(***************************************************************************)
(* libmus' cache of sample buffers (aud_dma.c) on the PI manager.  Buffers *)
(* in use form a doubly linked list ordered by the cartridge address they  *)
(* hold, the others a singly linked free list.  The audio thread alone     *)
(* works on the lists: at each fetch of the synthesizer it looks a sample  *)
(* up and, at a miss, takes a free buffer or the one used longest ago and  *)
(* asks the PI manager to fill it, without waiting; once a frame it drains *)
(* the completions and ages the buffers.  The request blocks are taken in  *)
(* order from the first, again in each frame.                              *)
(***************************************************************************)
EXTENDS PiClients, FiniteSets

CONSTANTS
  Buffers,     (* dma_buffer_list, in Rams                                 *)
  FirstFree,   (* the free list __MusIntDmaInit builds, as a sequence      *)
  AudBlock,    (* audio_IO_mess_buf: AudBlock[n] for n from 0              *)
  AudQueue,    (* audDMAMessageQ, which also names the audio thread        *)
  BufferSize,  (* audio_dma_size                                           *)
  SampleAddrs, (* the addresses of samples the synthesizer fetches         *)
  Lengths,     (* the lengths of fetches                                   *)
  FrameLag,    (* FRAME_LAG, 2^29 in the code                              *)
  MaxFetches,  (* the most misses a frame has                              *)
  Null, Invalid

ASSUME CacheAssumption ==
  /\ Buffers \subseteq Rams
  /\ BufferSize \in Nat \ {0}
  /\ \A n \in Lengths : n < BufferSize
  /\ {2 * (a \div 2) : a \in SampleAddrs} \subseteq Addrs
  /\ FrameLag \in Nat
  /\ IsFiniteSet(Buffers) /\ MaxFetches \in Nat
  /\ AudBlock \in [0 .. 2 * Cardinality(Buffers) - 1 -> Blocks]
  /\ AudQueue \in Queues \cap Direct
  /\ MaxFetches <= 2 * Cardinality(Buffers)
  /\ RetMax[AudQueue] = 2 * Cardinality(Buffers)
  /\ Null \notin Buffers /\ Invalid \notin Addrs /\ SampleAddrs \subseteq Nat
  /\ FirstFree \in Seq(Buffers) /\ FirstFree # <<>>
  /\ \A b \in Buffers : \E i \in DOMAIN FirstFree : FirstFree[i] = b
  /\ \A i, j \in DOMAIN FirstFree : FirstFree[i] = FirstFree[j] => i = j
  /\ \A m, n \in DOMAIN AudBlock : AudBlock[m] = AudBlock[n] => m = n
  /\ Threads \cap Buffers = {} /\ AudQueue \notin Threads
  /\ \A n \in DOMAIN AudBlock : AudBlock[n] \notin Threads

VARIABLES
  prev, next,   (* the links                                               *)
  head, free,   (* dma_buffer_head, dma_buffer_free                        *)
  keep,         (* keep_count                                              *)
  sampleAddr,   (* sample_addr                                             *)
  dmaCount,     (* audio_dma_count                                         *)
  audPc,        (* where the audio thread is: synthesis, reap              *)
  idle          (* history: frames since a buffer was used, up to FrameLag *)

lists == <<prev, next, head, free>>
cache == <<lists, keep, sampleAddr, dmaCount, audPc, idle>>
cacheVars  == <<piVars, clients, cache>>

Links == Buffers \cup {Null}

(* The list that starts at p, and whether it ends.                         *)
Chain(nx, p) ==
  LET walk[n \in 0 .. Cardinality(Buffers)] ==
        [q \in Links |-> IF q = Null \/ n = 0 THEN <<>> ELSE <<q>> \o walk[n - 1][nx[q]]]
  IN  walk[Cardinality(Buffers)][p]
Ends(nx, p) ==
  LET after[n \in 0 .. Cardinality(Buffers)] ==
        [q \in Links |-> q = Null \/ (n > 0 /\ after[n - 1][nx[q]])]
  IN  after[Cardinality(Buffers)][p]

Active == Chain(next, head)

-----------------------------------------------------------------------------
(* __MusIntDmaSample.                                                      *)

Covers(b, addr, len) == addr + len <= sampleAddr[b] + BufferSize
First(S) == CHOOSE i \in S : \A j \in S : i <= j

(* The scan up to the first buffer that starts after the sample: the first *)
(* that covers it, and the last one seen.                                  *)
Scan(addr, len) ==
  LET a     == Active
      after == {i \in DOMAIN a : sampleAddr[a[i]] > addr}
      seen  == IF after = {} THEN Len(a) ELSE First(after) - 1
      hits  == {i \in 1 .. seen : Covers(a[i], addr, len)}
  IN  [hit  |-> IF hits = {} THEN Null ELSE a[First(hits)],
       last |-> IF seen = 0 THEN Null ELSE a[seen]]

Fresh == 1 + FrameLag

(* Mutant: the search for the lowest keep_count ends at the first buffer.   *)
OldestIsHead == head

(* The first of those with the lowest keep_count.                          *)
Oldest ==
  LET a == Active
      lowest == {i \in DOMAIN a : \A j \in DOMAIN a : keep[a[i]] <= keep[a[j]]}
  IN  a[First(lowest)]

(* The links after v left the active list for the free one, which is empty.*)
Unlinked(v) ==
  LET prv == IF next[v] = Null THEN prev ELSE [prev EXCEPT ![next[v]] = prev[v]]
      nxt == IF prev[v] = Null THEN next ELSE [next EXCEPT ![prev[v]] = next[v]]
  IN  [prev |-> [prv EXCEPT ![v] = Null], next |-> [nxt EXCEPT ![v] = free],
       head |-> IF prev[v] = Null THEN next[v] ELSE head]

(* The links after b was put behind last, or in front for Null.            *)
Spliced(l, b, last) ==
  LET succ == IF last = Null THEN l.head ELSE l.next[last]
      prv  == [l.prev EXCEPT ![b] = last]
      nxt  == [l.next EXCEPT ![b] = succ]
  IN  [prev |-> IF succ = Null THEN prv ELSE [prv EXCEPT ![succ] = b],
       next |-> IF last = Null THEN nxt ELSE [nxt EXCEPT ![last] = b],
       head |-> IF last = Null THEN b ELSE l.head]

AudRequest(b, a) == [pri |-> "NORMAL", type |-> "EDMAREAD", domain |-> "cart",
                     dev |-> a, ram |-> b, ret |-> AudQueue]
Aligned(addr) == 2 * (addr \div 2)

(* The buffer gets its address and the next request block is posted.       *)
Claim(b, addr) ==
  /\ sampleAddr' = [sampleAddr EXCEPT ![b] = Aligned(addr)]
  /\ keep' = [keep EXCEPT ![b] = Fresh]
  /\ idle' = [idle EXCEPT ![b] = 0]
  /\ dmaCount' = dmaCount + 1
  /\ Request(AudBlock[dmaCount], AudRequest(b, Aligned(addr)))
  /\ UNCHANGED <<clients, audPc>>

FetchHit(b) ==
  /\ b # Null
  /\ keep' = [keep EXCEPT ![b] = Fresh]
  /\ idle' = [idle EXCEPT ![b] = 0]
  /\ UNCHANGED <<piVars, clients, lists, sampleAddr, dmaCount, audPc>>

FetchFree(addr, last) ==
  /\ free \in Buffers
  /\ free' = next[free]
  /\ LET s == Spliced([prev |-> prev, next |-> next, head |-> head], free, last)
     IN  prev' = s.prev /\ next' = s.next /\ head' = s.head
  /\ Claim(free, addr)

(* Mutant: the victim stays the predecessor of itself.                     *)
FetchEvictLinked(addr, last) ==
  /\ free = Null
  /\ \E v \in Buffers \cap {Oldest} :
       /\ LET s == Spliced(Unlinked(v), v, last)
          IN  prev' = s.prev /\ next' = s.next /\ head' = s.head
       /\ Claim(v, addr)
  /\ UNCHANGED free

(* A victim that is the predecessor leaves that role to the one before it. *)
FetchEvict(addr, last) ==
  /\ free = Null
  /\ \E v \in Buffers \cap {Oldest} :
       /\ LET s == Spliced(Unlinked(v), v, IF v = last THEN prev[v] ELSE last)
          IN  prev' = s.prev /\ next' = s.next /\ head' = s.head
       /\ Claim(v, addr)
  /\ UNCHANGED free

DmaSample(addr, len) ==
  /\ audPc = "synthesis"
  /\ \E s \in {Scan(addr, len)} :
       \/ FetchHit(s.hit)
       \/ /\ s.hit = Null /\ dmaCount < MaxFetches
          /\ FetchFree(addr, s.last) \/ FetchEvict(addr, s.last)

-----------------------------------------------------------------------------
(* __MusIntDmaProcess, once a frame.  The player relies on the PI to do the*)
(* transfers of a frame before the next: the count goes down for each block*)
(* whether or not its completion is there, and then the block is refilled. *)

PiIdle == cmdQueue = <<>> /\ mgr = "command"

EndFrame ==
  /\ audPc = "synthesis"
  /\ PiIdle
  /\ audPc' = "reap"
  /\ UNCHANGED <<piVars, clients, lists, keep, sampleAddr, dmaCount, idle>>

(* One turn of the loop: a completion if there is one, the count always.   *)
Reap ==
  /\ audPc = "reap"
  /\ dmaCount > 0
  /\ dmaCount' = dmaCount - 1
  /\ \/ Collect(AudQueue)
     \/ retQueue[AudQueue] = <<>> /\ UNCHANGED piVars
  /\ UNCHANGED <<clients, lists, keep, sampleAddr, audPc, idle>>

AgeBuffers ==
  /\ audPc = "reap"
  /\ dmaCount = 0
  /\ keep' = [b \in Buffers |-> IF keep[b] = 0 THEN 0 ELSE keep[b] - 1]
  /\ idle' = [b \in Buffers |-> IF idle[b] = FrameLag + 1 THEN idle[b] ELSE idle[b] + 1]
  /\ audPc' = "synthesis"
  /\ UNCHANGED <<piVars, clients, lists, sampleAddr, dmaCount>>

-----------------------------------------------------------------------------
(* __MusIntDmaInit: every buffer is free and holds nothing.                *)
CacheInit ==
  /\ next = [b \in Buffers |->
              LET i == CHOOSE i \in DOMAIN FirstFree : FirstFree[i] = b
              IN  IF i = Len(FirstFree) THEN Null ELSE FirstFree[i + 1]]
  /\ prev = [b \in Buffers |->
              LET i == CHOOSE i \in DOMAIN FirstFree : FirstFree[i] = b
              IN  IF i = 1 THEN Null ELSE FirstFree[i - 1]]
  /\ head = Null
  /\ free = Head(FirstFree)
  /\ keep = [b \in Buffers |-> 0]
  /\ sampleAddr = [b \in Buffers |-> Invalid]
  /\ dmaCount = 0
  /\ audPc = "synthesis"
  /\ idle = [b \in Buffers |-> FrameLag + 1]

AnyRequest == CHOOSE r \in Requests : r.type = "EDMAREAD"
CacheStart == block = [b \in Blocks |-> AnyRequest] /\ PiInit /\ ClientsInit /\ CacheInit

(* The audio thread works once its handle is there.                        *)
Audio ==
  /\ romPc[AudQueue] = "done"
  /\ (\E a \in SampleAddrs, n \in Lengths : DmaSample(a, n)) \/ EndFrame \/ Reap \/ AgeBuffers
Manager == (ManagerStep \/ BusDone) /\ UNCHANGED <<clients, cache>>
Reader(t) == Calls(t) /\ UNCHANGED cache

AudioOpens == Opens(AudQueue) /\ UNCHANGED cache

CacheNext == Audio \/ AudioOpens \/ Manager \/ \E t \in Threads : Reader(t)

(* The hardware finishes a transfer, the manager is the highest of these   *)
(* threads, and a thread inside a call gets the CPU.                       *)
CacheFairness ==
  /\ WF_cacheVars(Manager)
  /\ \A t \in Threads : SF_cacheVars(InCall(t) /\ UNCHANGED cache)
  /\ WF_cacheVars(InRomInit(AudQueue) /\ UNCHANGED cache)

CacheSpec == CacheStart /\ [][CacheNext]_cacheVars /\ CacheFairness

-----------------------------------------------------------------------------
(* The links are two lists that end: the active one can be walked both ways*)
(* and is ordered by address, and every buffer is on exactly one of the    *)
(* two.  Lookups walk the list without any check.                          *)
BuffersOf(list) == {list[i] : i \in DOMAIN list}
ListsWellFormed ==
  LET a == Active
      f == Chain(next, free)
  IN  /\ Ends(next, head) /\ Ends(next, free)
      /\ BuffersOf(a) \cap BuffersOf(f) = {} /\ BuffersOf(a) \cup BuffersOf(f) = Buffers
      /\ \A i \in DOMAIN a :
           /\ prev[a[i]] = IF i = 1 THEN Null ELSE a[i - 1]
           /\ i > 1 => sampleAddr[a[i - 1]] <= sampleAddr[a[i]]

(* The buffer that loses its sample is one not used more recently than any *)
(* other: a sample of the frame in the making, or of the one the RSP still *)
(* reads, only goes when every buffer holds one at least as recent.        *)
EvictsLeastRecent ==
  [][\A b \in Buffers :
       sampleAddr'[b] # sampleAddr[b] => \A c \in Buffers : idle[c] <= idle[b]]_cacheVars

(* Once the PI is quiet, each buffer in use holds the sample its address   *)
(* promises, whatever was evicted and fetched again in between.            *)
BuffersHoldSamples ==
  PiIdle => \A i \in DOMAIN Active : held[Active[i]] = <<"cart", sampleAddr[Active[i]]>>

(* The sample cache of aud_dma.c: its two lists keep all buffers, in order, *)
(* a buffer in use holds the sample it promises, and so does the buffer of  *)
(* another reader of the cartridge when its wait ends.                      *)
CacheInv == ListsWellFormed /\ BuffersHoldSamples /\ ReplyMeansLoaded
================================================================================
