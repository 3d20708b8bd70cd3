------------------------------- MODULE PiClients -------------------------------
(***************************************************************************)
(* Threads that read the cartridge and use its SRAM through the PI manager:*)
(* nuPiReadRom, which asks for one chunk after the other and waits for each*)
(* on a queue of its own stack frame, and nuPiReadWriteSram.  A thread gets*)
(* the cartridge's handle from osCartRomInit before it reads.  Each thread *)
(* has one block, one return queue and one place in RAM, all named by it.  *)
(***************************************************************************)
EXTENDS PiManager

CONSTANTS
  Threads,    (* the threads, a subset of Blocks, Queues, Rams and Direct  *)
  RomAddrs,   (* the addresses they read, SramAddrs for the SRAM           *)
  SramAddrs,
  SramFlags,  (* the directions of nuPiReadWriteSram they use             *)
  MaxChunks   (* the chunks of a read are at most this many                *)

ASSUME ClientsAssumption ==
  /\ Threads \subseteq Blocks \cap Queues \cap Rams \cap Direct
  /\ RomAddrs \cup SramAddrs \subseteq Addrs
  /\ SramFlags \subseteq {"EDMAREAD", "EDMAWRITE"}
  /\ \A t \in Threads : RetMax[t] = 1

VARIABLES
  call,       (* what each thread does: out, rom, sram                     *)
  left        (* the chunks nuPiReadRom has still to ask for               *)

clients == <<call, left>>

RomRead(t, a) == [pri |-> "NORMAL", type |-> "EDMAREAD", domain |-> "cart",
                  dev |-> a, ram |-> t, ret |-> t]
SramMove(t, a, flag) == [RomRead(t, a) EXCEPT !.type = flag, !.domain = "sram"]

CanCall(t) == call[t] = "out" /\ romPc[t] \in {"new", "done"}

(* osCreateMesgQueue on the stack frame, then the first request.           *)
FirstRequest(t, r) ==
  /\ block' = [block EXCEPT ![t] = r]
  /\ cmdQueue' = Posted(t, r.pri)
  /\ retQueue' = [retQueue EXCEPT ![t] = <<>>]
  /\ UNCHANGED <<access, manager, wires, timing, current, rom>>

ReadRom(t) ==
  /\ CanCall(t)
  /\ romPc[t] = "done"
  /\ \E a \in RomAddrs, n \in 1 .. MaxChunks :
       /\ FirstRequest(t, RomRead(t, a))
       /\ left' = [left EXCEPT ![t] = n - 1]
  /\ call' = [call EXCEPT ![t] = "rom"]

ReadWriteSram(t) ==
  /\ CanCall(t)
  /\ \E a \in SramAddrs, flag \in SramFlags : FirstRequest(t, SramMove(t, a, flag))
  /\ call' = [call EXCEPT ![t] = "sram"]
  /\ UNCHANGED left

(* The reply: the next chunk if there is one, and the return otherwise.    *)
NextChunk(t) ==
  /\ left[t] > 0
  /\ retQueue[t] # <<>>
  /\ retQueue' = [retQueue EXCEPT ![t] = Tail(@)]
  /\ \E a \in RomAddrs : block' = [block EXCEPT ![t] = RomRead(t, a)]
  /\ cmdQueue' = Posted(t, "NORMAL")
  /\ left' = [left EXCEPT ![t] = @ - 1]
  /\ UNCHANGED <<access, manager, wires, timing, current, rom, call>>

Return(t) ==
  /\ call[t] # "out"
  /\ left[t] = 0
  /\ Collect(t)
  /\ call' = [call EXCEPT ![t] = "out"]
  /\ UNCHANGED left

(* A thread asks for the handle once.                                      *)
GetHandle(t) ==
  /\ romPc[t] = "new"
  /\ t \in Threads => call[t] = "out"
  /\ CartRomInit(t)
  /\ UNCHANGED clients

InRomInit(t) ==
  /\ PiGetAccess(t) \/ AlreadyBuilt(t) \/ ProbeSlow(t) \/ ProbeRestore(t) \/ LinkHandle(t)
  /\ UNCHANGED clients

ClientsInit ==
  /\ call = [t \in Threads |-> "out"]
  /\ left = [t \in Threads |-> 0]

(* What a thread does once it is inside a call.                            *)
InCall(t) == NextChunk(t) \/ Return(t) \/ InRomInit(t)
Calls(t) == ReadRom(t) \/ ReadWriteSram(t) \/ GetHandle(t) \/ InCall(t)
Opens(t) == GetHandle(t) \/ InRomInit(t)

-----------------------------------------------------------------------------
(* A reply means the data is there: what a thread finds in its buffer when *)
(* its wait ends is what it asked for (nuPiReadRom reads it at once).      *)
ReplyMeansLoaded ==
  \A t \in Threads :
    retQueue[t] # <<>> /\ block[t].type = "EDMAREAD" => held[t] = <<block[t].domain, block[t].dev>>

(* Every read and write returns: the request is not dropped, the token     *)
(* comes back to the manager, and the reply finds room.                    *)
RequestsReturn == \A t \in Threads : []<>(call[t] = "out")
================================================================================
