------------------------------- MODULE MesgRing -------------------------------
(***************************************************************************)
(* The ring buffer inside an OSMesgQueue, as osCreateMesgQueue,            *)
(* osSendMesg, osJamMesg, osRecvMesg and the exception handler's send_mesg *)
(* handle it: the storage is the caller's, first is the oldest entry and   *)
(* validCount the number of entries, and every index is taken modulo       *)
(* msgCount.  The calls are the non-blocking ones; a blocking call is the  *)
(* same code behind the waiting that OsKernel models.                      *)
(***************************************************************************)
EXTENDS Integers, Sequences

CONSTANTS Mesgs, msgCount

ASSUME RingAssumption == msgCount \in Nat \ {0}

Slot == 0 .. msgCount - 1

VARIABLES
  msg,         (* mq->msg: the caller's storage                             *)
  first,       (* mq->first                                                 *)
  validCount,  (* mq->validCount                                            *)
  got,         (* the message the last successful osRecvMesg stored         *)
  ret          (* what the last call returned                               *)

vars == <<msg, first, validCount, got, ret>>

IsFull  == validCount >= msgCount     \* MQ_IS_FULL
IsEmpty == validCount = 0             \* MQ_IS_EMPTY

Refused == ret' = -1 /\ UNCHANGED <<msg, first, validCount, got>>

(* osCreateMesgQueue, on storage with any old contents.                     *)
OsCreateMesgQueue ==
  /\ validCount' = 0
  /\ first' = 0
  /\ UNCHANGED <<msg, got, ret>>

(* Mutant: the tail slot is not taken modulo msgCount.                      *)
StoreUnwrapped(m) ==
  /\ msg' = [i \in Slot |-> IF i = first + validCount THEN m ELSE msg[i]]
  /\ validCount' = validCount + 1
  /\ first' = first

(* Store at the tail slot.                                                  *)
Store(m) ==
  LET last == (first + validCount) % msgCount
  IN  /\ msg' = [msg EXCEPT ![last] = m]
      /\ validCount' = validCount + 1
      /\ first' = first

OsSendMesg(m) ==
  \/ IsFull /\ Refused
  \/ ~IsFull /\ Store(m) /\ ret' = 0 /\ got' = got

(* Mutant: the head is stepped back without adding msgCount first, so it    *)
(* stays where it is when it is slot 0 (a remainder, as in C, keeps the     *)
(* sign, and the store goes to slot 0).                                     *)
JamUnwrapped(m) ==
  \/ IsFull /\ Refused
  \/ /\ ~IsFull
     /\ first' = IF first = 0 THEN 0 ELSE first - 1
     /\ msg' = [msg EXCEPT ![first'] = m]
     /\ validCount' = validCount + 1
     /\ ret' = 0
     /\ got' = got

OsJamMesg(m) ==
  \/ IsFull /\ Refused
  \/ /\ ~IsFull
     /\ first' = (first + msgCount - 1) % msgCount
     /\ msg' = [msg EXCEPT ![first'] = m]
     /\ validCount' = validCount + 1
     /\ ret' = 0
     /\ got' = got

(* Mutant: the head is not taken modulo msgCount.                           *)
RecvUnwrapped(keep) ==
  \/ IsEmpty /\ Refused
  \/ /\ ~IsEmpty
     /\ got' = IF keep THEN msg[first] ELSE got
     /\ first' = first + 1
     /\ validCount' = validCount - 1
     /\ ret' = 0
     /\ msg' = msg

(* keep says whether the caller passed a place to store the message.        *)
OsRecvMesg(keep) ==
  \/ IsEmpty /\ Refused
  \/ /\ ~IsEmpty
     /\ got' = IF keep THEN msg[first] ELSE got
     /\ first' = (first + 1) % msgCount
     /\ validCount' = validCount - 1
     /\ ret' = 0
     /\ msg' = msg

(* send_mesg of the exception handler: a full queue drops the event.        *)
PostEvent(m) ==
  /\ ~IsFull
  /\ Store(m)
  /\ UNCHANGED <<got, ret>>

Init ==
  /\ msg \in [Slot -> Mesgs]
  /\ got \in Mesgs
  /\ ret = 0
  /\ first = 0
  /\ validCount = 0

Next ==
  \/ OsCreateMesgQueue
  \/ \E m \in Mesgs : OsSendMesg(m) \/ OsJamMesg(m) \/ PostEvent(m)
  \/ \E keep \in BOOLEAN : OsRecvMesg(keep)

Spec == Init /\ [][Next]_vars

-----------------------------------------------------------------------------

(* The indices stay inside the storage.                                     *)
TypeOK ==
  /\ msg \in [Slot -> Mesgs]
  /\ first \in Slot
  /\ validCount \in 0 .. msgCount
  /\ got \in Mesgs
  /\ ret \in {0, -1}

(* The entries from first on, wrapping round.                               *)
Held == [i \in 1 .. validCount |-> msg[(first + i - 1) % msgCount]]

Queue == INSTANCE MesgQueue WITH held <- Held, Slots <- msgCount

(* The ring is a bounded list whatever the position of first: no message is *)
(* overwritten, lost, duplicated or reordered when the indices wrap.        *)
RingImplementsQueue == Queue!QSpec
===============================================================================
