------------------------------ MODULE MesgQueue ------------------------------
(***************************************************************************)
(* What an OSMesgQueue promises its callers: a bounded list of messages.   *)
(* osSendMesg adds at the back, osJamMesg at the front, osRecvMesg takes   *)
(* the front; a non-blocking call that cannot proceed says so and changes  *)
(* nothing else.  MesgRing shows that the ring buffer keeps this promise;  *)
(* OsKernel builds blocking on top of it.                                  *)
(***************************************************************************)
EXTENDS Integers, Sequences

CONSTANTS
  Mesgs,     (* the messages                                               *)
  Slots      (* msgCount                                                   *)

VARIABLES
  held,      (* the buffered messages, oldest first                        *)
  got,       (* the message the last successful receive stored             *)
  ret        (* what the last call returned                                *)

qvars == <<held, got, ret>>

QInit ==
  /\ held = << >>
  /\ got \in Mesgs
  /\ ret = 0

Create ==
  /\ held' = << >>
  /\ UNCHANGED <<got, ret>>

Refuse == ret' = -1 /\ UNCHANGED <<held, got>>

Send(m) ==
  IF Len(held) < Slots
  THEN held' = Append(held, m) /\ ret' = 0 /\ got' = got
  ELSE Refuse

Jam(m) ==
  IF Len(held) < Slots
  THEN held' = <<m>> \o held /\ ret' = 0 /\ got' = got
  ELSE Refuse

Recv(keep) ==
  IF held # << >>
  THEN /\ held' = Tail(held)
       /\ ret' = 0
       /\ got' = IF keep THEN Head(held) ELSE got
  ELSE Refuse

(* The kernel's post of an event reports to nobody.                         *)
Post(m) ==
  /\ held' = IF Len(held) < Slots THEN Append(held, m) ELSE held
  /\ UNCHANGED <<got, ret>>

QNext ==
  \/ Create
  \/ \E m \in Mesgs : Send(m) \/ Jam(m) \/ Post(m)
  \/ \E keep \in BOOLEAN : Recv(keep)

QSpec == QInit /\ [][QNext]_qvars
===============================================================================
