------------------------------- MODULE TimerSet -------------------------------
(***************************************************************************)
(* What the delta list of libultra's timers stands for: a set of timers,   *)
(* each with the cycles it has still to wait counted from one common base. *)
(* Setting a timer leaves the others alone, time is charged to all of them *)
(* alike, and only the nearest one expires.                                *)
(***************************************************************************)
EXTENDS Integers

CONSTANTS Timers, Waits  (* the waits a timer can be set to               *)

VARIABLE due  (* the wait of each timer that is set                       *)

Set(t, wait) ==
  /\ t \notin DOMAIN due
  /\ due' = [u \in DOMAIN due \cup {t} |-> IF u = t THEN wait ELSE due[u]]

(* Less time has passed than any timer waits.                              *)
Charge(cycles) ==
  /\ \A u \in DOMAIN due : cycles < due[u]
  /\ due' = [u \in DOMAIN due |-> due[u] - cycles]

(* One that waits the shortest expires; its wait is charged to the rest.   *)
(* A periodic timer is set again at once.                                  *)
Expired(t) == [u \in DOMAIN due \ {t} |-> due[u] - due[t]]

Expire(t) ==
  /\ t \in DOMAIN due
  /\ \A u \in DOMAIN due : due[t] <= due[u]
  /\ \/ due' = Expired(t)
     \/ \E interval \in Waits :
          due' = [u \in DOMAIN due |-> IF u = t THEN interval ELSE Expired(t)[u]]

SInit == due = [u \in {} |-> 0]

SNext ==
  \/ \E t \in Timers, wait \in Waits : Set(t, wait)
  \/ \E t \in DOMAIN due : \E cycles \in 1 .. due[t] : Charge(cycles)
  \/ \E t \in Timers : Expire(t)

SSpec == SInit /\ [][SNext]_due
===============================================================================
