--------------------------- MODULE WriteDelivery ---------------------------
(***************************************************************************)
(* What the durable write path promises a client about each intent it       *)
(* accepted, with queues, leases, workers and retries left out: it is       *)
(* pending until it is stored or dead-lettered, a dead letter can be taken   *)
(* up again, and nothing ever leaves that cycle except by being stored.     *)
(***************************************************************************)
CONSTANT Intents

VARIABLE status   \* intent -> "new" | "pending" | "failed" | "stored"

Status == {"new", "pending", "failed", "stored"}

DeliveryTypeOK == status \in [Intents -> Status]

DeliveryInit == status = [i \in Intents |-> "new"]

(* A client sends the intent, for the first time or after it failed; or the  *)
(* operator replays it.                                                      *)
Undertake(i) ==
  /\ status[i] \in {"new", "failed"}
  /\ status' = [status EXCEPT ![i] = "pending"]

(* One commit stores every intent that shares its key: redaction can map     *)
(* different turns to the same stored one.                                   *)
StoreAll(S) ==
  /\ S # {}
  /\ \A i \in S : status[i] # "stored"
  /\ status' = [i \in Intents |-> IF i \in S THEN "stored" ELSE status[i]]

GiveUp(i) ==
  /\ status[i] = "pending"
  /\ status' = [status EXCEPT ![i] = "failed"]

DeliveryNext ==
  \/ \E i \in Intents : Undertake(i) \/ GiveUp(i)
  \/ \E S \in SUBSET Intents : StoreAll(S)

DeliverySpec == DeliveryInit /\ [][DeliveryNext]_status
=============================================================================
