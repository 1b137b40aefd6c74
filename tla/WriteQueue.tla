----------------------------- MODULE WriteQueue -----------------------------
(***************************************************************************)
(* The write queue behind POST /v1/store and POST /v1/step, in its two     *)
(* backends: ArangoQueue (documents of the write_intents collection, leased *)
(* by the claim query) and InProcessQueue (a deque and a dict of in-flight  *)
(* intents).  This module holds the queue's state and its operations; the   *)
(* modules that extend it say who calls them.                               *)
(*                                                                         *)
(* A queue entry is named by its position in enqueue order, which is also   *)
(* what enqueued_at (or the place in the deque) orders by.  A lease is not  *)
(* a clock value: it is "held" while leased_until lies in the future and    *)
(* "lapsed" once it lies in the past.                                       *)
(***************************************************************************)
EXTENDS Naturals

CONSTANTS
  Intents,    \* the distinct write and step intents clients send
  NoIntent,   \* a queue position that holds no entry
  Durable,    \* TRUE: ArangoQueue.  FALSE: InProcessQueue
  MaxDocs     \* bound: entries ever enqueued

ASSUME QueueAssumption ==
  /\ NoIntent \notin Intents
  /\ Durable \in BOOLEAN
  /\ MaxDocs \in Nat

VARIABLES
  doc,        \* position -> the intent it holds, or NoIntent
  lease,      \* position -> "free" | "held" | "lapsed"
  enqueued    \* how many entries have ever been inserted

queueVars == <<doc, lease, enqueued>>

DocIds == 1..MaxDocs
LeaseState == {"free", "held", "lapsed"}

QueueTypeOK ==
  /\ doc \in [DocIds -> Intents \cup {NoIntent}]
  /\ lease \in [DocIds -> LeaseState]
  /\ enqueued \in 0..MaxDocs

QueueInit ==
  /\ doc = [d \in DocIds |-> NoIntent]
  /\ lease = [d \in DocIds |-> "free"]
  /\ enqueued = 0

-----------------------------------------------------------------------------
(* An entry exists until it is acked, whatever its lease: pending_count      *)
(* counts exactly these.                                                     *)
UnackedUnleased == {d \in DocIds : doc[d] # NoIntent /\ lease[d] # "held"}   \* mutant
Unacked == {d \in DocIds : doc[d] # NoIntent}

Queued(i) == \E d \in DocIds : doc[d] = i

(* What the claim query may return: an entry never leased, or whose lease    *)
(* has run out.                                                              *)
ClaimableIgnoringLease(d) == doc[d] # NoIntent                       \* mutant
ClaimableNeverLeased(d) == doc[d] # NoIntent /\ lease[d] = "free"    \* mutant
Claimable(d) == doc[d] # NoIntent /\ lease[d] # "held"

(* SORT enqueued_at LIMIT 1, and popleft.                                    *)
Oldest(d) == Claimable(d) /\ \A e \in DocIds : Claimable(e) => d <= e

Enqueue(i) ==
  /\ enqueued < MaxDocs
  /\ enqueued' = enqueued + 1
  /\ doc' = [doc EXCEPT ![enqueued + 1] = i]
  /\ UNCHANGED lease

PopInsteadOfLease(d) ==                                              \* mutant
  /\ Oldest(d)
  /\ doc' = [doc EXCEPT ![d] = NoIntent]
  /\ UNCHANGED <<lease, enqueued>>

(* The exclusive UPDATE of the claim query: selecting the entry and leasing  *)
(* it is one step.                                                           *)
Claim(d) ==
  /\ Oldest(d)
  /\ lease' = [lease EXCEPT ![d] = "held"]
  /\ UNCHANGED <<doc, enqueued>>

(* Deleting by the entry's key: the same for every holder of the entry, and  *)
(* without effect when it is gone already (ignore_missing).                  *)
Ack(d) ==
  /\ doc' = [doc EXCEPT ![d] = NoIntent]
  /\ lease' = [lease EXCEPT ![d] = "free"]
  /\ UNCHANGED enqueued

(* leased_until falls behind the clock of the next claim.  Only the durable  *)
(* backend has leases that end.                                              *)
Lapse(d) ==
  /\ Durable
  /\ lease[d] = "held"
  /\ lease' = [lease EXCEPT ![d] = "lapsed"]
  /\ UNCHANGED <<doc, enqueued>>

(* The process dies: the durable entries stay, the in-memory ones are gone.  *)
SurviveOrVanish ==
  /\ doc' = IF Durable THEN doc ELSE [d \in DocIds |-> NoIntent]
  /\ lease' = IF Durable THEN lease ELSE [d \in DocIds |-> "free"]
  /\ UNCHANGED enqueued
=============================================================================
