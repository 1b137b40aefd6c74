-------------------------- MODULE WritePathProofs --------------------------
(***************************************************************************)
(* Theorems about WritePath, for every set of instances, threads, intents   *)
(* and keys, every retry limit and every bound, and that it implements       *)
(* WriteDelivery.                                                           *)
(***************************************************************************)
EXTENDS WritePath, SumTheorems, TLAPS

(* A thread has an intent in hand exactly while it commits it, dead-letters  *)
(* it, acks it or answers for it.                                            *)
WorkingAt == CommitAt \cup {"bury", "ack", "reply"}

TaskInHand ==
  \A t \in Threads : IF pc[t] \in WorkingAt THEN task[t] \in Intents ELSE task[t] = NoIntent

TypeInv == TypeOK /\ TaskInHand

-----------------------------------------------------------------------------

LEMMA TypeInit == Init => TypeInv
BY QueueAssumption, PathAssumption
   DEF Init, QueueInit, TypeInv, TypeOK, QueueTypeOK, TaskInHand, WorkingAt, CommitAt, StoreAt,
       StepAt, Location, DocIds, LeaseState

LEMMA FaultFrame ==
  ASSUME NEW stopped, Fault(stopped) PROVE UNCHANGED <<buried, overrun, raced, stepsSent, syncs>>
BY DEF Fault

(* What a failure does to the counters and to cut.                           *)
FaultTyped ==
  /\ faults' = faults + 1 /\ faults' \in Nat /\ cut' \subseteq Keys
  /\ UNCHANGED <<buried, overrun, raced, stepsSent, syncs>>

LEMMA FaultTypes ==
  ASSUME TypeInv, NEW stopped \in SUBSET Threads, Fault(stopped) PROVE FaultTyped
<1>1. \A t \in stopped : UnderWay(t) => StoredKey[task[t]] \in Keys
  BY PathAssumption DEF UnderWay, TypeInv, TaskInHand, WorkingAt, CommitAt, StoreAt
<1>2. cut' \subseteq Keys
  BY <1>1 DEF Fault, TypeInv, TypeOK
<1> QED
  BY <1>2 DEF Fault, FaultTyped, TypeInv, TypeOK

LEMMA TypeStep == TypeInv /\ [Next]_vars => TypeInv'
<1> SUFFICES ASSUME TypeInv, [Next]_vars PROVE TypeInv'
  OBVIOUS
<1> USE QueueAssumption, PathAssumption
<1> USE DEF TypeInv, TypeOK, QueueTypeOK, TaskInHand, WorkingAt, CommitAt, StoreAt, StepAt,
            Location, DocIds, LeaseState, FirstStatement, Advance, LetGo, TakeUp, Returned,
            queueVars, threadVars, storeVars, replayVars, clientVars, histVars
<1>1. ASSUME NEW t \in Threads, CommitStatement(t) PROVE TypeInv'
  <2>1. CASE CheckNew(t)
    <3>1. raced' \subseteq Keys
      BY <2>1 DEF CheckNew
    <3> QED
      BY <2>1, <3>1 DEF CheckNew
  <2>2. CASE InsertEpisode(t)
    BY <2>2 DEF InsertEpisode
  <2>3. CASE InsertMemory(t)
    BY <2>3 DEF InsertMemory
  <2>4. CASE Derive(t)
    BY <2>4 DEF Derive
  <2>5. CASE UpsertStep(t)
    BY <2>5 DEF UpsertStep
  <2>6. CASE LinkStep(t)
    BY <2>6 DEF LinkStep
  <2> QED
    BY <1>1, <2>1, <2>2, <2>3, <2>4, <2>5, <2>6 DEF CommitStatement
<1>2. ASSUME NEW t \in Threads, CommitRetries(t) PROVE TypeInv'
  <2>1. /\ pc[t] \in CommitAt /\ tries[t] + 1 < MaxRetries
        /\ pc' = [pc EXCEPT ![t] = FirstStatement(task[t])] /\ tries' = [tries EXCEPT ![t] = @ + 1]
        /\ UNCHANGED <<task, holding, isNew, queueVars, storeVars, failed, replayVars, clientVars>>
    BY <1>2 DEF CommitRetries
  <2>f. FaultTyped
    BY <1>2, FaultTypes DEF CommitRetries
  <2>2. pc' \in [Threads -> Location] /\ pc'[t] \in CommitAt /\ \A u \in Threads \ {t} : pc'[u] = pc[u]
    BY <2>1
  <2>3. tries' \in [Threads -> 0..MaxRetries]
    <3>1. tries[t] + 1 \in 0..MaxRetries
      BY <2>1
    <3> QED
      BY <2>1, <3>1
  <2>4. TaskInHand'
    BY <2>1, <2>2
  <2>5. TypeOK'
    BY <2>1, <2>2, <2>3, <2>f DEF FaultTyped
  <2> QED
    BY <2>4, <2>5
<1>3. ASSUME NEW t \in Threads, CommitExhausted(t) PROVE TypeInv'
  <2>1. FaultTyped
    BY <1>3, FaultTypes DEF CommitExhausted
  <2> QED
    BY <1>3, <2>1 DEF CommitExhausted, FaultTyped
<1>4. ASSUME NEW t \in Threads, DeadLetter(t) PROVE TypeInv'
  BY <1>4 DEF DeadLetter
<1>5. ASSUME NEW w \in Workers, WorkerStep(w) PROVE TypeInv'
  <2>0. w \in Threads
    BY DEF Threads
  <2>1. CASE ClaimNext(w)
    BY <2>0, <2>1 DEF ClaimNext, Claim, Oldest, Claimable
  <2>2. CASE AckClaim(w)
    BY <2>0, <2>2 DEF AckClaim, Ack
  <2>3. CASE ThreadDies(w)
    <3>1. FaultTyped
      BY <2>0, <2>3, FaultTypes DEF ThreadDies
    <3> QED
      BY <2>0, <2>3, <3>1 DEF ThreadDies, FaultTyped
  <2>4. CASE ClaimReplyLost(w)
    <3>1. FaultTyped
      BY <2>0, <2>4, FaultTypes DEF ClaimReplyLost
    <3> QED
      BY <2>0, <2>4, <3>1 DEF ClaimReplyLost, Claim, Oldest, Claimable, FaultTyped
  <2> QED
    BY <1>5, <2>1, <2>2, <2>3, <2>4 DEF WorkerStep
<1>6. ASSUME NEW h \in Handlers, HandlerStep(h) PROVE TypeInv'
  <2>0. h \in Threads
    BY DEF Threads
  <2>1. ASSUME NEW i \in Async, PostAsync(h, i) PROVE TypeInv'
    BY <2>0, <2>1 DEF PostAsync, CountStep, Enqueue
  <2>2. ASSUME NEW i \in Sync, PostSync(h, i) PROVE TypeInv'
    BY <2>0, <2>2 DEF PostSync, CountStep
  <2>3. CASE SyncFails(h)
    <3>1. FaultTyped
      BY <2>0, <2>3, FaultTypes DEF SyncFails
    <3> QED
      BY <2>0, <2>3, <3>1 DEF SyncFails, FaultTyped
  <2>4. CASE Reply(h)
    BY <2>0, <2>4 DEF Reply
  <2>5. CASE FlushBegins(h)
    BY <2>0, <2>5 DEF FlushBegins
  <2>6. CASE FlushReturns(h)
    BY <2>0, <2>6 DEF FlushReturns
  <2>7. CASE FlushTimesOut(h)
    BY <2>0, <2>7 DEF FlushTimesOut
  <2> QED
    BY <1>6, <2>1, <2>2, <2>3, <2>4, <2>5, <2>6, <2>7 DEF HandlerStep
<1>7. ASSUME ReplayStep PROVE TypeInv'
  <2>0. Ops \in Threads
    BY DEF Threads
  <2>1. CASE ReplayBegins
    BY <2>0, <2>1 DEF ReplayBegins
  <2>2. CASE ReplayMoved
    BY <2>0, <2>2 DEF ReplayMoved
  <2>3. CASE ReplayAcks
    BY <2>0, <2>3 DEF ReplayAcks
  <2>4. CASE ReplayEnds
    BY <2>0, <2>4 DEF ReplayEnds
  <2>5. CASE ReplayDies
    <3>1. FaultTyped
      BY <2>0, <2>5, FaultTypes DEF ReplayDies
    <3> QED
      BY <2>0, <2>5, <3>1 DEF ReplayDies, FaultTyped
  <2>6. ASSUME NEW i \in Intents, ReplayMoves(i) PROVE TypeInv'
    BY <2>0, <2>6 DEF ReplayMoves
  <2>7. ASSUME NEW i \in Intents, ReplayClaims(i) PROVE TypeInv'
    BY <2>0, <2>7 DEF ReplayClaims
  <2> QED
    BY <1>7, <2>1, <2>2, <2>3, <2>4, <2>5, <2>6, <2>7 DEF ReplayStep
<1>8. ASSUME Environment PROVE TypeInv'
  <2>1. ASSUME NEW n \in Instances, Crash(n) PROVE TypeInv'
    <3>1. Hosted(n) \subseteq Threads
      BY DEF Hosted, Threads
    <3>2. FaultTyped
      BY <2>1, <3>1, FaultTypes DEF Crash
    <3> QED
      BY <2>1, <3>1, <3>2 DEF Crash, SurviveOrVanish, FaultTyped
  <2>2. ASSUME NEW n \in Instances, Restart(n) PROVE TypeInv'
    BY <2>2 DEF Restart, Hosted, Threads
  <2>3. ASSUME NEW d \in DocIds, LeaseExpires(d) PROVE TypeInv'
    BY <2>3 DEF LeaseExpires, Lapse
  <2>4. ASSUME NEW d \in DocIds, LeaseOverruns(d) PROVE TypeInv'
    BY <2>4 DEF LeaseOverruns, Lapse
  <2>5. CASE ViewCommits
    BY <2>5 DEF ViewCommits
  <2> QED
    BY <1>8, <2>1, <2>2, <2>3, <2>4, <2>5 DEF Environment
<1>9. CASE UNCHANGED vars
  BY <1>9 DEF vars
<1> QED
  BY <1>1, <1>2, <1>3, <1>4, <1>5, <1>6, <1>7, <1>8, <1>9 DEF Next, Loop

(* Every variable keeps its type; in particular no commit is attempted more  *)
(* than write_max_retries times (process() in worker.py).                    *)
THEOREM TypesHold == Spec => []TypeOK
<1>1. TypeInv => TypeOK
  BY DEF TypeInv
<1> QED
  BY TypeInit, TypeStep, <1>1, PTL DEF Spec

-----------------------------------------------------------------------------
(* Why the flush barrier and the sync reply keep their word.                 *)

(* Positions past the last enqueued one are empty, so an enqueue overwrites  *)
(* nothing.                                                                  *)
PositionsInUse == \A d \in DocIds : doc[d] # NoIntent => d <= enqueued

(* The entry a worker holds is the one its intent came from, until somebody  *)
(* acks it.                                                                  *)
HoldsItsTask ==
  \A t \in Threads : holding[t] # 0 =>
     /\ t \in Workers
     /\ holding[t] <= enqueued
     /\ doc[holding[t]] \in {task[t], NoIntent}

(* What the commit has done by the time a thread stands where it stands.     *)
CommitProgress ==
  \A t \in Threads :
     /\ pc[t] \in StoreAt => task[t] \notin Steps
     /\ pc[t] \in StepAt => task[t] \in Steps
     /\ pc[t] = "derive" => StoredKey[task[t]] \in memories
     /\ pc[t] = "reply" => t \in Handlers /\ Stored(task[t])
     /\ pc[t] = "ack" => t \notin Handlers /\ (Stored(task[t]) \/ task[t] \in buried)
     /\ pc[t] = "bury" => t \notin Handlers

(* The replay command only ever has what was dead-lettered.                  *)
ReplayHasBuried ==
  /\ unread \subseteq buried /\ replayQ \subseteq buried
  /\ task[Ops] \in buried \cup {NoIntent}
  /\ \A k \in Keys : failed[k] \in buried \cup {NoIntent}

ViewBehind == searchable \subseteq memories

AcceptedIsSomewhere ==
  /\ \A i \in accepted : Stored(i) \/ Queued(i) \/ i \in buried
  /\ \A h \in Handlers : due[h] \subseteq accepted

PromiseInv ==
  /\ PositionsInUse
  /\ HoldsItsTask
  /\ CommitProgress
  /\ ReplayHasBuried
  /\ ViewBehind
  /\ AcceptedIsSomewhere
  /\ FlushBarrier
  /\ SyncReadable

LEMMA PromiseInit == Init => PromiseInv
BY QueueAssumption, PathAssumption
   DEF Init, QueueInit, PromiseInv, PositionsInUse, HoldsItsTask, CommitProgress, ReplayHasBuried,
       ViewBehind, AcceptedIsSomewhere, FlushBarrier, SyncReadable, StoreAt, StepAt, Threads

LEMMA PromiseStep == TypeInv /\ TypeInv' /\ PromiseInv /\ [Next]_vars => PromiseInv'
<1> SUFFICES ASSUME TypeInv, TypeInv', PromiseInv, [Next]_vars PROVE PromiseInv'
  OBVIOUS
<1> USE QueueAssumption, PathAssumption
<1> USE DEF PromiseInv, PositionsInUse, HoldsItsTask, CommitProgress, ReplayHasBuried, ViewBehind,
            AcceptedIsSomewhere, FlushBarrier, SyncReadable, Stored, Readable, Queued,
            TypeInv, TypeOK, QueueTypeOK, TaskInHand, WorkingAt, CommitAt, StoreAt, StepAt,
            DocIds, FirstStatement, Advance, LetGo, TakeUp, Returned,
            queueVars, threadVars, storeVars, replayVars, clientVars, histVars
<1>1. ASSUME NEW t \in Threads, CommitStatement(t) PROVE PromiseInv'
  <2>1. CASE CheckNew(t)
    BY <2>1 DEF CheckNew
  <2>2. CASE InsertEpisode(t)
    BY <2>2 DEF InsertEpisode
  <2>3. CASE InsertMemory(t)
    <3>1. PositionsInUse' /\ HoldsItsTask' /\ ReplayHasBuried'
      BY <2>3 DEF InsertMemory
    <3>2. CommitProgress'
      BY <2>3 DEF InsertMemory
    <3>3. ViewBehind' /\ SyncReadable'
      BY <2>3 DEF InsertMemory
    <3>4. AcceptedIsSomewhere' /\ FlushBarrier'
      BY <2>3 DEF InsertMemory
    <3> QED
      BY <3>1, <3>2, <3>3, <3>4
  <2>4. CASE Derive(t)
    BY <2>4 DEF Derive
  <2>5. CASE UpsertStep(t)
    BY <2>5 DEF UpsertStep
  <2>6. CASE LinkStep(t)
    <3>1. task[t] \in Intents \cap Steps /\ linked' = linked \cup {task[t]}
      BY <2>6 DEF LinkStep
    <3>2. CommitProgress'
      <4>1. \A i \in Intents : Stored(i) => Stored(i)'
        BY <2>6, <3>1 DEF LinkStep
      <4>2. /\ \A u \in Threads \ {t} : pc'[u] = pc[u] /\ task'[u] = task[u]
            /\ memories' = memories /\ buried' = buried
        BY <2>6 DEF LinkStep
      <4>3. ASSUME NEW u \in Threads \ {t}, pc[u] = "reply" PROVE u \in Handlers /\ Stored(task[u])'
        BY <4>1, <4>2, <4>3
      <4>4. ASSUME NEW u \in Threads \ {t}, pc[u] = "ack"
            PROVE  u \notin Handlers /\ (Stored(task[u])' \/ task[u] \in buried)
        BY <4>1, <4>2, <4>4
      <4>5. /\ pc'[t] = Returned(t) /\ task'[t] = task[t] /\ Stored(task[t])'
        BY <2>6, <3>1 DEF LinkStep
      <4>6. \A u \in Threads \ {t} :
              /\ pc'[u] \in StoreAt => task'[u] \notin Steps
              /\ pc'[u] \in StepAt => task'[u] \in Steps
              /\ pc'[u] = "derive" => StoredKey[task'[u]] \in memories'
              /\ pc'[u] = "bury" => u \notin Handlers
        BY <4>2
      <4>7. \A u \in Threads \ {t} :
              /\ pc'[u] = "reply" => u \in Handlers /\ Stored(task[u])'
              /\ pc'[u] = "ack" => u \notin Handlers /\ (Stored(task[u])' \/ task'[u] \in buried')
        BY <4>2, <4>3, <4>4
      <4>8. IF t \in Handlers THEN pc'[t] = "reply" ELSE pc'[t] = "ack"
        BY <4>5
      <4>9. /\ pc'[t] \notin StoreAt \cup StepAt \cup {"derive", "bury"}
            /\ pc'[t] = "reply" => t \in Handlers /\ Stored(task[t])'
            /\ pc'[t] = "ack" => t \notin Handlers /\ (Stored(task[t])' \/ task'[t] \in buried')
        BY <4>5, <4>8
      <4>10. \A u \in Threads : u = t \/ u \in Threads \ {t}
        OBVIOUS
      <4> HIDE DEF Stored, StoreAt, StepAt
      <4> QED
        BY <4>6, <4>7, <4>9, <4>10
    <3>3. AcceptedIsSomewhere' /\ FlushBarrier' /\ SyncReadable'
      BY <2>6, <3>1 DEF LinkStep
    <3> QED
      BY <2>6, <3>2, <3>3 DEF LinkStep
  <2> QED
    BY <1>1, <2>1, <2>2, <2>3, <2>4, <2>5, <2>6 DEF CommitStatement
<1>2. ASSUME NEW t \in Threads, CommitRetries(t) PROVE PromiseInv'
  BY <1>2, FaultFrame DEF CommitRetries
<1>3. ASSUME NEW t \in Threads, CommitExhausted(t) PROVE PromiseInv'
  BY <1>3, FaultFrame DEF CommitExhausted
<1>4. ASSUME NEW t \in Threads, DeadLetter(t) PROVE PromiseInv'
  <2>1. PositionsInUse' /\ HoldsItsTask' /\ ViewBehind' /\ SyncReadable'
    BY <1>4 DEF DeadLetter
  <2>2. CommitProgress'
    BY <1>4 DEF DeadLetter
  <2>3. ReplayHasBuried'
    BY <1>4 DEF DeadLetter
  <2>4. AcceptedIsSomewhere' /\ FlushBarrier'
    BY <1>4 DEF DeadLetter
  <2> QED
    BY <2>1, <2>2, <2>3, <2>4
<1>5. ASSUME NEW w \in Workers, WorkerStep(w) PROVE PromiseInv'
  <2>0. w \in Threads
    BY DEF Threads
  <2>1. CASE ClaimNext(w)
    <3>1. PICK d \in DocIds : Claim(d) /\ TakeUp(w, doc[d], d)
      BY <2>1 DEF ClaimNext
    <3>2. doc[d] # NoIntent /\ doc[d] \in Intents
      BY <3>1 DEF Claim, Oldest, Claimable
    <3>3. UNCHANGED <<storeVars, failed, replayVars, clientVars, histVars, doc, enqueued>>
      BY <2>1, <3>1 DEF ClaimNext, Claim
    <3>4. PositionsInUse' /\ HoldsItsTask'
      BY <2>0, <3>1, <3>2, <3>3
    <3>5. CommitProgress'
      BY <2>0, <3>1, <3>2, <3>3
    <3>6. ReplayHasBuried' /\ ViewBehind' /\ AcceptedIsSomewhere' /\ FlushBarrier' /\ SyncReadable'
      BY <2>0, <3>1, <3>3
    <3> QED
      BY <3>4, <3>5, <3>6
  <2>2. CASE AckClaim(w)
    <3>1. \A i \in Intents : Queued(i) => Queued(i)' \/ i = task[w]
      BY <2>0, <2>2 DEF AckClaim, Ack
    <3>2. Stored(task[w]) \/ task[w] \in buried
      BY <2>0, <2>2 DEF AckClaim
    <3>3. AcceptedIsSomewhere'
      <4>1. UNCHANGED <<accepted, due, memories, linked, buried>>
        BY <2>2 DEF AckClaim
      <4>2. \A i \in accepted : Stored(i)' \/ Queued(i)' \/ i \in buried'
        <5> SUFFICES ASSUME NEW i \in accepted, ~Queued(i)' PROVE Stored(i)' \/ i \in buried'
          OBVIOUS
        <5>1. i \in Intents /\ (Stored(i) \/ Queued(i) \/ i \in buried)
          OBVIOUS
        <5>2. Stored(i) \/ i \in buried
          <6> HIDE DEF Queued, Stored
          <6> QED
            BY <5>1, <3>1, <3>2
        <5> QED
          BY <5>2, <4>1
      <4> QED
        BY <4>1, <4>2
    <3>4. PositionsInUse' /\ HoldsItsTask'
      BY <2>0, <2>2 DEF AckClaim, Ack
    <3> QED
      BY <2>0, <2>2, <3>3, <3>4 DEF AckClaim
  <2>3. CASE ThreadDies(w)
    BY <2>0, <2>3, FaultFrame DEF ThreadDies
  <2>4. CASE ClaimReplyLost(w)
    BY <2>0, <2>4, FaultFrame DEF ClaimReplyLost, Claim, Oldest, Claimable
  <2> QED
    BY <1>5, <2>1, <2>2, <2>3, <2>4 DEF WorkerStep
<1>6. ASSUME NEW h \in Handlers, HandlerStep(h) PROVE PromiseInv'
  <2>0. h \in Threads
    BY DEF Threads
  <2>1. ASSUME NEW i \in Async, PostAsync(h, i) PROVE PromiseInv'
    <3>1. enqueued + 1 \in DocIds /\ doc[enqueued + 1] = NoIntent
      BY <2>1 DEF PostAsync, Enqueue
    <3>2. \A j \in Intents : Queued(j) => Queued(j)'
      BY <2>1, <3>1 DEF PostAsync, Enqueue
    <3>3. Queued(i)'
      BY <2>1, <3>1 DEF PostAsync, Enqueue
    <3>4. PositionsInUse' /\ HoldsItsTask'
      <4>1. /\ enqueued \in Nat /\ enqueued' = enqueued + 1 /\ holding' = holding /\ task' = task
            /\ doc'[enqueued + 1] = i /\ \A d \in DocIds \ {enqueued + 1} : doc'[d] = doc[d]
        BY <2>1, <3>1 DEF PostAsync, Enqueue
      <4>2. \A d \in DocIds : doc[d] # NoIntent => d <= enqueued
        OBVIOUS
      <4>3. \A t \in Threads : holding[t] # 0 =>
              /\ t \in Workers /\ holding[t] \in DocIds /\ holding[t] <= enqueued
              /\ doc[holding[t]] \in {task[t], NoIntent}
        OBVIOUS
      <4> HIDE DEF TypeInv, PromiseInv
      <4>4. PositionsInUse'
        BY <4>1, <4>2
      <4>5. HoldsItsTask'
        BY <4>1, <4>3
      <4> QED
        BY <4>4, <4>5
    <3>5. CommitProgress' /\ ReplayHasBuried' /\ ViewBehind' /\ SyncReadable' /\ FlushBarrier'
      BY <2>0, <2>1 DEF PostAsync, Enqueue
    <3>6. AcceptedIsSomewhere'
      <4>1. /\ accepted' = accepted \cup {i} /\ buried' = buried /\ due' = due
            /\ \A j \in Intents : Stored(j)' <=> Stored(j)
        BY <2>1 DEF PostAsync
      <4>2. accepted \subseteq Intents
        OBVIOUS
      <4> HIDE DEF Queued, Stored
      <4> QED
        BY <3>2, <3>3, <4>1, <4>2
    <3> QED
      BY <3>4, <3>5, <3>6
  <2>2. ASSUME NEW i \in Sync, PostSync(h, i) PROVE PromiseInv'
    BY <2>0, <2>2 DEF PostSync, CountStep
  <2>3. CASE SyncFails(h)
    BY <2>0, <2>3, FaultFrame DEF SyncFails
  <2>4. CASE Reply(h)
    BY <2>0, <2>4 DEF Reply
  <2>5. CASE FlushBegins(h)
    BY <2>0, <2>5 DEF FlushBegins
  <2>6. CASE FlushReturns(h)
    <3>1. \A i \in due[h] : Stored(i) \/ i \in buried
      <4>1. \A i \in Intents : ~Queued(i)
        <5>1. Unacked = {}
          BY <2>6 DEF FlushReturns
        <5>2. \A d \in DocIds : doc[d] = NoIntent
          BY <5>1 DEF Unacked
        <5> QED
          BY <5>2
      <4> QED
        <5> HIDE DEF Queued
        <5> QED
          BY <4>1
    <3>2. FlushBarrier' /\ SyncReadable'
      BY <2>0, <2>6, <3>1 DEF FlushReturns
    <3> QED
      BY <2>0, <2>6, <3>2 DEF FlushReturns
  <2>7. CASE FlushTimesOut(h)
    BY <2>0, <2>7 DEF FlushTimesOut
  <2> QED
    BY <1>6, <2>1, <2>2, <2>3, <2>4, <2>5, <2>6, <2>7 DEF HandlerStep
<1>7. ASSUME ReplayStep PROVE PromiseInv'
  <2>0. Ops \in Threads
    BY DEF Threads
  <2>1. CASE ReplayBegins
    BY <2>0, <2>1 DEF ReplayBegins
  <2>2. CASE ReplayMoved
    BY <2>0, <2>2 DEF ReplayMoved
  <2>3. CASE ReplayAcks
    BY <2>0, <2>3 DEF ReplayAcks
  <2>4. CASE ReplayEnds
    BY <2>0, <2>4 DEF ReplayEnds
  <2>5. CASE ReplayDies
    BY <2>0, <2>5, FaultFrame DEF ReplayDies
  <2>6. ASSUME NEW i \in Intents, ReplayMoves(i) PROVE PromiseInv'
    BY <2>0, <2>6 DEF ReplayMoves
  <2>7. ASSUME NEW i \in Intents, ReplayClaims(i) PROVE PromiseInv'
    BY <2>0, <2>7 DEF ReplayClaims
  <2> QED
    BY <1>7, <2>1, <2>2, <2>3, <2>4, <2>5, <2>6, <2>7 DEF ReplayStep
<1>8. ASSUME Environment PROVE PromiseInv'
  <2>1. ASSUME NEW n \in Instances, Crash(n) PROVE PromiseInv'
    <3>0. UNCHANGED <<buried, overrun, raced, stepsSent, syncs>>
      BY <2>1, FaultFrame DEF Crash
    <3> USE <2>1, <3>0 DEF Crash, SurviveOrVanish
    <3>1. \A h \in Handlers : due'[h] \subseteq accepted'
      <4>1. CASE Durable
        BY <4>1
      <4>2. CASE ~Durable
        BY <4>2, SingleProcessAssumption DEF Hosted
      <4> QED
        BY <4>1, <4>2
    <3>2. AcceptedIsSomewhere'
      BY <3>1
    <3>3. Ops \in Threads \ Hosted(n) /\ Hosted(n) \subseteq Threads
      BY DEF Hosted, Threads
    <3>4. PositionsInUse' /\ HoldsItsTask'
      BY <3>3
    <3>5. CommitProgress'
      BY <3>3
    <3>6. ReplayHasBuried'
      <4>1. task'[Ops] = task[Ops]
        BY <3>3
      <4> QED
        BY <4>1
    <3> QED
      BY <3>2, <3>4, <3>5, <3>6
  <2>2. ASSUME NEW n \in Instances, Restart(n) PROVE PromiseInv'
    BY <2>2 DEF Restart, Hosted, Threads
  <2>3. ASSUME NEW d \in DocIds, LeaseExpires(d) PROVE PromiseInv'
    BY <2>3 DEF LeaseExpires, Lapse
  <2>4. ASSUME NEW d \in DocIds, LeaseOverruns(d) PROVE PromiseInv'
    BY <2>4 DEF LeaseOverruns, Lapse
  <2>5. CASE ViewCommits
    BY <2>5 DEF ViewCommits
  <2> QED
    BY <1>8, <2>1, <2>2, <2>3, <2>4, <2>5 DEF Environment
<1>9. CASE UNCHANGED vars
  BY <1>9 DEF vars
<1> QED
  BY <1>1, <1>2, <1>3, <1>4, <1>5, <1>6, <1>7, <1>8, <1>9 DEF Next, Loop

(* A flush answered "flushed" leaves nothing of what was accepted before it  *)
(* unread or in flight, whatever crashes, redeliveries and other requests    *)
(* ran meanwhile (flush_endpoint in app.py).                                 *)
THEOREM FlushIsABarrier == Spec => []FlushBarrier
<1>1. TypeInv /\ PromiseInv => FlushBarrier
  BY DEF PromiseInv
<1> QED
  BY TypeInit, TypeStep, PromiseInit, PromiseStep, <1>1, PTL DEF Spec

(* A client that read "committed" finds its turn in the search view, its     *)
(* step in the collection (_sync_commit in app.py).                          *)
THEOREM CommittedIsReadable == Spec => []SyncReadable
<1>1. TypeInv /\ PromiseInv => SyncReadable
  BY DEF PromiseInv
<1> QED
  BY TypeInit, TypeStep, PromiseInit, PromiseStep, <1>1, PTL DEF Spec

-----------------------------------------------------------------------------
(* Why no accepted intent is dropped, as long as no two intents share a      *)
(* dead-letter key and the replay command is not interrupted.                *)

DistinctFailKeys == \A i, j \in Intents : FailKey[i] = FailKey[j] => i = j

(* An intent is acked only when it is kept somewhere else.  The replay       *)
(* command's own hands do not count for it: its ack empties them.            *)
AckedIsKept ==
  \A t \in Threads : pc[t] = "ack" =>
     \/ Stored(task[t])
     \/ DeadLettered(task[t])
     \/ t # Ops /\ InReplay(task[t])

KeptInv == AckedIsKept /\ NothingLost

LEMMA KeptInit == Init => KeptInv
BY DEF Init, KeptInv, AckedIsKept, NothingLost

(* No thread comes to acknowledge, nothing that keeps a turn is touched, and  *)
(* the replay command holds on to its turn, or the turn is safe.              *)
LEMMA AckedFrame ==
  ASSUME AckedIsKept, UNCHANGED <<failed, memories, linked, replayQ>>,
         \/ task'[Ops] = task[Ops]
         \/ task[Ops] = NoIntent \/ Stored(task[Ops]) \/ DeadLettered(task[Ops]),
         \A t \in Threads : pc[t] = "ack" => task[t] # NoIntent,
         \A t \in Threads : pc'[t] = "ack" => pc[t] = "ack" /\ task'[t] = task[t]
  PROVE  AckedIsKept'
BY DEF AckedIsKept, Stored, DeadLettered, InReplay

LEMMA KeptStep ==
  ASSUME DistinctFailKeys, ~ReplayMayDie
  PROVE  TypeInv /\ PromiseInv /\ KeptInv /\ [Next]_vars => KeptInv'
<1> SUFFICES ASSUME TypeInv, PromiseInv, KeptInv, [Next]_vars PROVE KeptInv'
  OBVIOUS
<1> USE QueueAssumption, PathAssumption
<1> USE DEF KeptInv, AckedIsKept, NothingLost, PromiseInv, HoldsItsTask, CommitProgress,
            Stored, DeadLettered, InReplay, DistinctFailKeys, PositionsInUse,
            TypeInv, TypeOK, QueueTypeOK, TaskInHand, WorkingAt, CommitAt, StoreAt, StepAt,
            DocIds, FirstStatement, Advance, LetGo, TakeUp, Returned,
            queueVars, threadVars, storeVars, replayVars, clientVars, histVars
<1>0. doc' = doc => \A i \in Intents : Queued(i)' = Queued(i)
  BY DEF Queued
<1> USE <1>0
<1>a. \A t \in Threads : pc[t] = "ack" => task[t] # NoIntent
  OBVIOUS
<1>1. ASSUME NEW t \in Threads, CommitStatement(t) PROVE KeptInv'
  <2>1. CASE CheckNew(t)
    BY <2>1 DEF CheckNew
  <2>2. CASE InsertEpisode(t)
    BY <2>2 DEF InsertEpisode
  <2>3. CASE InsertMemory(t)
    BY <2>3 DEF InsertMemory
  <2>4. CASE Derive(t)
    BY <2>4 DEF Derive
  <2>5. CASE UpsertStep(t)
    BY <2>5 DEF UpsertStep
  <2>6. CASE LinkStep(t)
    BY <2>6 DEF LinkStep
  <2> QED
    BY <1>1, <2>1, <2>2, <2>3, <2>4, <2>5, <2>6 DEF CommitStatement
<1>2. ASSUME NEW t \in Threads, CommitRetries(t) PROVE KeptInv'
  BY <1>2, FaultFrame DEF CommitRetries
<1>3. ASSUME NEW t \in Threads, CommitExhausted(t) PROVE KeptInv'
  BY <1>3, FaultFrame DEF CommitExhausted
<1>4. ASSUME NEW t \in Threads, DeadLetter(t) PROVE KeptInv'
  <2>1. /\ failed' = [failed EXCEPT ![FailKey[task[t]]] = task[t]]
        /\ task[t] \in Intents /\ pc[t] = "bury" /\ pc' = [pc EXCEPT ![t] = "ack"]
        /\ UNCHANGED <<doc, accepted, memories, linked, replayQ, task>>
    BY <1>4 DEF DeadLetter
  <2>2. \A i \in Intents : DeadLettered(i)' <=> DeadLettered(i) \/ i = task[t]
    BY <2>1
  <2> HIDE DEF DeadLettered
  <2>3. NothingLost'
    BY <2>1, <2>2
  <2>4. ASSUME NEW u \in Threads, pc'[u] = "ack"
        PROVE  Stored(task[u])' \/ DeadLettered(task[u])' \/ (u # Ops /\ InReplay(task[u])')
    <3>1. CASE u = t
      BY <2>1, <2>2, <3>1
    <3>2. CASE u # t
      <4>1. pc[u] = "ack" /\ task[u] \in Intents
        BY <2>1, <2>4, <3>2
      <4> QED
        BY <2>1, <2>2, <4>1
    <3> QED
      BY <3>1, <3>2
  <2> QED
    BY <2>1, <2>3, <2>4 DEF DeadLettered
<1>5. ASSUME NEW w \in Workers, WorkerStep(w) PROVE KeptInv'
  <2>0. w \in Threads
    BY DEF Threads
  <2>1. CASE ClaimNext(w)
    <3>1. PICK d \in DocIds : Claim(d) /\ TakeUp(w, doc[d], d)
      BY <2>1 DEF ClaimNext
    <3>2. doc[d] \in Intents /\ UNCHANGED doc
      BY <3>1 DEF Claim, Oldest, Claimable
    <3>3. task'[Ops] = task[Ops] /\ pc' = [pc EXCEPT ![w] = FirstStatement(doc[d])]
      BY <3>1
    <3>4. UNCHANGED <<accepted, failed, memories, linked, replayQ>>
      BY <2>1 DEF ClaimNext
    <3>5. NothingLost'
      BY <3>2, <3>3, <3>4
    <3>6. \A t \in Threads : pc'[t] = "ack" => pc[t] = "ack" /\ task'[t] = task[t]
      BY <2>0, <3>1, <3>2, <3>3
    <3>7. AckedIsKept'
      BY <1>a, <3>3, <3>4, <3>6, AckedFrame
    <3> QED
      BY <3>5, <3>7
  <2>2. CASE AckClaim(w)
    <3>1. \A i \in Intents : Queued(i) => Queued(i)' \/ i = task[w]
      BY <2>0, <2>2 DEF AckClaim, Ack, Queued
    <3>2. Stored(task[w]) \/ DeadLettered(task[w]) \/ InReplay(task[w])
      BY <2>0, <2>2 DEF AckClaim
    <3>3. task'[Ops] = task[Ops] /\ UNCHANGED <<accepted, failed, memories, linked, replayQ>>
      BY <2>0, <2>2 DEF AckClaim
    <3>4. NothingLost'
      BY <3>1, <3>2, <3>3
    <3>5. \A t \in Threads : pc'[t] = "ack" => pc[t] = "ack" /\ task'[t] = task[t]
      BY <2>0, <2>2 DEF AckClaim
    <3>6. AckedIsKept'
      BY <3>3, <3>5
    <3> QED
      BY <3>4, <3>6
  <2>3. CASE ThreadDies(w)
    <3>1. UNCHANGED <<accepted, doc, failed, memories, linked, replayQ>>
      BY <2>0, <2>3, FaultFrame DEF ThreadDies
    <3>2. task'[Ops] = task[Ops]
      BY <2>0, <2>3, FaultFrame DEF ThreadDies
    <3>3. \A t \in Threads : pc'[t] = "ack" => pc[t] = "ack" /\ task'[t] = task[t]
      BY <2>0, <2>3, FaultFrame DEF ThreadDies
    <3>4. NothingLost'
      BY <1>0, <3>1, <3>2
    <3>5. AckedIsKept'
      BY <3>1, <3>2, <3>3
    <3> QED
      BY <3>4, <3>5
  <2>4. CASE ClaimReplyLost(w)
    <3>1. UNCHANGED doc
      BY <2>4, FaultFrame DEF ClaimReplyLost, Claim
    <3>2. task'[Ops] = task[Ops]
      BY <2>4, FaultFrame DEF ClaimReplyLost
    <3> QED
      BY <2>0, <2>4, <3>1, <3>2, FaultFrame DEF ClaimReplyLost
  <2> QED
    BY <1>5, <2>1, <2>2, <2>3, <2>4 DEF WorkerStep
<1>6. ASSUME NEW h \in Handlers, HandlerStep(h) PROVE KeptInv'
  <2>0. h \in Threads
    BY DEF Threads
  <2>1. ASSUME NEW i \in Async, PostAsync(h, i) PROVE KeptInv'
    <3>1. UNCHANGED <<task, pc, failed, memories, linked, replayQ>>
      BY <2>1 DEF PostAsync
    <3>2. \A j \in Intents : Queued(j) => Queued(j)'
      BY <2>1 DEF PostAsync, Enqueue, Queued
    <3>3. accepted' = accepted \cup {i} /\ Queued(i)'
      BY <2>1 DEF PostAsync, Enqueue, Queued
    <3>4. NothingLost'
      BY <3>1, <3>2, <3>3
    <3>5. AckedIsKept'
      BY <3>1
    <3> QED
      BY <3>4, <3>5
  <2>2. ASSUME NEW i \in Sync, PostSync(h, i) PROVE KeptInv'
    <3>1. task'[Ops] = task[Ops] /\ UNCHANGED <<doc, accepted, failed, memories, linked, replayQ>>
      BY <2>0, <2>2 DEF PostSync
    <3>2. \A t \in Threads : pc'[t] = "ack" => pc[t] = "ack" /\ task'[t] = task[t]
      BY <2>0, <2>2 DEF PostSync
    <3>3. NothingLost'
      BY <3>1
    <3>4. AckedIsKept'
      BY <3>1, <3>2
    <3> QED
      BY <3>3, <3>4
  <2>3. CASE SyncFails(h)
    <3>1. task'[Ops] = task[Ops] /\ UNCHANGED <<doc, accepted, failed, memories, linked, replayQ>>
      BY <2>0, <2>3, FaultFrame DEF SyncFails
    <3>2. \A t \in Threads : pc'[t] = "ack" => pc[t] = "ack" /\ task'[t] = task[t]
      BY <2>0, <2>3, FaultFrame DEF SyncFails
    <3>3. NothingLost'
      BY <3>1
    <3>4. AckedIsKept'
      BY <3>1, <3>2
    <3> QED
      BY <3>3, <3>4
  <2>4. CASE Reply(h)
    <3>1. task'[Ops] = task[Ops] /\ UNCHANGED <<doc, accepted, failed, memories, linked, replayQ>>
      BY <2>0, <2>4 DEF Reply
    <3>2. \A t \in Threads : pc'[t] = "ack" => pc[t] = "ack" /\ task'[t] = task[t]
      BY <2>0, <2>4 DEF Reply
    <3>3. NothingLost'
      BY <3>1
    <3>4. AckedIsKept'
      BY <3>1, <3>2
    <3> QED
      BY <3>3, <3>4
  <2>5. CASE FlushBegins(h)
    BY <2>0, <2>5 DEF FlushBegins
  <2>6. CASE FlushReturns(h)
    BY <2>0, <2>6 DEF FlushReturns
  <2>7. CASE FlushTimesOut(h)
    BY <2>0, <2>7 DEF FlushTimesOut
  <2> QED
    BY <1>6, <2>1, <2>2, <2>3, <2>4, <2>5, <2>6, <2>7 DEF HandlerStep
<1>7. ASSUME ReplayStep PROVE KeptInv'
  <2>0. Ops \in Threads
    BY DEF Threads
  <2>1. CASE ReplayBegins
    BY <2>0, <2>1 DEF ReplayBegins
  <2>2. CASE ReplayMoved
    BY <2>0, <2>2 DEF ReplayMoved
  <2>3. CASE ReplayAcks
    <3>1. UNCHANGED <<doc, accepted, failed, memories, linked, replayQ>>
      BY <2>3 DEF ReplayAcks
    <3>2. \A t \in Threads : pc'[t] = "ack" => t # Ops /\ pc[t] = "ack" /\ task'[t] = task[t]
      BY <2>0, <2>3 DEF ReplayAcks
    <3>3. task[Ops] = NoIntent \/ Stored(task[Ops]) \/ DeadLettered(task[Ops])
      BY <2>0, <2>3 DEF ReplayAcks
    <3>4. NothingLost'
      BY <3>1, <3>3
    <3>5. AckedIsKept'
      BY <1>a, <3>1, <3>2, <3>3, AckedFrame
    <3> QED
      BY <3>4, <3>5
  <2>4. CASE ReplayEnds
    <3>1. UNCHANGED <<doc, accepted, failed, memories, linked, replayQ>>
      BY <2>4 DEF ReplayEnds
    <3>2. \A t \in Threads : pc'[t] = "ack" => t # Ops /\ pc[t] = "ack" /\ task'[t] = task[t]
      BY <2>0, <2>4 DEF ReplayEnds
    <3>3. task'[Ops] = task[Ops]
      BY <2>0, <2>4 DEF ReplayEnds
    <3>4. NothingLost'
      BY <3>1, <3>3
    <3>5. AckedIsKept'
      BY <1>a, <3>1, <3>2, <3>3, AckedFrame
    <3> QED
      BY <3>4, <3>5
  <2>5. CASE ReplayDies
    BY <2>0, <2>5, FaultFrame DEF ReplayDies
  <2>6. ASSUME NEW i \in Intents, ReplayMoves(i) PROVE KeptInv'
    BY <2>0, <2>6 DEF ReplayMoves
  <2>7. ASSUME NEW i \in Intents, ReplayClaims(i) PROVE KeptInv'
    <3>1. task[Ops] = NoIntent /\ task'[Ops] = i /\ pc'[Ops] # "ack"
      BY <2>0, <2>7 DEF ReplayClaims
    <3>2. \A j \in Intents : InReplay(j) => InReplay(j)'
      BY <2>7, <3>1 DEF ReplayClaims
    <3>3. UNCHANGED <<doc, accepted, failed, memories, linked>>
      BY <2>7 DEF ReplayClaims
    <3>4. NothingLost'
      BY <3>2, <3>3
    <3>5. \A t \in Threads : pc'[t] = "ack" => t # Ops /\ pc[t] = "ack" /\ task'[t] = task[t]
      BY <2>0, <2>7, <3>1 DEF ReplayClaims
    <3>6. AckedIsKept'
      BY <3>2, <3>3, <3>5
    <3> QED
      BY <3>4, <3>6
  <2> QED
    BY <1>7, <2>1, <2>2, <2>3, <2>4, <2>5, <2>6, <2>7 DEF ReplayStep
<1>8. ASSUME Environment PROVE KeptInv'
  <2>1. ASSUME NEW n \in Instances, Crash(n) PROVE KeptInv'
    BY <2>1, FaultFrame DEF Crash, SurviveOrVanish, Hosted, Threads, Queued
  <2>2. ASSUME NEW n \in Instances, Restart(n) PROVE KeptInv'
    BY <2>2 DEF Restart, Hosted, Threads
  <2>3. ASSUME NEW d \in DocIds, LeaseExpires(d) PROVE KeptInv'
    BY <2>3 DEF LeaseExpires, Lapse
  <2>4. ASSUME NEW d \in DocIds, LeaseOverruns(d) PROVE KeptInv'
    BY <2>4 DEF LeaseOverruns, Lapse
  <2>5. CASE ViewCommits
    BY <2>5 DEF ViewCommits
  <2> QED
    BY <1>8, <2>1, <2>2, <2>3, <2>4, <2>5 DEF Environment
<1>9. CASE UNCHANGED vars
  BY <1>9 DEF vars
<1> QED
  BY <1>1, <1>2, <1>3, <1>4, <1>5, <1>6, <1>7, <1>8, <1>9 DEF Next, Loop


(* What POST /v1/store and /v1/step answered "queued" is in the database, in *)
(* the queue, in failed_writes or being replayed, in every reachable state.  *)
THEOREM NothingIsLost ==
  ASSUME DistinctFailKeys, ~ReplayMayDie
  PROVE  Spec => []NothingLost
<1>1. TypeInv /\ PromiseInv /\ KeptInv => NothingLost
  BY DEF KeptInv
<1> QED
  BY TypeInit, TypeStep, PromiseInit, PromiseStep, KeptInit, KeptStep, <1>1, PTL DEF Spec

-----------------------------------------------------------------------------
(* Why two workers never work on one queue entry unless a commit outlives    *)
(* its lease.                                                                *)

HeldIsLeased ==
  \A t \in Threads : holding[t] # 0 => lease[holding[t]] = "held" \/ holding[t] \in overrun

LeaseInv == HeldIsLeased /\ ExclusiveClaim

LEMMA LeaseInit == Init => LeaseInv
BY PathAssumption DEF Init, LeaseInv, HeldIsLeased, ExclusiveClaim, Threads

LEMMA LeaseStep == TypeInv /\ PromiseInv /\ LeaseInv /\ [Next]_vars => LeaseInv'
<1> SUFFICES ASSUME TypeInv, PromiseInv, LeaseInv, [Next]_vars PROVE LeaseInv'
  OBVIOUS
<1> USE QueueAssumption, PathAssumption
<1> USE DEF LeaseInv, HeldIsLeased, ExclusiveClaim, PromiseInv, HoldsItsTask,
            TypeInv, TypeOK, QueueTypeOK, DocIds, LeaseState, Threads,
            FirstStatement, Advance, LetGo, TakeUp, Fault, Returned,
            queueVars, threadVars, storeVars, replayVars, clientVars, histVars
<1>1. ASSUME NEW t \in Threads, CommitStatement(t) PROVE LeaseInv'
  <2>1. CASE CheckNew(t)
    BY <2>1 DEF CheckNew
  <2>2. CASE InsertEpisode(t)
    BY <2>2 DEF InsertEpisode
  <2>3. CASE InsertMemory(t)
    BY <2>3 DEF InsertMemory
  <2>4. CASE Derive(t)
    BY <2>4 DEF Derive
  <2>5. CASE UpsertStep(t)
    BY <2>5 DEF UpsertStep
  <2>6. CASE LinkStep(t)
    BY <2>6 DEF LinkStep
  <2> QED
    BY <1>1, <2>1, <2>2, <2>3, <2>4, <2>5, <2>6 DEF CommitStatement
<1>2. ASSUME NEW t \in Threads, CommitRetries(t) PROVE LeaseInv'
  BY <1>2 DEF CommitRetries
<1>3. ASSUME NEW t \in Threads, CommitExhausted(t) PROVE LeaseInv'
  BY <1>3 DEF CommitExhausted
<1>4. ASSUME NEW t \in Threads, DeadLetter(t) PROVE LeaseInv'
  BY <1>4 DEF DeadLetter
<1>5. ASSUME NEW w \in Workers, WorkerStep(w) PROVE LeaseInv'
  <2>0. w \in Threads
    BY DEF Threads
  <2>1. CASE ClaimNext(w)
    <3>1. PICK d \in DocIds : Claim(d) /\ TakeUp(w, doc[d], d)
      BY <2>1 DEF ClaimNext
    <3>2. \A t \in Threads : holding[t] # d \/ d \in overrun
      <4>1. lease[d] # "held" /\ d # 0
        BY <3>1 DEF Claim, Oldest, Claimable
      <4> QED
        BY <4>1
    <3>3. /\ holding' = [holding EXCEPT ![w] = d]
          /\ lease' = [lease EXCEPT ![d] = "held"]
          /\ UNCHANGED overrun
      BY <2>1, <3>1 DEF ClaimNext, Claim
    <3> QED
      BY <2>0, <3>2, <3>3
  <2>2. CASE AckClaim(w)
    BY <2>0, <2>2 DEF AckClaim, Ack
  <2>3. CASE ThreadDies(w)
    BY <2>0, <2>3 DEF ThreadDies
  <2>4. CASE ClaimReplyLost(w)
    BY <2>0, <2>4 DEF ClaimReplyLost, Claim, Oldest, Claimable
  <2> QED
    BY <1>5, <2>1, <2>2, <2>3, <2>4 DEF WorkerStep
<1>6. ASSUME NEW h \in Handlers, HandlerStep(h) PROVE LeaseInv'
  <2>0. h \in Threads
    BY DEF Threads
  <2>1. ASSUME NEW i \in Async, PostAsync(h, i) PROVE LeaseInv'
    BY <2>0, <2>1 DEF PostAsync, CountStep, Enqueue
  <2>2. ASSUME NEW i \in Sync, PostSync(h, i) PROVE LeaseInv'
    BY <2>0, <2>2 DEF PostSync, CountStep
  <2>3. CASE SyncFails(h)
    BY <2>0, <2>3 DEF SyncFails
  <2>4. CASE Reply(h)
    BY <2>0, <2>4 DEF Reply
  <2>5. CASE FlushBegins(h)
    BY <2>0, <2>5 DEF FlushBegins
  <2>6. CASE FlushReturns(h)
    BY <2>0, <2>6 DEF FlushReturns
  <2>7. CASE FlushTimesOut(h)
    BY <2>0, <2>7 DEF FlushTimesOut
  <2> QED
    BY <1>6, <2>1, <2>2, <2>3, <2>4, <2>5, <2>6, <2>7 DEF HandlerStep
<1>7. ASSUME ReplayStep PROVE LeaseInv'
  <2>0. Ops \in Threads
    BY DEF Threads
  <2>1. CASE ReplayBegins
    BY <2>0, <2>1 DEF ReplayBegins
  <2>2. CASE ReplayMoved
    BY <2>0, <2>2 DEF ReplayMoved
  <2>3. CASE ReplayAcks
    BY <2>0, <2>3 DEF ReplayAcks
  <2>4. CASE ReplayEnds
    BY <2>0, <2>4 DEF ReplayEnds
  <2>5. CASE ReplayDies
    BY <2>0, <2>5 DEF ReplayDies
  <2>6. ASSUME NEW i \in Intents, ReplayMoves(i) PROVE LeaseInv'
    BY <2>0, <2>6 DEF ReplayMoves
  <2>7. ASSUME NEW i \in Intents, ReplayClaims(i) PROVE LeaseInv'
    BY <2>0, <2>7 DEF ReplayClaims
  <2> QED
    BY <1>7, <2>1, <2>2, <2>3, <2>4, <2>5, <2>6, <2>7 DEF ReplayStep
<1>8. ASSUME Environment PROVE LeaseInv'
  <2>1. ASSUME NEW n \in Instances, Crash(n) PROVE LeaseInv'
    <3>1. ExclusiveClaim'
      BY <2>1 DEF Crash
    <3>2. CASE Durable
      BY <2>1, <3>1, <3>2 DEF Crash, SurviveOrVanish
    <3>3. CASE ~Durable
      <4>1. Workers \subseteq Hosted(n)
        BY <3>3, SingleProcessAssumption DEF Hosted
      <4>2. \A t \in Threads : holding'[t] = 0
        BY <2>1, <4>1 DEF Crash
      <4> QED
        BY <3>1, <4>2
    <3> QED
      BY <3>2, <3>3
  <2>2. ASSUME NEW n \in Instances, Restart(n) PROVE LeaseInv'
    BY <2>2 DEF Restart, Hosted, Threads
  <2>3. ASSUME NEW d \in DocIds, LeaseExpires(d) PROVE LeaseInv'
    BY <2>3 DEF LeaseExpires, Lapse
  <2>4. ASSUME NEW d \in DocIds, LeaseOverruns(d) PROVE LeaseInv'
    BY <2>4 DEF LeaseOverruns, Lapse
  <2>5. CASE ViewCommits
    BY <2>5 DEF ViewCommits
  <2> QED
    BY <1>8, <2>1, <2>2, <2>3, <2>4, <2>5 DEF Environment
<1>9. CASE UNCHANGED vars
  BY <1>9 DEF vars
<1> QED
  BY <1>1, <1>2, <1>3, <1>4, <1>5, <1>6, <1>7, <1>8, <1>9 DEF Next, Loop


(* The lease of a claimed intent keeps every other worker, in whatever       *)
(* process, off it until it is acked or its holder is gone (claim(), ack()). *)
THEOREM ClaimsAreExclusive == Spec => []ExclusiveClaim
<1>1. TypeInv /\ PromiseInv /\ LeaseInv => ExclusiveClaim
  BY DEF LeaseInv
<1> QED
  BY TypeInit, TypeStep, PromiseInit, PromiseStep, LeaseInit, LeaseStep, <1>1, PTL DEF Spec

-----------------------------------------------------------------------------
(* Why each stored turn gets its follow-up work, and gets it once.           *)

InCommit == {"episode", "memory", "derive"}

(* What a step that is no statement of store() does to a commit under way:   *)
(* nothing, unless a failure stops it, which cut remembers; and it puts no   *)
(* thread in the middle of one.                                              *)
EntersNoCommit ==
  \A t \in Threads : pc'[t] \in InCommit => pc'[t] = pc[t] /\ task'[t] = task[t]

CutIsKept ==
  /\ cut \subseteq cut'
  /\ \A t \in Threads : UnderWay(t) =>
       (pc'[t] = pc[t] /\ task'[t] = task[t]) \/ StoredKey[task[t]] \in cut'
  /\ cut' # cut => faults' # 0
  /\ faults' = 0 => faults = 0

CommitUntouched ==
  /\ UNCHANGED <<episodes, memories, derived, isNew, raced>>
  /\ EntersNoCommit
  /\ CutIsKept

(* A step that fails nothing cuts nothing; one that does, cuts those stopped. *)
LEMMA NothingCut ==
  ASSUME UNCHANGED <<cut, faults>>,
         \A t \in Threads : pc[t] \in {"memory", "derive"} => pc'[t] = pc[t] /\ task'[t] = task[t]
  PROVE  CutIsKept
BY DEF CutIsKept, UnderWay

LEMMA StoppedAreCut ==
  ASSUME TypeInv, NEW stopped, Fault(stopped),
         \A t \in Threads \ stopped : pc'[t] = pc[t] /\ task'[t] = task[t]
  PROVE  CutIsKept
<1>1. faults' # 0
  BY DEF Fault, TypeInv, TypeOK
<1>2. cut \subseteq cut'
  BY DEF Fault
<1>3. ASSUME NEW t \in Threads, UnderWay(t)
      PROVE  (pc'[t] = pc[t] /\ task'[t] = task[t]) \/ StoredKey[task[t]] \in cut'
  <2>1. CASE t \in stopped
    BY <1>3, <2>1 DEF Fault
  <2> QED
    BY <2>1
<1> QED
  BY <1>1, <1>2, <1>3 DEF CutIsKept

LEMMA CommitFrame ==
  ASSUME TypeInv, [Next]_vars,
         \A t \in Threads : ~(CheckNew(t) \/ InsertEpisode(t) \/ InsertMemory(t) \/ Derive(t))
  PROVE  CommitUntouched
<1> USE QueueAssumption, PathAssumption
<1> DEFINE Kept == UNCHANGED <<episodes, memories, derived, isNew, raced>> /\ EntersNoCommit
<1>0. Kept /\ CutIsKept => CommitUntouched
  BY DEF CommitUntouched
<1>1. ASSUME NEW t \in Threads, CommitStatement(t) PROVE CommitUntouched
  <2>1. UpsertStep(t) \/ LinkStep(t)
    BY <1>1 DEF CommitStatement
  <2>2. Kept
    BY <2>1 DEF EntersNoCommit, InCommit, UpsertStep, LinkStep, Advance, Returned, TypeInv, TypeOK,
                histVars
  <2>3. CutIsKept
    BY <2>1, NothingCut DEF UpsertStep, LinkStep, Advance, TypeInv, TypeOK, histVars
  <2> QED
    BY <2>2, <2>3, <1>0
<1>2. ASSUME NEW t \in Threads, CommitRetries(t) \/ CommitExhausted(t) PROVE CommitUntouched
  <2>1. Fault({t}) /\ \A u \in Threads \ {t} : pc'[u] = pc[u] /\ task'[u] = task[u]
    BY <1>2 DEF CommitRetries, CommitExhausted, TypeInv, TypeOK
  <2>2. Kept
    BY <1>2 DEF EntersNoCommit, InCommit, CommitRetries, CommitExhausted, Fault, FirstStatement,
                TypeInv, TypeOK, storeVars
  <2> QED
    BY <2>1, <2>2, StoppedAreCut, <1>0
<1>3. ASSUME NEW t \in Threads, DeadLetter(t) PROVE CommitUntouched
  <2>1. Kept
    BY <1>3 DEF EntersNoCommit, InCommit, DeadLetter, Advance, TypeInv, TypeOK, storeVars
  <2>2. CutIsKept
    BY <1>3, NothingCut DEF DeadLetter, Advance, TypeInv, TypeOK
  <2> QED
    BY <2>1, <2>2, <1>0
<1>4. ASSUME NEW w \in Workers, WorkerStep(w) PROVE CommitUntouched
  <2>0. w \in Threads
    BY DEF Threads
  <2>1. Kept
    BY <1>4, <2>0 DEF EntersNoCommit, InCommit, WorkerStep, ClaimNext, AckClaim, ThreadDies,
                ClaimReplyLost, TakeUp, LetGo, Fault, FirstStatement, TypeInv, TypeOK, storeVars, histVars
  <2>2. CASE ClaimNext(w) \/ AckClaim(w)
    <3>1. CutIsKept
      BY <2>0, <2>2, NothingCut DEF ClaimNext, AckClaim, TakeUp, LetGo, TypeInv, TypeOK, histVars
    <3> QED
      BY <2>1, <3>1, <1>0
  <2>3. CASE ThreadDies(w) \/ ClaimReplyLost(w)
    <3>1. Fault({w}) /\ \A u \in Threads \ {w} : pc'[u] = pc[u] /\ task'[u] = task[u]
      BY <2>0, <2>3 DEF ThreadDies, ClaimReplyLost, LetGo, TypeInv, TypeOK
    <3> QED
      BY <2>1, <3>1, StoppedAreCut, <1>0
  <2> QED
    BY <1>4, <2>2, <2>3 DEF WorkerStep
<1>5. ASSUME NEW h \in Handlers, HandlerStep(h) PROVE CommitUntouched
  <2>0. h \in Threads
    BY DEF Threads
  <2>1. Kept
    BY <1>5, <2>0 DEF EntersNoCommit, InCommit, HandlerStep, PostAsync, PostSync, SyncFails, Reply,
                FlushBegins, FlushReturns, FlushTimesOut, TakeUp, LetGo, Fault, FirstStatement,
                TypeInv, TypeOK, threadVars, storeVars, histVars
  <2>2. CASE SyncFails(h)
    <3>1. Fault({h}) /\ \A u \in Threads \ {h} : pc'[u] = pc[u] /\ task'[u] = task[u]
      BY <2>0, <2>2 DEF SyncFails, LetGo, TypeInv, TypeOK
    <3> QED
      BY <2>1, <3>1, StoppedAreCut, <1>0
  <2>3. CASE ~SyncFails(h)
    <3>1. CutIsKept
      BY <1>5, <2>0, <2>3, NothingCut
         DEF HandlerStep, PostAsync, PostSync, Reply, FlushBegins, FlushReturns, FlushTimesOut,
             TakeUp, LetGo, TypeInv, TypeOK, threadVars, histVars
    <3> QED
      BY <2>1, <3>1, <1>0
  <2> QED
    BY <2>2, <2>3
<1>6. ASSUME ReplayStep PROVE CommitUntouched
  <2>0. Ops \in Threads
    BY DEF Threads
  <2>1. Kept
    BY <1>6, <2>0 DEF EntersNoCommit, InCommit, ReplayStep, ReplayBegins, ReplayMoved, ReplayAcks,
                ReplayEnds, ReplayDies, ReplayMoves, ReplayClaims, Advance, TakeUp, LetGo, Fault,
                FirstStatement, TypeInv, TypeOK, threadVars, storeVars, histVars
  <2>2. CASE ReplayDies
    <3>1. Fault({Ops}) /\ \A u \in Threads \ {Ops} : pc'[u] = pc[u] /\ task'[u] = task[u]
      BY <2>0, <2>2 DEF ReplayDies, LetGo, TypeInv, TypeOK
    <3> QED
      BY <2>1, <3>1, StoppedAreCut, <1>0
  <2>3. CASE ~ReplayDies
    <3>1. CutIsKept
      BY <1>6, <2>0, <2>3, NothingCut
         DEF ReplayStep, ReplayBegins, ReplayMoved, ReplayAcks, ReplayEnds, ReplayMoves,
             ReplayClaims, Advance, TakeUp, LetGo, TypeInv, TypeOK, threadVars, histVars
    <3> QED
      BY <2>1, <3>1, <1>0
  <2> QED
    BY <2>2, <2>3
<1>7. ASSUME Environment PROVE CommitUntouched
  <2>1. Kept
    BY <1>7 DEF EntersNoCommit, InCommit, Environment, Crash, Restart, LeaseExpires, LeaseOverruns,
                ViewCommits, Fault, TypeInv, TypeOK, threadVars, storeVars, histVars
  <2>2. ASSUME NEW n \in Instances, Crash(n) PROVE CutIsKept
    <3>1. Fault(Hosted(n)) /\ \A u \in Threads \ Hosted(n) : pc'[u] = pc[u] /\ task'[u] = task[u]
      BY <2>2 DEF Crash
    <3> QED
      BY <3>1, StoppedAreCut
  <2>3. ASSUME ~(\E n \in Instances : Crash(n)) PROVE CutIsKept
    <3>1. ASSUME NEW d \in DocIds, LeaseOverruns(d) PROVE CutIsKept
      BY <3>1 DEF LeaseOverruns, CutIsKept, TypeInv, TypeOK, threadVars
    <3>2. ASSUME NEW n \in Instances, Restart(n) PROVE CutIsKept
      <4>1. \A t \in Threads : pc[t] \in {"memory", "derive"} => pc'[t] = pc[t]
        BY <3>2 DEF Restart
      <4> QED
        BY <3>2, <4>1, NothingCut DEF Restart, histVars
    <3>3. ASSUME NEW d \in DocIds, LeaseExpires(d) PROVE CutIsKept
      BY <3>3, NothingCut DEF LeaseExpires, threadVars, histVars
    <3>4. ASSUME ViewCommits PROVE CutIsKept
      <4>1. UNCHANGED <<pc, task, cut, faults>>
        BY <3>4 DEF ViewCommits, threadVars, histVars
      <4> QED
        BY <4>1, NothingCut
    <3> QED
      BY <1>7, <2>3, <3>1, <3>2, <3>3, <3>4 DEF Environment
  <2> QED
    BY <2>1, <2>2, <2>3, <1>0
<1>8. CASE UNCHANGED vars
  <2>1. Kept /\ CutIsKept
    BY <1>8, NothingCut DEF vars, threadVars, storeVars, histVars, EntersNoCommit
  <2> QED
    BY <2>1, <1>0
<1> QED
  BY <1>1, <1>2, <1>3, <1>4, <1>5, <1>6, <1>7, <1>8 DEF Next, Loop

(* A memory is only written after its episode, and a thread that found the   *)
(* episode there is past a commit that wrote it.                             *)
EpisodeFirst ==
  /\ memories \subseteq episodes
  /\ \A t \in Threads :
       /\ pc[t] \in {"memory", "derive"} => StoredKey[task[t]] \in episodes
       /\ pc[t] = "episode" /\ ~isNew[t] => StoredKey[task[t]] \in episodes

(* The follow-up work of a stored turn is done, was cut off, or a thread that *)
(* found the turn new is still on its way to do it.                          *)
SomebodyDerives ==
  \A k \in episodes :
    \/ derived[k] >= 1
    \/ k \in cut
    \/ \E t \in Threads : UnderWay(t) /\ StoredKey[task[t]] = k

NothingCutYet == faults = 0 => cut = {}

GraphInv == EpisodeFirst /\ SomebodyDerives /\ NothingCutYet

LEMMA GraphInit == Init => GraphInv
BY DEF Init, GraphInv, EpisodeFirst, SomebodyDerives, NothingCutYet

LEMMA FlagSet ==
  ASSUME NEW S, NEW f \in [S -> BOOLEAN], NEW x \in S, NEW b \in BOOLEAN
  PROVE  [f EXCEPT ![x] = b][x] = b
OBVIOUS

LEMMA GraphStep == TypeInv /\ GraphInv /\ [Next]_vars => GraphInv'
<1> SUFFICES ASSUME TypeInv, GraphInv, [Next]_vars PROVE GraphInv'
  OBVIOUS
<1> USE PathAssumption
<1> USE DEF GraphInv, EpisodeFirst, SomebodyDerives, NothingCutYet, UnderWay, TypeInv, TypeOK,
            TaskInHand, WorkingAt, CommitAt, StoreAt, Advance, Returned
<1>1. ASSUME NEW t \in Threads, CheckNew(t) PROVE GraphInv'
  <2>1. EpisodeFirst'
    <3>1. UNCHANGED <<memories, episodes, task>>
      BY <1>1 DEF CheckNew, storeVars
    <3>2. ~isNew'[t] => StoredKey[task'[t]] \in episodes'
      <4>1. isNew' = [isNew EXCEPT ![t] = StoredKey[task[t]] \notin episodes]
        BY <1>1 DEF CheckNew
      <4>2. isNew'[t] = (StoredKey[task[t]] \notin episodes)
        BY <4>1, FlagSet
      <4> QED
        BY <3>1, <4>2
    <3>3. \A u \in Threads \ {t} : pc'[u] = pc[u] /\ isNew'[u] = isNew[u]
      BY <1>1 DEF CheckNew
    <3>4. pc'[t] = "episode"
      BY <1>1 DEF CheckNew
    <3> QED
      BY <3>1, <3>2, <3>3, <3>4
  <2>2. SomebodyDerives'
    <3>1. /\ UNCHANGED <<episodes, derived, cut, task>>
          /\ \A u \in Threads : UnderWay(u) => UnderWay(u)'
      BY <1>1 DEF CheckNew, storeVars
    <3> QED
      BY <3>1
  <2>3. NothingCutYet'
    BY <1>1 DEF CheckNew
  <2> QED
    BY <2>1, <2>2, <2>3
<1>2. ASSUME NEW t \in Threads, InsertEpisode(t) PROVE GraphInv'
  <2>1. EpisodeFirst'
    BY <1>2 DEF InsertEpisode
  <2>2. SomebodyDerives'
    BY <1>2 DEF InsertEpisode, histVars
  <2>3. NothingCutYet'
    BY <1>2 DEF InsertEpisode, histVars
  <2> QED
    BY <2>1, <2>2, <2>3
<1>3. ASSUME NEW t \in Threads, InsertMemory(t) PROVE GraphInv'
  <2>1. EpisodeFirst'
    BY <1>3 DEF InsertMemory
  <2>2. SomebodyDerives'
    BY <1>3 DEF InsertMemory, histVars
  <2>3. NothingCutYet'
    BY <1>3 DEF InsertMemory, histVars
  <2> QED
    BY <2>1, <2>2, <2>3
<1>4. ASSUME NEW t \in Threads, Derive(t) PROVE GraphInv'
  <2>1. EpisodeFirst'
    BY <1>4 DEF Derive
  <2>2. SomebodyDerives'
    BY <1>4 DEF Derive, histVars
  <2>3. NothingCutYet'
    BY <1>4 DEF Derive, histVars
  <2> QED
    BY <2>1, <2>2, <2>3
<1>5. CASE CommitUntouched
  <2>1. EpisodeFirst'
    BY <1>5 DEF CommitUntouched, EntersNoCommit, InCommit
  <2>2. SomebodyDerives'
    <3>1. ASSUME NEW u \in Threads, UnderWay(u)
          PROVE  StoredKey[task[u]] \in cut' \/ (UnderWay(u)' /\ task'[u] = task[u])
      <4>1. (pc'[u] = pc[u] /\ task'[u] = task[u]) \/ StoredKey[task[u]] \in cut'
        BY <1>5, <3>1 DEF CommitUntouched, CutIsKept
      <4>2. isNew'[u] = isNew[u]
        BY <1>5 DEF CommitUntouched
      <4> QED
        BY <3>1, <4>1, <4>2
    <3>2. UNCHANGED <<episodes, derived>> /\ cut \subseteq cut'
      BY <1>5 DEF CommitUntouched, CutIsKept
    <3> QED
      BY <3>1, <3>2
  <2>3. NothingCutYet'
    BY <1>5 DEF CommitUntouched, CutIsKept
  <2> QED
    BY <2>1, <2>2, <2>3
<1> QED
  BY <1>1, <1>2, <1>3, <1>4, <1>5, CommitFrame

(* Whatever fails, is redelivered, retried, replayed or committed inline     *)
(* beside, a stored memory of a drained system has had its entities          *)
(* extracted, unless a commit that found its turn new was stopped between    *)
(* the episode and the extraction (_store_impl in ingest/store.py).          *)
THEOREM GraphLossIsCut == Spec => []GraphLostOnlyByCut
<1>1. GraphInv => GraphLostOnlyByCut
  BY DEF GraphInv, EpisodeFirst, SomebodyDerives, UnderWay, GraphLostOnlyByCut, AtRest
<1> QED
  BY TypeInit, TypeStep, GraphInit, GraphStep, <1>1, PTL DEF Spec

(* So as long as nothing has failed none is left without them.               *)
THEOREM GraphIsComplete == Spec => [](faults = 0 => GraphCompleteAtRest)
<1>1. GraphInv => (faults = 0 => GraphCompleteAtRest)
  BY DEF GraphInv, EpisodeFirst, SomebodyDerives, NothingCutYet, UnderWay, GraphCompleteAtRest, AtRest
<1> QED
  BY TypeInit, TypeStep, GraphInit, GraphStep, <1>1, PTL DEF Spec

-----------------------------------------------------------------------------
(* Two commits on their way that both found their turn new have raced.       *)
FoundNew(t) == pc[t] \in InCommit /\ isNew[t]

RacersAreKnown ==
  \A t, u \in Threads :
    t # u /\ FoundNew(t) /\ FoundNew(u) /\ StoredKey[task[t]] = StoredKey[task[u]]
      => StoredKey[task[t]] \in raced

(* The work is still to be done while the thread that found the turn new is  *)
(* on its way, unless it has raced, and a turn it was done for has its       *)
(* episode.                                                                  *)
NotYetDerived ==
  /\ \A k \in Keys : derived[k] # 0 => k \in episodes
  /\ \A t \in Threads : FoundNew(t) =>
       derived[StoredKey[task[t]]] = 0 \/ StoredKey[task[t]] \in raced

OnceInv == EpisodeFirst /\ RacersAreKnown /\ NotYetDerived /\ DerivedTwiceOnlyByRace

LEMMA OnceInit == Init => OnceInv
BY PathAssumption
   DEF Init, OnceInv, EpisodeFirst, RacersAreKnown, NotYetDerived, DerivedTwiceOnlyByRace,
       FoundNew, InCommit, Threads

(* Only the check can make a commit one that found its turn new.             *)
LEMMA StillFoundNew ==
  ASSUME EntersNoCommit, UNCHANGED isNew, NEW t \in Threads, FoundNew(t)'
  PROVE  FoundNew(t) /\ task'[t] = task[t]
BY DEF EntersNoCommit, FoundNew, InCommit

LEMMA RacersAreKnownStep ==
  ASSUME TypeInv, GraphInv, RacersAreKnown, [Next]_vars PROVE RacersAreKnown'
<1> USE PathAssumption
<1> DEFINE SameKey(t, u) == StoredKey[task[t]] = StoredKey[task[u]]
<1>1. ASSUME NEW t \in Threads, CheckNew(t) PROVE RacersAreKnown'
  <2>1. /\ UNCHANGED task /\ raced \subseteq raced'
        /\ pc[t] = "check" /\ pc'[t] = "episode"
        /\ \A u \in Threads \ {t} : pc'[u] = pc[u] /\ isNew'[u] = isNew[u]
    BY <1>1 DEF CheckNew, Advance, TypeInv, TypeOK
  <2>2. ASSUME NEW u \in Threads \ {t}, FoundNew(t)', FoundNew(u), SameKey(t, u)
        PROVE  StoredKey[task[t]] \in raced'
    <3>1. isNew'[t]
      BY <2>2 DEF FoundNew
    <3>2. StoredKey[task[t]] \notin episodes
      <4>1. isNew' = [isNew EXCEPT ![t] = StoredKey[task[t]] \notin episodes]
        BY <1>1 DEF CheckNew
      <4>2. isNew'[t] = (StoredKey[task[t]] \notin episodes)
        BY <4>1, FlagSet DEF TypeInv, TypeOK
      <4> QED
        BY <3>1, <4>2
    <3>3. pc[u] = "episode"
      BY <2>2, <3>2 DEF FoundNew, InCommit, GraphInv, EpisodeFirst
    <3>4. NewElsewhere(t)
      BY <2>2, <3>3 DEF NewElsewhere, FoundNew
    <3> QED
      BY <1>1, <3>1, <3>4 DEF CheckNew
  <2>3. \A u \in Threads \ {t} : FoundNew(u)' => FoundNew(u)
    BY <2>1 DEF FoundNew
  <2> QED
    BY <2>1, <2>2, <2>3 DEF RacersAreKnown
<1>2. ASSUME NEW t \in Threads, InsertEpisode(t) \/ InsertMemory(t) \/ Derive(t)
      PROVE  RacersAreKnown'
  <2>1. UNCHANGED <<task, raced>> /\ \A u \in Threads : FoundNew(u)' => FoundNew(u)
    BY <1>2 DEF InsertEpisode, InsertMemory, Derive, Advance, Returned, FoundNew, InCommit,
                histVars, TypeInv, TypeOK
  <2> QED
    BY <2>1 DEF RacersAreKnown
<1>3. CASE CommitUntouched
  <2>1. UNCHANGED raced /\ \A u \in Threads : FoundNew(u)' => FoundNew(u) /\ task'[u] = task[u]
    BY <1>3, StillFoundNew DEF CommitUntouched
  <2> QED
    BY <2>1 DEF RacersAreKnown
<1> QED
  BY <1>1, <1>2, <1>3, CommitFrame

LEMMA OnceStep == TypeInv /\ GraphInv /\ OnceInv /\ [Next]_vars => OnceInv'
<1> SUFFICES ASSUME TypeInv, GraphInv, OnceInv, [Next]_vars PROVE OnceInv'
  OBVIOUS
<1> USE PathAssumption
<1>0. EpisodeFirst' /\ RacersAreKnown'
  BY GraphStep, RacersAreKnownStep DEF GraphInv, OnceInv
<1> USE DEF NotYetDerived, DerivedTwiceOnlyByRace
<1>1. ASSUME NEW t \in Threads, CheckNew(t) PROVE OnceInv'
  <2>1. /\ UNCHANGED <<task, derived, episodes>> /\ raced \subseteq raced'
        /\ \A u \in Threads \ {t} : FoundNew(u)' => FoundNew(u)
    BY <1>1 DEF CheckNew, Advance, TypeInv, TypeOK, storeVars, FoundNew
  <2>2. FoundNew(t)' => derived[StoredKey[task[t]]] = 0
    <3>1. isNew' = [isNew EXCEPT ![t] = StoredKey[task[t]] \notin episodes]
      BY <1>1 DEF CheckNew
    <3>2. isNew'[t] = (StoredKey[task[t]] \notin episodes)
      BY <3>1, FlagSet DEF TypeInv, TypeOK
    <3>3. StoredKey[task[t]] \in Keys
      BY <1>1 DEF CheckNew, Advance, TypeInv, TypeOK, TaskInHand, WorkingAt, CommitAt, StoreAt
    <3> QED
      BY <3>2, <3>3 DEF FoundNew, OnceInv
  <2> QED
    BY <1>0, <2>1, <2>2 DEF OnceInv
<1>2. ASSUME NEW t \in Threads, InsertEpisode(t) \/ InsertMemory(t) PROVE OnceInv'
  <2>1. /\ UNCHANGED <<task, derived, raced>> /\ episodes \subseteq episodes'
        /\ \A u \in Threads : FoundNew(u)' => FoundNew(u)
    BY <1>2 DEF InsertEpisode, InsertMemory, Advance, FoundNew, InCommit, histVars, TypeInv, TypeOK
  <2> QED
    BY <1>0, <2>1 DEF OnceInv
<1>3. ASSUME NEW t \in Threads, Derive(t) PROVE OnceInv'
  <2> DEFINE key == StoredKey[task[t]]
  <2>0. key \in Keys /\ key \in episodes
    BY <1>3 DEF Derive, Advance, OnceInv, EpisodeFirst, TypeInv, TypeOK, TaskInHand, WorkingAt,
                CommitAt, StoreAt
  <2>1. /\ UNCHANGED <<task, raced, isNew, episodes>>
        /\ \A u \in Threads : FoundNew(u)' => FoundNew(u) /\ u # t
    BY <1>3 DEF Derive, Advance, Returned, FoundNew, InCommit, histVars, TypeInv, TypeOK
  <2>2. \A k \in Keys \ {key} : derived'[k] = derived[k]
    BY <1>3 DEF Derive, TypeInv, TypeOK
  <2>3. CASE ~isNew[t]
    <3>1. derived' = derived
      BY <1>3, <2>0, <2>3 DEF Derive, TypeInv, TypeOK
    <3> QED
      BY <1>0, <2>1, <3>1 DEF OnceInv
  <2>4. CASE isNew[t]
    <3>1. FoundNew(t)
      BY <1>3, <2>4 DEF Derive, Advance, FoundNew, InCommit
    <3>2. derived'[key] = derived[key] + 1
      BY <1>3, <2>0, <2>4 DEF Derive, TypeInv, TypeOK
    <3>3. \A u \in Threads : FoundNew(u)' /\ StoredKey[task[u]] = key => key \in raced
      BY <2>1, <3>1 DEF OnceInv, RacersAreKnown
    <3>4. derived'[key] > 1 => key \in raced
      BY <2>0, <3>1, <3>2 DEF OnceInv, TypeInv, TypeOK
    <3>5. DerivedTwiceOnlyByRace'
      BY <2>1, <2>2, <3>4 DEF OnceInv
    <3>6. ASSUME NEW u \in Threads, FoundNew(u)'
          PROVE  derived'[StoredKey[task[u]]] = 0 \/ StoredKey[task[u]] \in raced
      <4>1. CASE StoredKey[task[u]] = key
        BY <3>3, <3>6, <4>1
      <4>2. CASE StoredKey[task[u]] # key
        <5>1. StoredKey[task[u]] \in Keys
          BY <2>1, <3>6 DEF FoundNew, InCommit, TypeInv, TypeOK, TaskInHand, WorkingAt, CommitAt, StoreAt
        <5> QED
          BY <2>1, <2>2, <3>6, <4>2, <5>1 DEF OnceInv
      <4> QED
        BY <4>1, <4>2
    <3>7. \A k \in Keys : derived'[k] # 0 => k \in episodes'
      BY <2>0, <2>1, <2>2 DEF OnceInv
    <3> QED
      BY <1>0, <2>1, <3>5, <3>6, <3>7 DEF OnceInv
  <2> QED
    BY <2>3, <2>4
<1>4. CASE CommitUntouched
  <2>1. /\ UNCHANGED <<derived, raced, episodes>>
        /\ \A u \in Threads : FoundNew(u)' => FoundNew(u) /\ task'[u] = task[u]
    BY <1>4, StillFoundNew DEF CommitUntouched
  <2> QED
    BY <1>0, <2>1 DEF OnceInv
<1> QED
  BY <1>1, <1>2, <1>3, <1>4, CommitFrame

(* However many workers, inline commits and replays commit a turn beside     *)
(* each other, and however often it is redelivered, retried or interrupted,  *)
(* its entities are extracted and its working-tier sweep is run twice only   *)
(* if one commit made its existence check between another's check and its    *)
(* insert of the episode (is_new in _store_impl, ingest/store.py).           *)
THEOREM FollowUpTwiceIsRaced == Spec => []DerivedTwiceOnlyByRace
<1>1. OnceInv => DerivedTwiceOnlyByRace
  BY DEF OnceInv
<1> QED
  BY TypeInit, TypeStep, GraphInit, GraphStep, OnceInit, OnceStep, <1>1, PTL DEF Spec

-----------------------------------------------------------------------------
(***************************************************************************)
(* The durable write path implements WriteDelivery: every step of WritePath  *)
(* is a step of the promise, or leaves every intent's status as it is.       *)
(***************************************************************************)

(* What threads, queue and dead letters hold was accepted from a client.     *)
(* Only inline commits, which take no intent from the queue, are apart.      *)
FromClients ==
  /\ \A d \in DocIds : doc[d] \in accepted \cup {NoIntent}
  /\ \A t \in Threads \ Handlers : task[t] \in accepted \cup {NoIntent}
  /\ \A k \in Keys : failed[k] \in accepted \cup {NoIntent}
  /\ unread \subseteq accepted /\ replayQ \subseteq accepted

LEMMA FromClientsInit == Init => FromClients
BY DEF Init, QueueInit, FromClients

LEMMA FromClientsStep ==
  ASSUME Durable
  PROVE  TypeInv /\ PromiseInv /\ FromClients /\ [Next]_vars => FromClients'
<1> SUFFICES ASSUME TypeInv, PromiseInv, FromClients, [Next]_vars PROVE FromClients'
  OBVIOUS
<1> USE QueueAssumption, PathAssumption
<1> USE DEF FromClients, PromiseInv, CommitProgress,
            TypeInv, TypeOK, QueueTypeOK, DocIds,
            Advance, LetGo, TakeUp,
            queueVars, threadVars, storeVars, replayVars, clientVars, histVars
<1>1. ASSUME NEW t \in Threads, CommitStatement(t) PROVE FromClients'
  <2>1. CASE CheckNew(t)
    BY <2>1 DEF CheckNew
  <2>2. CASE InsertEpisode(t)
    BY <2>2 DEF InsertEpisode
  <2>3. CASE InsertMemory(t)
    BY <2>3 DEF InsertMemory
  <2>4. CASE Derive(t)
    BY <2>4 DEF Derive
  <2>5. CASE UpsertStep(t)
    BY <2>5 DEF UpsertStep
  <2>6. CASE LinkStep(t)
    BY <2>6 DEF LinkStep
  <2> QED
    BY <1>1, <2>1, <2>2, <2>3, <2>4, <2>5, <2>6 DEF CommitStatement
<1>2. ASSUME NEW t \in Threads, CommitRetries(t) PROVE FromClients'
  BY <1>2, FaultFrame DEF CommitRetries
<1>3. ASSUME NEW t \in Threads, CommitExhausted(t) PROVE FromClients'
  BY <1>3, FaultFrame DEF CommitExhausted
<1>4. ASSUME NEW t \in Threads, DeadLetter(t) PROVE FromClients'
  BY <1>4 DEF DeadLetter
<1>5. ASSUME NEW w \in Workers, WorkerStep(w) PROVE FromClients'
  <2>0. w \in Threads
    BY DEF Threads
  <2>1. CASE ClaimNext(w)
    BY <2>0, <2>1 DEF ClaimNext, Claim, Oldest, Claimable
  <2>2. CASE AckClaim(w)
    BY <2>0, <2>2 DEF AckClaim, Ack
  <2>3. CASE ThreadDies(w)
    BY <2>0, <2>3, FaultFrame DEF ThreadDies
  <2>4. CASE ClaimReplyLost(w)
    BY <2>0, <2>4, FaultFrame DEF ClaimReplyLost, Claim, Oldest, Claimable
  <2> QED
    BY <1>5, <2>1, <2>2, <2>3, <2>4 DEF WorkerStep
<1>6. ASSUME NEW h \in Handlers, HandlerStep(h) PROVE FromClients'
  <2>0. h \in Threads
    BY DEF Threads
  <2>1. ASSUME NEW i \in Async, PostAsync(h, i) PROVE FromClients'
    BY <2>0, <2>1 DEF PostAsync, Enqueue
  <2>2. ASSUME NEW i \in Sync, PostSync(h, i) PROVE FromClients'
    BY <2>0, <2>2 DEF PostSync
  <2>3. CASE SyncFails(h)
    BY <2>0, <2>3, FaultFrame DEF SyncFails
  <2>4. CASE Reply(h)
    BY <2>0, <2>4 DEF Reply
  <2>5. CASE FlushBegins(h)
    BY <2>0, <2>5 DEF FlushBegins
  <2>6. CASE FlushReturns(h)
    BY <2>0, <2>6 DEF FlushReturns
  <2>7. CASE FlushTimesOut(h)
    BY <2>0, <2>7 DEF FlushTimesOut
  <2> QED
    BY <1>6, <2>1, <2>2, <2>3, <2>4, <2>5, <2>6, <2>7 DEF HandlerStep
<1>7. ASSUME ReplayStep PROVE FromClients'
  <2>0. Ops \in Threads
    BY DEF Threads
  <2>1. CASE ReplayBegins
    BY <2>0, <2>1 DEF ReplayBegins
  <2>2. CASE ReplayMoved
    BY <2>0, <2>2 DEF ReplayMoved
  <2>3. CASE ReplayAcks
    BY <2>0, <2>3 DEF ReplayAcks
  <2>4. CASE ReplayEnds
    BY <2>0, <2>4 DEF ReplayEnds
  <2>5. CASE ReplayDies
    BY <2>0, <2>5, FaultFrame DEF ReplayDies
  <2>6. ASSUME NEW i \in Intents, ReplayMoves(i) PROVE FromClients'
    BY <2>0, <2>6 DEF ReplayMoves
  <2>7. ASSUME NEW i \in Intents, ReplayClaims(i) PROVE FromClients'
    BY <2>0, <2>7 DEF ReplayClaims
  <2> QED
    BY <1>7, <2>1, <2>2, <2>3, <2>4, <2>5, <2>6, <2>7 DEF ReplayStep
<1>8. ASSUME Environment PROVE FromClients'
  <2>1. ASSUME NEW n \in Instances, Crash(n) PROVE FromClients'
    BY <2>1, FaultFrame DEF Crash, SurviveOrVanish, Hosted, Threads
  <2>2. ASSUME NEW n \in Instances, Restart(n) PROVE FromClients'
    BY <2>2 DEF Restart, Hosted, Threads
  <2>3. ASSUME NEW d \in DocIds, LeaseExpires(d) PROVE FromClients'
    BY <2>3 DEF LeaseExpires, Lapse
  <2>4. ASSUME NEW d \in DocIds, LeaseOverruns(d) PROVE FromClients'
    BY <2>4 DEF LeaseOverruns, Lapse
  <2>5. CASE ViewCommits
    BY <2>5 DEF ViewCommits
  <2> QED
    BY <1>8, <2>1, <2>2, <2>3, <2>4, <2>5 DEF Environment
<1>9. CASE UNCHANGED vars
  BY <1>9 DEF vars
<1> QED
  BY <1>1, <1>2, <1>3, <1>4, <1>5, <1>6, <1>7, <1>8, <1>9 DEF Next, Loop


-----------------------------------------------------------------------------
KeepsStatus == \A i \in Intents : StatusOf(i)' = StatusOf(i)

(* A status is read off six variables.                                       *)
LEMMA StatusReads ==
  ASSUME UNCHANGED <<doc, memories, linked, failed, replayQ>>, task'[Ops] = task[Ops]
  PROVE  KeepsStatus
BY DEF KeepsStatus, StatusOf, Stored, Queued, InReplay, DeadLettered

LEMMA KeepingIsStuttering ==
  ASSUME KeepsStatus
  PROVE  UNCHANGED [i \in Intents |-> StatusOf(i)]
BY DEF KeepsStatus

(* One intent moves, as WriteDelivery lets it.                               *)
LEMMA OneMoves ==
  ASSUME NEW i \in Intents,
         \A j \in Intents \ {i} : StatusOf(j)' = StatusOf(j),
         \/ (StatusOf(i) \in {"new", "failed"} /\ StatusOf(i)' = "pending")
         \/ StatusOf(i) = "pending" /\ StatusOf(i)' = "failed"
         \/ StatusOf(i)' = StatusOf(i)
  PROVE  [Delivery!DeliveryNext]_[j \in Intents |-> StatusOf(j)]
BY DEF Delivery!DeliveryNext, Delivery!Undertake, Delivery!GiveUp

(* Some intents become stored, the others stay.                              *)
LEMMA SomeAreStored ==
  ASSUME \A j \in Intents : StatusOf(j)' = StatusOf(j) \/ StatusOf(j)' = "stored"
  PROVE  [Delivery!DeliveryNext]_[j \in Intents |-> StatusOf(j)]
<1> DEFINE S == {j \in Intents : StatusOf(j)' # StatusOf(j)}
<1>1. CASE S = {}
  BY <1>1, KeepingIsStuttering DEF KeepsStatus
<1>2. CASE S # {}
  <2>1. Delivery!StoreAll(S)
    BY <1>2 DEF Delivery!StoreAll
  <2> QED
    BY <2>1 DEF Delivery!DeliveryNext
<1> QED
  BY <1>1, <1>2

-----------------------------------------------------------------------------
DeliveryStep == [Delivery!DeliveryNext]_[j \in Intents |-> StatusOf(j)]

LEMMA StepMaps ==
  ASSUME DistinctFailKeys, ~ReplayMayDie, Durable
  PROVE  TypeInv /\ PromiseInv /\ KeptInv /\ FromClients /\ [Next]_vars => DeliveryStep
<1> SUFFICES ASSUME TypeInv, PromiseInv, KeptInv, FromClients, [Next]_vars PROVE DeliveryStep
  OBVIOUS
<1> USE QueueAssumption, PathAssumption
<1> USE DEF TypeInv, TypeOK, QueueTypeOK, TaskInHand, WorkingAt, CommitAt, StoreAt, StepAt,
            queueVars, threadVars, storeVars, replayVars, clientVars, histVars
<1> DEFINE Still == UNCHANGED <<doc, memories, linked, failed, replayQ>> /\ task'[Ops] = task[Ops]
<1>0. Still => DeliveryStep
  BY StatusReads, KeepingIsStuttering DEF DeliveryStep
<1>1. ASSUME NEW t \in Threads, CommitStatement(t) PROVE DeliveryStep
  <2> USE DEF Advance
  <2>1. CASE CheckNew(t)
    BY <2>1, <1>0 DEF CheckNew
  <2>2. CASE InsertEpisode(t)
    BY <2>2, <1>0 DEF InsertEpisode
  <2>3. CASE InsertMemory(t)
    <3>1. \A j \in Intents : StatusOf(j)' = StatusOf(j) \/ StatusOf(j)' = "stored"
      BY <2>3 DEF InsertMemory, StatusOf, Stored, Queued, InReplay, DeadLettered
    <3> QED
      BY <3>1, SomeAreStored DEF DeliveryStep
  <2>4. CASE Derive(t)
    BY <2>4, <1>0 DEF Derive
  <2>5. CASE UpsertStep(t)
    BY <2>5, <1>0 DEF UpsertStep
  <2>6. CASE LinkStep(t)
    <3>1. \A j \in Intents : StatusOf(j)' = StatusOf(j) \/ StatusOf(j)' = "stored"
      BY <2>6 DEF LinkStep, StatusOf, Stored, Queued, InReplay, DeadLettered
    <3> QED
      BY <3>1, SomeAreStored DEF DeliveryStep
  <2> QED
    BY <1>1, <2>1, <2>2, <2>3, <2>4, <2>5, <2>6 DEF CommitStatement
<1>2. ASSUME NEW t \in Threads, CommitRetries(t) \/ CommitExhausted(t) PROVE DeliveryStep
  BY <1>2, <1>0 DEF CommitRetries, CommitExhausted
<1>3. ASSUME NEW t \in Threads, DeadLetter(t) PROVE DeliveryStep
  <2>1. PICK i \in Intents : i = task[t] /\ t \notin Handlers
    BY <1>3 DEF DeadLetter, Advance, PromiseInv, CommitProgress
  <2>2. Stored(i) \/ Queued(i) \/ DeadLettered(i) \/ InReplay(i)
    BY <2>1 DEF FromClients, KeptInv, NothingLost
  <2>3. \A j \in Intents : /\ Stored(j)' <=> Stored(j)
                           /\ Queued(j)' <=> Queued(j)
                           /\ InReplay(j)' <=> InReplay(j)
    BY <1>3 DEF DeadLetter, Advance, Stored, Queued, InReplay
  <2>4. \A j \in Intents \ {i} : DeadLettered(j)' <=> DeadLettered(j)
    BY <1>3, <2>1 DEF DeadLetter, DeadLettered, DistinctFailKeys
  <2>5. DeadLettered(i)'
    BY <1>3, <2>1 DEF DeadLetter, Advance, DeadLettered
  <2>6. \A j \in Intents \ {i} : StatusOf(j)' = StatusOf(j)
    BY <2>3, <2>4 DEF StatusOf
  <2>7. StatusOf(i)' = StatusOf(i)
    BY <2>1, <2>2, <2>3, <2>5 DEF StatusOf
  <2> QED
    BY <2>6, <2>7, KeepingIsStuttering DEF DeliveryStep, KeepsStatus
<1>4. ASSUME NEW w \in Workers, WorkerStep(w) PROVE DeliveryStep
  <2>0. w \in Threads /\ w # Ops
    BY DEF Threads
  <2>1. CASE ClaimNext(w)
    BY <2>0, <2>1, <1>0 DEF ClaimNext, Claim, TakeUp
  <2>2. CASE AckClaim(w)
    <3>1. PICK i \in Intents : i = task[w]
      BY <2>0, <2>2 DEF AckClaim
    <3>2. Stored(i) \/ DeadLettered(i) \/ InReplay(i)
      BY <2>0, <2>2, <3>1 DEF AckClaim, KeptInv, AckedIsKept
    <3>3. \A j \in Intents : /\ Stored(j)' <=> Stored(j)
                             /\ DeadLettered(j)' <=> DeadLettered(j)
                             /\ InReplay(j)' <=> InReplay(j)
      BY <2>0, <2>2 DEF AckClaim, LetGo, Stored, DeadLettered, InReplay
    <3>4. \A j \in Intents \ {i} : Queued(j)' <=> Queued(j)
      <4>1. \A d \in DocIds : IF d = holding[w] THEN doc[d] \in {i, NoIntent} /\ doc'[d] = NoIntent
                                               ELSE doc'[d] = doc[d]
        BY <2>0, <2>2, <3>1 DEF AckClaim, Ack, PromiseInv, HoldsItsTask, DocIds
      <4> QED
        BY <4>1 DEF Queued
    <3>5. Queued(i)' => Queued(i)
      BY <2>0, <2>2, <3>1 DEF AckClaim, Ack, Queued
    <3>6. \A j \in Intents \ {i} : StatusOf(j)' = StatusOf(j)
      BY <3>3, <3>4 DEF StatusOf
    <3>7. StatusOf(i)' = StatusOf(i) \/ (StatusOf(i) = "pending" /\ StatusOf(i)' = "failed")
      BY <3>1, <3>2, <3>3, <3>5 DEF StatusOf
    <3> QED
      BY <3>1, <3>6, <3>7, OneMoves DEF DeliveryStep
  <2>3. CASE ThreadDies(w)
    BY <2>0, <2>3, <1>0 DEF ThreadDies, LetGo
  <2>4. CASE ClaimReplyLost(w)
    BY <2>0, <2>4, <1>0 DEF ClaimReplyLost, Claim, LetGo
  <2> QED
    BY <1>4, <2>1, <2>2, <2>3, <2>4 DEF WorkerStep
<1>5. ASSUME NEW h \in Handlers, HandlerStep(h) PROVE DeliveryStep
  <2>0. h \in Threads /\ h # Ops
    BY DEF Threads
  <2>1. ASSUME NEW i \in Async, PostAsync(h, i) PROVE DeliveryStep
    <3>1. \A j \in Intents : /\ Stored(j)' <=> Stored(j)
                             /\ DeadLettered(j)' <=> DeadLettered(j)
                             /\ InReplay(j)' <=> InReplay(j)
      BY <2>1 DEF PostAsync, Stored, DeadLettered, InReplay
    <3>2. doc[enqueued + 1] = NoIntent /\ enqueued + 1 \in DocIds
      BY <2>1 DEF PostAsync, Enqueue, PromiseInv, PositionsInUse, DocIds
    <3>3. Queued(i)' /\ \A j \in Intents \ {i} : Queued(j)' <=> Queued(j)
      BY <2>1, <3>2 DEF PostAsync, Enqueue, Queued
    <3>4. \A j \in Intents \ {i} : StatusOf(j)' = StatusOf(j)
      BY <3>1, <3>3 DEF StatusOf
    <3>5. i \in Intents /\ (StatusOf(i)' = StatusOf(i)
                             \/ (StatusOf(i) \in {"new", "failed"} /\ StatusOf(i)' = "pending"))
      BY <3>1, <3>3 DEF StatusOf
    <3> QED
      BY <3>4, <3>5, OneMoves DEF DeliveryStep
  <2>2. ASSUME NEW i \in Sync, PostSync(h, i) PROVE DeliveryStep
    BY <2>0, <2>2, <1>0 DEF PostSync, TakeUp
  <2>3. CASE SyncFails(h)
    BY <2>0, <2>3, <1>0 DEF SyncFails, LetGo
  <2>4. CASE Reply(h)
    BY <2>0, <2>4, <1>0 DEF Reply, LetGo
  <2>5. CASE FlushBegins(h) \/ FlushReturns(h) \/ FlushTimesOut(h)
    BY <2>5, <1>0 DEF FlushBegins, FlushReturns, FlushTimesOut
  <2> QED
    BY <1>5, <2>1, <2>2, <2>3, <2>4, <2>5 DEF HandlerStep
<1>6. ASSUME ReplayStep PROVE DeliveryStep
  <2>0. Ops \in Threads
    BY DEF Threads
  <2>1. CASE ReplayBegins \/ ReplayMoved
    BY <2>1, <1>0 DEF ReplayBegins, ReplayMoved, Advance
  <2>2. CASE ReplayAcks
    <3>1. PICK i \in Intents : i = task[Ops] /\ (Stored(i) \/ DeadLettered(i))
      BY <2>0, <2>2 DEF ReplayAcks, KeptInv, AckedIsKept
    <3>2. \A j \in Intents : /\ Stored(j)' <=> Stored(j)
                             /\ DeadLettered(j)' <=> DeadLettered(j)
                             /\ Queued(j)' <=> Queued(j)
      BY <2>2 DEF ReplayAcks, Stored, DeadLettered, Queued
    <3>3. \A j \in Intents \ {i} : InReplay(j)' <=> InReplay(j)
      BY <2>0, <2>2, <3>1 DEF ReplayAcks, LetGo, InReplay
    <3>4. InReplay(i)
      BY <3>1 DEF InReplay
    <3>5. \A j \in Intents \ {i} : StatusOf(j)' = StatusOf(j)
      BY <3>2, <3>3 DEF StatusOf
    <3>6. StatusOf(i)' = StatusOf(i) \/ (StatusOf(i) = "pending" /\ StatusOf(i)' = "failed")
      BY <3>1, <3>2, <3>4 DEF StatusOf
    <3> QED
      BY <3>1, <3>5, <3>6, OneMoves DEF DeliveryStep
  <2>3. CASE ReplayEnds
    BY <2>0, <2>3, <1>0 DEF ReplayEnds, LetGo
  <2>4. CASE ReplayDies
    BY <2>4 DEF ReplayDies
  <2>5. ASSUME NEW i \in Intents, ReplayMoves(i) PROVE DeliveryStep
    <3>1. \A j \in Intents : /\ Stored(j)' <=> Stored(j)
                             /\ Queued(j)' <=> Queued(j)
      BY <2>5 DEF ReplayMoves, Stored, Queued
    <3>2. InReplay(i)' /\ \A j \in Intents \ {i} : InReplay(j)' <=> InReplay(j)
      BY <2>5 DEF ReplayMoves, InReplay
    <3>3. \A j \in Intents \ {i} : DeadLettered(j)' <=> DeadLettered(j)
      BY <2>5 DEF ReplayMoves, DeadLettered, DistinctFailKeys
    <3>4. \A j \in Intents \ {i} : StatusOf(j)' = StatusOf(j)
      BY <3>1, <3>2, <3>3 DEF StatusOf
    <3>5. StatusOf(i)' = StatusOf(i)
          \/ (StatusOf(i) \in {"new", "failed"} /\ StatusOf(i)' = "pending")
      BY <3>1, <3>2 DEF StatusOf
    <3> QED
      BY <3>4, <3>5, OneMoves DEF DeliveryStep
  <2>6. ASSUME NEW i \in Intents, ReplayClaims(i) PROVE DeliveryStep
    <3>1. \A j \in Intents : /\ Stored(j)' <=> Stored(j)
                             /\ DeadLettered(j)' <=> DeadLettered(j)
                             /\ Queued(j)' <=> Queued(j)
      BY <2>6 DEF ReplayClaims, Stored, DeadLettered, Queued
    <3>2. task[Ops] = NoIntent /\ task'[Ops] = i
      BY <2>0, <2>6 DEF ReplayClaims, TakeUp
    <3>3. \A j \in Intents : InReplay(j)' <=> InReplay(j)
      BY <2>6, <3>2 DEF ReplayClaims, InReplay
    <3> QED
      BY <3>1, <3>3, KeepingIsStuttering DEF KeepsStatus, StatusOf, DeliveryStep
  <2> QED
    BY <1>6, <2>1, <2>2, <2>3, <2>4, <2>5, <2>6 DEF ReplayStep
<1>7. ASSUME Environment PROVE DeliveryStep
  <2>1. ASSUME NEW n \in Instances, Crash(n) PROVE DeliveryStep
    <3>1. Ops \in Threads \ Hosted(n)
      BY DEF Hosted, Threads
    <3> QED
      BY <2>1, <3>1, <1>0 DEF Crash, SurviveOrVanish
  <2>2. ASSUME NEW n \in Instances, Restart(n) PROVE DeliveryStep
    BY <2>2, <1>0 DEF Restart
  <2>3. ASSUME NEW d \in DocIds, LeaseExpires(d) \/ LeaseOverruns(d) PROVE DeliveryStep
    BY <2>3, <1>0 DEF LeaseExpires, LeaseOverruns, Lapse
  <2>4. CASE ViewCommits
    BY <2>4, <1>0 DEF ViewCommits
  <2> QED
    BY <1>7, <2>1, <2>2, <2>3, <2>4 DEF Environment
<1>8. CASE UNCHANGED vars
  BY <1>8, <1>0 DEF vars
<1> QED
  BY <1>1, <1>2, <1>3, <1>4, <1>5, <1>6, <1>7, <1>8 DEF Next, Loop

LEMMA InitMaps == Init => Delivery!DeliveryInit
<1> SUFFICES ASSUME Init PROVE \A i \in Intents : StatusOf(i) = "new"
  BY DEF Delivery!DeliveryInit
<1> TAKE i \in Intents
<1>1. ~Stored(i) /\ ~Queued(i)
  BY QueueAssumption DEF Init, QueueInit, Stored, Queued
<1>2. ~DeadLettered(i) /\ ~InReplay(i)
  BY QueueAssumption, PathAssumption DEF Init, DeadLettered, InReplay, Threads
<1> QED
  BY <1>1, <1>2 DEF StatusOf

(* With the durable backend, distinct dead-letter keys and a replay command  *)
(* that runs to its end, the write path keeps the promise of WriteDelivery:  *)
(* queued, dead-lettered and replayed, an intent only ever leaves by being   *)
(* stored.                                                                   *)
THEOREM WritePathDelivers ==
  ASSUME DistinctFailKeys, ~ReplayMayDie, Durable
  PROVE  Spec => DeliversAsPromised
<1> DEFINE Inv == TypeInv /\ PromiseInv /\ KeptInv /\ FromClients
<1>1. Init => Inv
  BY TypeInit, PromiseInit, KeptInit, FromClientsInit
<1>2. Inv /\ [Next]_vars => Inv'
  BY TypeStep, PromiseStep, KeptStep, FromClientsStep
<1>3. Inv /\ [Next]_vars => DeliveryStep
  BY StepMaps
<1>4. Spec => []Inv
  <2> HIDE DEF Inv
  <2> QED
    BY <1>1, <1>2, PTL DEF Spec
<1>5. Inv /\ [Next]_vars => [Delivery!DeliveryNext]_[i \in Intents |-> StatusOf(i)]
  BY <1>3 DEF DeliveryStep
<1> HIDE DEF Inv
<1> QED
  BY <1>4, <1>5, InitMaps, PTL DEF Spec, DeliversAsPromised, Delivery!DeliverySpec
-----------------------------------------------------------------------------
(* Why the counters of tool steps add up: until something fails, a step that *)
(* was sent is counted, or it waits in the queue or with the thread that is  *)
(* about to count it.                                                        *)

Calm ==
  /\ \A t \in Threads : pc[t] \notin {"bury", "dead", "down"}
  /\ \A k \in Keys : failed[k] = NoIntent
  /\ unread = {} /\ replayQ = {} /\ task[Ops] = NoIntent
  /\ \A w \in Workers :
       IF task[w] = NoIntent THEN holding[w] = 0
       ELSE holding[w] \in DocIds /\ doc[holding[w]] = task[w] /\ lease[holding[w]] = "held"
  /\ \A v, w \in Workers : holding[v] # 0 /\ holding[v] = holding[w] => v = w
  /\ \A d \in DocIds : lease[d] # "free" => \E w \in Workers : holding[w] = d
  /\ \A t \in Threads : pc[t] \in StepAt => task[t] \in Steps

WaitingDocs == {d \in DocIds : doc[d] \in Steps /\ \A w \in Workers : holding[w] = d => pc[w] = "upsert"}
WaitingHandlers == {h \in Handlers : pc[h] = "upsert"}

CountsAddUp ==
  /\ IsFiniteSet(WaitingHandlers)
  /\ SumFunctionOnSet(useCount, Keys) + Cardinality(WaitingDocs) + Cardinality(WaitingHandlers) = stepsSent

CountInv == faults = 0 => Calm /\ CountsAddUp


LEMMA CountInit == Init => CountInv
<1> SUFFICES ASSUME Init PROVE Calm /\ CountsAddUp
  BY DEF CountInv
<1>1. Calm
  BY PathAssumption DEF Init, QueueInit, Calm, StepAt, Threads
<1>2. WaitingDocs = {} /\ WaitingHandlers = {}
  BY QueueAssumption, PathAssumption DEF Init, QueueInit, WaitingDocs, WaitingHandlers, Threads
<1>3. AllNat(useCount, Keys) /\ \A k \in Keys : useCount[k] = 0
  BY KeysAssumption DEF Init, AllNat
<1>4. SumFunctionOnSet(useCount, Keys) = 0
  BY <1>3, SumOfZeros
<1> QED
  BY <1>1, <1>2, <1>4, FS_EmptySet DEF Init, CountsAddUp

LEMMA CalmStep ==
  ASSUME TypeInv, PromiseInv, CountInv, [Next]_vars, faults' = 0 PROVE faults = 0 /\ Calm'
<1> USE QueueAssumption, PathAssumption
<1> USE DEF CountInv, Calm, PromiseInv, PositionsInUse, TypeInv, TypeOK, QueueTypeOK, TaskInHand, WorkingAt,
            CommitAt, StoreAt, StepAt, Location, DocIds, LeaseState, Threads,
            FirstStatement, Advance, LetGo, TakeUp, Fault, Returned,
            queueVars, threadVars, storeVars, replayVars, clientVars, histVars
<1>1. ASSUME NEW t \in Threads, CommitStatement(t) PROVE faults = 0 /\ Calm'
  <2>1. CASE CheckNew(t)
    BY <2>1 DEF CheckNew
  <2>2. CASE InsertEpisode(t)
    BY <2>2 DEF InsertEpisode
  <2>3. CASE InsertMemory(t)
    BY <2>3 DEF InsertMemory
  <2>4. CASE Derive(t)
    BY <2>4 DEF Derive
  <2>5. CASE UpsertStep(t)
    BY <2>5 DEF UpsertStep
  <2>6. CASE LinkStep(t)
    BY <2>6 DEF LinkStep
  <2> QED
    BY <1>1, <2>1, <2>2, <2>3, <2>4, <2>5, <2>6 DEF CommitStatement
<1>2. ASSUME NEW t \in Threads, CommitRetries(t) \/ CommitExhausted(t) PROVE FALSE
  BY <1>2 DEF CommitRetries, CommitExhausted
<1>3. ASSUME NEW t \in Threads, DeadLetter(t) PROVE FALSE
  BY <1>3 DEF DeadLetter
<1>4. ASSUME NEW w \in Workers, WorkerStep(w) PROVE faults = 0 /\ Calm'
  <2>1. CASE ClaimNext(w)
    <3>1. PICK d \in DocIds : Claim(d) /\ TakeUp(w, doc[d], d)
      BY <2>1 DEF ClaimNext
    <3>2. faults = 0 /\ Calm
      BY <2>1 DEF ClaimNext
    <3>3. pc[w] = "idle" /\ task[w] = NoIntent /\ holding[w] = 0
      <4>1. pc[w] = "idle" /\ w \in Threads
        BY <2>1 DEF ClaimNext
      <4>2. task[w] = NoIntent
        BY <4>1
      <4> QED
        BY <3>2, <4>1, <4>2
    <3>4. doc[d] \in Intents /\ lease[d] # "held" /\ lease' = [lease EXCEPT ![d] = "held"] /\ doc' = doc
      BY <3>1 DEF Claim, Oldest, Claimable
    <3>5. \A v \in Workers : holding[v] # d
      <4> SUFFICES ASSUME NEW v \in Workers, holding[v] = d PROVE FALSE
        OBVIOUS
      <4>1. d # 0 /\ task[v] # NoIntent
        BY <3>2
      <4> QED
        BY <3>2, <3>4, <4>1
    <3>6. /\ pc' = [pc EXCEPT ![w] = FirstStatement(doc[d])]
          /\ task' = [task EXCEPT ![w] = doc[d]]
          /\ holding' = [holding EXCEPT ![w] = d]
      BY <3>1
    <3>7. UNCHANGED <<failed, unread, replayQ>>
      BY <2>1 DEF ClaimNext
    <3>8. \A v \in Workers : IF task'[v] = NoIntent THEN holding'[v] = 0
            ELSE holding'[v] \in DocIds /\ doc'[holding'[v]] = task'[v] /\ lease'[holding'[v]] = "held"
      BY <3>2, <3>4, <3>5, <3>6
    <3>9. \A v, u \in Workers : holding'[v] # 0 /\ holding'[v] = holding'[u] => v = u
      BY <3>2, <3>5, <3>6
    <3>10. \A e \in DocIds : lease'[e] # "free" => \E v \in Workers : holding'[v] = e
      <4> SUFFICES ASSUME NEW e \in DocIds, lease'[e] # "free" PROVE \E v \in Workers : holding'[v] = e
        OBVIOUS
      <4>1. CASE e = d
        BY <3>6, <4>1
      <4>2. CASE e # d
        <5>1. PICK v \in Workers : holding[v] = e
          BY <3>2, <3>4, <4>2
        <5>2. v # w
          BY <3>3, <5>1
        <5> QED
          BY <3>6, <5>1, <5>2
      <4> QED
        BY <4>1, <4>2
    <3>11. \A t \in Threads : pc'[t] \notin {"bury", "dead", "down"} /\ (pc'[t] \in StepAt => task'[t] \in Steps)
      BY <3>2, <3>4, <3>6
    <3>12. task'[Ops] = NoIntent
      BY <3>2, <3>6
    <3> QED
      BY <3>2, <3>7, <3>8, <3>9, <3>10, <3>11, <3>12
  <2>2. CASE AckClaim(w)
    <3>1. faults = 0 /\ Calm
      BY <2>2 DEF AckClaim
    <3>2. pc[w] = "ack" /\ holding[w] \in DocIds
      BY <2>2, <3>1 DEF AckClaim
    <3>3. /\ doc' = [doc EXCEPT ![holding[w]] = NoIntent] /\ lease' = [lease EXCEPT ![holding[w]] = "free"]
          /\ pc' = [pc EXCEPT ![w] = "idle"] /\ task' = [task EXCEPT ![w] = NoIntent]
          /\ holding' = [holding EXCEPT ![w] = 0] /\ UNCHANGED <<failed, unread, replayQ>>
      BY <2>2 DEF AckClaim, Ack
    <3>4. \A v \in Workers \ {w} : holding[v] # holding[w]
      BY <3>1, <3>2
    <3>5. \A v \in Workers : IF task'[v] = NoIntent THEN holding'[v] = 0
            ELSE holding'[v] \in DocIds /\ doc'[holding'[v]] = task'[v] /\ lease'[holding'[v]] = "held"
      BY <3>1, <3>2, <3>3, <3>4
    <3>6. \A e \in DocIds : lease'[e] # "free" => \E v \in Workers : holding'[v] = e
      BY <3>1, <3>2, <3>3
    <3>7. \A v, u \in Workers : holding'[v] # 0 /\ holding'[v] = holding'[u] => v = u
      BY <3>1, <3>3
    <3>8. \A t \in Threads : pc'[t] \notin {"bury", "dead", "down"} /\ (pc'[t] \in StepAt => task'[t] \in Steps)
      BY <3>1, <3>3
    <3>9. task'[Ops] = NoIntent
      BY <3>1, <3>3
    <3> QED
      BY <3>1, <3>3, <3>5, <3>6, <3>7, <3>8, <3>9
  <2>3. CASE ThreadDies(w) \/ ClaimReplyLost(w)
    BY <2>3 DEF ThreadDies, ClaimReplyLost
  <2> QED
    BY <1>4, <2>1, <2>2, <2>3 DEF WorkerStep
<1>5. ASSUME NEW h \in Handlers, HandlerStep(h) PROVE faults = 0 /\ Calm'
  <2>1. ASSUME NEW i \in Async, PostAsync(h, i) PROVE faults = 0 /\ Calm'
    <3>1. faults = 0 /\ Calm /\ UNCHANGED <<pc, task, holding, failed, unread, replayQ, lease>>
      BY <2>1 DEF PostAsync, Enqueue
    <3>2. doc' = [doc EXCEPT ![enqueued + 1] = i] /\ enqueued + 1 \in DocIds /\ doc[enqueued + 1] = NoIntent
      BY <2>1 DEF PostAsync, Enqueue
    <3>3. \A w \in Workers : task[w] # NoIntent => holding[w] # enqueued + 1
      BY <3>1, <3>2
    <3>4. \A v \in Workers : IF task[v] = NoIntent THEN holding[v] = 0
            ELSE holding[v] \in DocIds /\ doc'[holding[v]] = task[v] /\ lease[holding[v]] = "held"
      BY <3>1, <3>2, <3>3
    <3> QED
      BY <3>1, <3>4
  <2>2. ASSUME NEW i \in Sync, PostSync(h, i) PROVE faults = 0 /\ Calm'
    BY <2>2 DEF PostSync
  <2>3. CASE SyncFails(h)
    BY <2>3 DEF SyncFails
  <2>4. CASE Reply(h)
    BY <2>4 DEF Reply
  <2>5. CASE FlushBegins(h) \/ FlushReturns(h) \/ FlushTimesOut(h)
    BY <2>5 DEF FlushBegins, FlushReturns, FlushTimesOut
  <2> QED
    BY <1>5, <2>1, <2>2, <2>3, <2>4, <2>5 DEF HandlerStep
<1>6. ASSUME ReplayStep PROVE faults = 0 /\ Calm'
  <2>1. CASE ReplayBegins
    <3>1. unread' = {}
      BY <2>1 DEF ReplayBegins
    <3> QED
      BY <2>1, <3>1 DEF ReplayBegins
  <2>2. CASE ReplayMoved
    BY <2>2 DEF ReplayMoved
  <2>5. CASE ReplayEnds
    BY <2>5 DEF ReplayEnds
  <2>3. CASE ReplayAcks \/ ReplayDies
    BY <2>3 DEF ReplayAcks, ReplayDies
  <2>4. ASSUME NEW i \in Intents, ReplayMoves(i) \/ ReplayClaims(i) PROVE FALSE
    BY <2>4 DEF ReplayMoves, ReplayClaims
  <2> QED
    BY <1>6, <2>1, <2>2, <2>3, <2>4, <2>5 DEF ReplayStep
<1>7. ASSUME Environment PROVE faults = 0 /\ Calm'
  <2>1. ASSUME NEW n \in Instances, Crash(n) \/ Restart(n) PROVE FALSE
    BY <2>1 DEF Crash, Restart, Hosted
  <2>2. ASSUME NEW d \in DocIds, LeaseExpires(d) \/ LeaseOverruns(d) PROVE FALSE
    <3>1. CASE LeaseExpires(d)
      <4>1. faults = 0 /\ Calm
        BY <3>1 DEF LeaseExpires
      <4>2. lease[d] = "held" /\ \A t \in Threads : holding[t] # d
        BY <3>1 DEF LeaseExpires, Lapse
      <4>3. PICK w \in Workers : holding[w] = d
        BY <4>1, <4>2
      <4> QED
        BY <4>2, <4>3
    <3>2. CASE LeaseOverruns(d)
      BY <3>2 DEF LeaseOverruns
    <3> QED
      BY <2>2, <3>1, <3>2
  <2>3. CASE ViewCommits
    BY <2>3 DEF ViewCommits
  <2> QED
    BY <1>7, <2>1, <2>2, <2>3 DEF Environment
<1>8. CASE UNCHANGED vars
  BY <1>8 DEF vars
<1> QED
  BY <1>1, <1>2, <1>3, <1>4, <1>5, <1>6, <1>7, <1>8 DEF Next, Loop


(* What a step that takes up, counts or sends no tool step leaves alone.     *)
WaitingSame ==
  UNCHANGED <<useCount, stepsSent>> /\ WaitingDocs' = WaitingDocs /\ WaitingHandlers' = WaitingHandlers

LEMMA WaitingFrame ==
  ASSUME UNCHANGED <<doc, useCount, stepsSent>>, \A w \in Workers : holding'[w] = holding[w],
         \A t \in Workers \cup Handlers : pc'[t] = "upsert" <=> pc[t] = "upsert"
  PROVE  WaitingSame
BY DEF WaitingSame, WaitingDocs, WaitingHandlers

LEMMA WaitingFinite ==
  ASSUME TypeInv
  PROVE  IsFiniteSet(WaitingDocs) /\ Cardinality(WaitingDocs) \in Nat /\ AllNat(useCount, Keys)
<1>1. IsFiniteSet(DocIds)
  BY QueueAssumption, FS_Interval DEF DocIds
<1>2. IsFiniteSet(WaitingDocs)
  BY <1>1, FS_Subset DEF WaitingDocs
<1> QED
  BY <1>2, FS_CardinalityType, KeysAssumption DEF TypeInv, TypeOK, AllNat

LEMMA CountedOnce ==
  ASSUME TypeInv, PromiseInv, Calm, CountsAddUp, NEW t \in Threads, UpsertStep(t) PROVE CountsAddUp'
<1> USE QueueAssumption, PathAssumption
<1>1. /\ pc[t] = "upsert" /\ pc' = [pc EXCEPT ![t] = "link"] /\ UNCHANGED <<holding, doc, stepsSent>>
      /\ useCount' = [useCount EXCEPT ![StoredKey[task[t]]] = @ + 1]
  BY DEF UpsertStep, Advance, queueVars, histVars
<1>2. task[t] \in Steps /\ task[t] \in Intents
  BY <1>1 DEF Calm, StepAt
<1>3. t \in Workers \cup Handlers
  BY <1>2 DEF Threads, Calm
<1>4. pc \in [Threads -> Location] /\ useCount \in [Keys -> Nat]
  BY DEF TypeInv, TypeOK
<1>5. AllNat(useCount, Keys) /\ IsFiniteSet(WaitingDocs) /\ IsFiniteSet(WaitingHandlers)
      /\ Cardinality(WaitingDocs) \in Nat /\ Cardinality(WaitingHandlers) \in Nat
      /\ SumFunctionOnSet(useCount, Keys) \in Nat
  BY WaitingFinite, FS_CardinalityType, SumIsNat DEF CountsAddUp
<1>6. SumFunctionOnSet(useCount', Keys) = SumFunctionOnSet(useCount, Keys) + 1
  <2> PICK k \in Keys : k = StoredKey[task[t]]
    BY <1>2
  <2>1. useCount' = [useCount EXCEPT ![k] = @ + 1]
    BY <1>1
  <2>2. useCount[k] \in Nat /\ useCount'[k] = useCount[k] + 1 /\ \A j \in Keys \ {k} : useCount'[j] = useCount[j]
    BY <1>4, <2>1
  <2>3. SumFunctionOnSet(useCount', Keys) = SumFunctionOnSet(useCount, Keys) - useCount[k] + useCount'[k]
    BY <1>5, <2>2, SumChanges
  <2> QED
    BY <1>5, <2>2, <2>3
<1> PICK s \in Nat, d \in Nat, n \in Nat :
      /\ s = SumFunctionOnSet(useCount, Keys) /\ d = Cardinality(WaitingDocs)
      /\ n = Cardinality(WaitingHandlers)
  BY <1>5
<1>7. s + d + n = stepsSent
  BY DEF CountsAddUp
<1>8. CASE t \in Workers
  <2>1. WaitingHandlers' = WaitingHandlers
    BY <1>1, <1>4, <1>8 DEF WaitingHandlers
  <2>2. holding[t] \in DocIds /\ doc[holding[t]] = task[t] /\ holding[t] # 0
    BY <1>2, <1>8 DEF Calm, DocIds
  <2>3. \A w \in Workers : holding[w] = holding[t] => w = t
    BY <1>8, <2>2 DEF Calm
  <2>4. holding[t] \in WaitingDocs
    BY <1>1, <1>2, <2>2, <2>3 DEF WaitingDocs
  <2>5. WaitingDocs' = WaitingDocs \ {holding[t]}
    <3>1. \A w \in Workers : pc'[w] = "upsert" <=> pc[w] = "upsert" /\ w # t
      BY <1>1, <1>4 DEF Threads
    <3> QED
      BY <1>1, <1>8, <2>3, <3>1 DEF WaitingDocs
  <2>6. Cardinality(WaitingDocs \ {holding[t]}) = d - 1
    BY <1>5, <2>4, FS_RemoveElement
  <2>7. Cardinality(WaitingDocs') = d - 1 /\ IsFiniteSet(WaitingHandlers') /\ Cardinality(WaitingHandlers') = n
    BY <1>5, <2>1, <2>5, <2>6
  <2> QED
    BY <1>1, <1>6, <1>7, <2>7 DEF CountsAddUp
<1>9. CASE t \in Handlers
  <2>1. WaitingDocs' = WaitingDocs
    BY <1>1, <1>4, <1>9 DEF WaitingDocs
  <2>2. t \in WaitingHandlers
    BY <1>1, <1>9 DEF WaitingHandlers
  <2>3. WaitingHandlers' = WaitingHandlers \ {t}
    BY <1>1, <1>4, <1>9 DEF WaitingHandlers, Threads
  <2>4. IsFiniteSet(WaitingHandlers \ {t}) /\ Cardinality(WaitingHandlers \ {t}) = n - 1
    BY <1>5, <2>2, FS_RemoveElement
  <2>7. Cardinality(WaitingDocs') = d /\ IsFiniteSet(WaitingHandlers') /\ Cardinality(WaitingHandlers') = n - 1
    BY <2>1, <2>3, <2>4
  <2> QED
    BY <1>1, <1>6, <1>7, <2>7 DEF CountsAddUp
<1> QED
  BY <1>3, <1>8, <1>9

LEMMA SentAndQueued ==
  ASSUME TypeInv, PromiseInv, Calm, CountsAddUp, NEW h \in Handlers, NEW i \in Async, PostAsync(h, i)
  PROVE  CountsAddUp'
<1> USE QueueAssumption, PathAssumption
<1> DEFINE e == enqueued + 1
<1>1. /\ doc' = [doc EXCEPT ![e] = i] /\ e \in DocIds
      /\ UNCHANGED <<pc, holding, useCount>> /\ stepsSent' = IF i \in Steps THEN stepsSent + 1 ELSE stepsSent
  BY DEF PostAsync, Enqueue, CountStep, threadVars, storeVars, TypeInv, TypeOK, QueueTypeOK, DocIds
<1>2. doc \in [DocIds -> Intents \cup {NoIntent}] /\ enqueued \in Nat
  BY DEF TypeInv, TypeOK, QueueTypeOK
<1>3. doc[e] = NoIntent
  BY <1>1, <1>2 DEF PromiseInv, PositionsInUse
<1>4. \A w \in Workers : holding[w] # e
  <2> SUFFICES ASSUME NEW w \in Workers, holding[w] = e PROVE FALSE
    OBVIOUS
  <2>1. e # 0 /\ task[w] # NoIntent
    BY <1>2 DEF Calm
  <2>2. doc[e] = task[w]
    BY <2>1 DEF Calm
  <2> QED
    BY <1>3, <2>1, <2>2
<1>5. IsFiniteSet(WaitingDocs) /\ IsFiniteSet(WaitingHandlers)
      /\ Cardinality(WaitingDocs) \in Nat /\ Cardinality(WaitingHandlers) \in Nat
      /\ SumFunctionOnSet(useCount, Keys) \in Nat
  BY WaitingFinite, FS_CardinalityType, SumIsNat DEF CountsAddUp
<1>6. e \notin WaitingDocs /\ WaitingHandlers' = WaitingHandlers
  BY <1>1, <1>3 DEF WaitingDocs, WaitingHandlers
<1> HIDE DEF e
<1> PICK s \in Nat, d \in Nat, n \in Nat :
      /\ s = SumFunctionOnSet(useCount, Keys) /\ d = Cardinality(WaitingDocs)
      /\ n = Cardinality(WaitingHandlers)
  BY <1>5
<1>7. s + d + n = stepsSent /\ SumFunctionOnSet(useCount', Keys) = s
  BY <1>1 DEF CountsAddUp
<1>8. CASE i \in Steps
  <2>1. WaitingDocs' = WaitingDocs \cup {e}
    BY <1>1, <1>2, <1>4, <1>8 DEF WaitingDocs
  <2>2. Cardinality(WaitingDocs \cup {e}) = d + 1
    BY <1>5, <1>6, FS_AddElement
  <2> QED
    BY <1>1, <1>5, <1>6, <1>7, <1>8, <2>1, <2>2 DEF CountsAddUp
<1>9. CASE i \notin Steps
  <2>1. WaitingDocs' = WaitingDocs
    BY <1>1, <1>2, <1>3, <1>9 DEF WaitingDocs
  <2> QED
    BY <1>1, <1>5, <1>6, <1>7, <1>9, <2>1 DEF CountsAddUp
<1> QED
  BY <1>8, <1>9

LEMMA SentInline ==
  ASSUME TypeInv, PromiseInv, Calm, CountsAddUp, NEW h \in Handlers, NEW i \in Sync, PostSync(h, i)
  PROVE  CountsAddUp'
<1> USE QueueAssumption, PathAssumption
<1>1. /\ pc[h] = "idle" /\ pc' = [pc EXCEPT ![h] = FirstStatement(i)] /\ holding' = [holding EXCEPT ![h] = 0]
      /\ UNCHANGED <<doc, useCount>> /\ stepsSent' = IF i \in Steps THEN stepsSent + 1 ELSE stepsSent
  BY DEF PostSync, TakeUp, CountStep, queueVars, storeVars
<1>2. pc \in [Threads -> Location] /\ holding \in [Threads -> DocIds \cup {0}] /\ h \in Threads
      /\ \A w \in Workers : w \in Threads /\ w # h
  BY DEF TypeInv, TypeOK, Threads
<1>3. WaitingDocs' = WaitingDocs
  <2>1. \A w \in Workers : pc'[w] = pc[w] /\ holding'[w] = holding[w]
    BY <1>1, <1>2
  <2> QED
    BY <1>1, <2>1 DEF WaitingDocs
<1>4. h \notin WaitingHandlers
  BY <1>1 DEF WaitingHandlers
<1>5. IsFiniteSet(WaitingDocs) /\ IsFiniteSet(WaitingHandlers)
      /\ Cardinality(WaitingDocs) \in Nat /\ Cardinality(WaitingHandlers) \in Nat
      /\ SumFunctionOnSet(useCount, Keys) \in Nat
  BY WaitingFinite, FS_CardinalityType, SumIsNat DEF CountsAddUp
<1> PICK s \in Nat, d \in Nat, n \in Nat :
      /\ s = SumFunctionOnSet(useCount, Keys) /\ d = Cardinality(WaitingDocs)
      /\ n = Cardinality(WaitingHandlers)
  BY <1>5
<1>7. s + d + n = stepsSent /\ SumFunctionOnSet(useCount', Keys) = s /\ Cardinality(WaitingDocs') = d
  BY <1>1, <1>3 DEF CountsAddUp
<1>8. CASE i \in Steps
  <2>1. WaitingHandlers' = WaitingHandlers \cup {h}
    BY <1>1, <1>2, <1>8 DEF WaitingHandlers, FirstStatement, Threads
  <2>2. IsFiniteSet(WaitingHandlers \cup {h}) /\ Cardinality(WaitingHandlers \cup {h}) = n + 1
    BY <1>4, <1>5, FS_AddElement
  <2> QED
    BY <1>1, <1>7, <1>8, <2>1, <2>2 DEF CountsAddUp
<1>9. CASE i \notin Steps
  <2>1. WaitingHandlers' = WaitingHandlers
    BY <1>1, <1>2, <1>9 DEF WaitingHandlers, FirstStatement, Threads
  <2> QED
    BY <1>1, <1>5, <1>7, <1>9, <2>1 DEF CountsAddUp
<1> QED
  BY <1>8, <1>9


(* The statements of a commit that count nothing, the answers to clients and *)
(* the replay's bookkeeping leave the sum alone.                             *)
LEMMA RestWaits ==
  ASSUME TypeInv, PromiseInv, Calm, NEW t \in Threads,
         CheckNew(t) \/ InsertEpisode(t) \/ InsertMemory(t) \/ Derive(t) \/ LinkStep(t)
  PROVE  WaitingSame
<1> USE PathAssumption
<1> USE DEF Advance, queueVars, threadVars, storeVars, replayVars, clientVars, histVars, Returned
<1>1. pc \in [Threads -> Location] /\ Workers \cup Handlers \subseteq Threads
  BY DEF TypeInv, TypeOK, Threads
<1>2. UNCHANGED <<doc, useCount, stepsSent, holding>>
  BY DEF CheckNew, InsertEpisode, InsertMemory, Derive, LinkStep
<1>3. PICK to \in Location : to # "upsert" /\ pc[t] # "upsert" /\ pc' = [pc EXCEPT ![t] = to]
  BY DEF CheckNew, InsertEpisode, InsertMemory, Derive, LinkStep, Location, CommitAt, StoreAt, StepAt
<1>4. \A u \in Workers \cup Handlers : pc'[u] = "upsert" <=> pc[u] = "upsert"
  BY <1>1, <1>3
<1> QED
  BY <1>2, <1>4, WaitingFrame

LEMMA ClientsWait ==
  ASSUME TypeInv, PromiseInv, Calm, NEW h \in Handlers,
         Reply(h) \/ FlushBegins(h) \/ FlushReturns(h) \/ FlushTimesOut(h)
  PROVE  WaitingSame
<1> USE PathAssumption
<1> USE DEF LetGo, queueVars, threadVars, storeVars, replayVars, clientVars, histVars
<1>1. pc \in [Threads -> Location] /\ holding \in [Threads -> DocIds \cup {0}]
      /\ Workers \cup Handlers \subseteq Threads
  BY DEF TypeInv, TypeOK, Threads
<1>2. UNCHANGED <<doc, useCount, stepsSent>>
  BY DEF Reply, FlushBegins, FlushReturns, FlushTimesOut
<1>3. CASE Reply(h)
  <2>1. pc[h] = "reply" /\ pc' = [pc EXCEPT ![h] = "idle"] /\ holding' = [holding EXCEPT ![h] = 0]
    BY <1>3 DEF Reply
  <2>2. \A u \in Workers \cup Handlers : pc'[u] = "upsert" <=> pc[u] = "upsert"
    BY <1>1, <2>1
  <2>3. \A w \in Workers : holding'[w] = holding[w]
    BY <1>1, <2>1
  <2> QED
    BY <1>2, <2>2, <2>3, WaitingFrame
<1>4. CASE FlushBegins(h) \/ FlushReturns(h) \/ FlushTimesOut(h)
  <2>1. UNCHANGED <<pc, holding>>
    BY <1>4 DEF FlushBegins, FlushReturns, FlushTimesOut
  <2> QED
    BY <1>2, <2>1, WaitingFrame
<1> QED
  BY <1>3, <1>4

LEMMA ReplayWaits ==
  ASSUME TypeInv, PromiseInv, Calm, Calm', faults' = faults, ReplayStep
  PROVE  WaitingSame
<1> USE PathAssumption
<1> USE DEF Advance, LetGo, TakeUp, queueVars, threadVars, storeVars, replayVars, clientVars, histVars, Fault
<1>1. pc \in [Threads -> Location] /\ holding \in [Threads -> DocIds \cup {0}] /\ Ops \in Threads
      /\ faults \in Nat
  BY DEF TypeInv, TypeOK, Threads
<1>2. ASSUME NEW i \in Intents, ReplayMoves(i) \/ ReplayClaims(i) PROVE FALSE
  BY <1>2 DEF ReplayMoves, ReplayClaims, Calm
<1>3. ReplayBegins \/ ReplayMoved \/ ReplayAcks \/ ReplayEnds
  BY <1>1, <1>2 DEF ReplayStep, ReplayDies
<1>4. UNCHANGED <<doc, useCount, stepsSent>>
  BY <1>3 DEF ReplayBegins, ReplayMoved, ReplayAcks, ReplayEnds
<1>5. \A u \in Workers \cup Handlers : pc'[u] = pc[u] /\ holding'[u] = holding[u]
  BY <1>1, <1>3 DEF ReplayBegins, ReplayMoved, ReplayAcks, ReplayEnds, Threads
<1> QED
  BY <1>4, <1>5, WaitingFrame

(* Taking up an entry and acking it move no step in or out of the sum.       *)
LEMMA ClaimedStillWaits ==
  ASSUME TypeInv, PromiseInv, Calm, NEW w \in Workers, ClaimNext(w)
  PROVE  WaitingSame
<1> USE QueueAssumption, PathAssumption
<1>1. PICK d \in DocIds : Claim(d) /\ TakeUp(w, doc[d], d)
  BY DEF ClaimNext
<1>2. /\ pc[w] = "idle" /\ UNCHANGED <<doc, useCount, stepsSent>>
      /\ doc[d] \in Intents /\ lease[d] # "held"
      /\ pc' = [pc EXCEPT ![w] = FirstStatement(doc[d])] /\ holding' = [holding EXCEPT ![w] = d]
  BY <1>1 DEF ClaimNext, Claim, Oldest, Claimable, TakeUp, storeVars, histVars, TypeInv, TypeOK, QueueTypeOK
<1>3. pc \in [Threads -> Location] /\ holding \in [Threads -> DocIds \cup {0}]
      /\ w \in Threads /\ Workers \cup Handlers \subseteq Threads
  BY DEF TypeInv, TypeOK, Threads
<1>4. holding[w] = 0
  <2>1. task[w] = NoIntent
    BY <1>2, <1>3 DEF TypeInv, TaskInHand, WorkingAt, CommitAt, StoreAt, StepAt
  <2> QED
    BY <2>1 DEF Calm
<1>5. \A v \in Workers : holding[v] # d
  <2> SUFFICES ASSUME NEW v \in Workers, holding[v] = d PROVE FALSE
    OBVIOUS
  <2>1. d # 0 /\ task[v] # NoIntent
    BY DEF Calm, DocIds
  <2> QED
    BY <1>2, <2>1 DEF Calm
<1>6. WaitingHandlers' = WaitingHandlers
  BY <1>2, <1>3 DEF WaitingHandlers
<1>7. ASSUME NEW e \in DocIds PROVE e \in WaitingDocs' <=> e \in WaitingDocs
  <2>1. CASE e = d
    <3>1. e \in WaitingDocs <=> doc[d] \in Steps
      BY <1>5, <2>1 DEF WaitingDocs
    <3>2. \A v \in Workers : holding'[v] = d <=> v = w
      BY <1>2, <1>3, <1>5
    <3>3. e \in WaitingDocs' <=> doc[d] \in Steps /\ pc'[w] = "upsert"
      BY <1>2, <2>1, <3>2 DEF WaitingDocs
    <3>4. doc[d] \in Steps => pc'[w] = "upsert"
      BY <1>2, <1>3 DEF FirstStatement
    <3> QED
      BY <3>1, <3>3, <3>4
  <2>2. CASE e # d
    <3>1. \A v \in Workers : holding'[v] = e <=> holding[v] = e
      BY <1>2, <1>3, <1>4, <2>2 DEF DocIds
    <3>2. \A v \in Workers : holding[v] = e => pc'[v] = pc[v]
      BY <1>2, <1>3, <1>4 DEF DocIds
    <3> QED
      BY <1>2, <3>1, <3>2 DEF WaitingDocs
  <2> QED
    BY <2>1, <2>2
<1>8. WaitingDocs' \subseteq DocIds /\ WaitingDocs \subseteq DocIds
  BY DEF WaitingDocs, DocIds
<1>9. WaitingDocs' = WaitingDocs
  BY <1>7, <1>8
<1> QED
  BY <1>2, <1>6, <1>9 DEF WaitingSame

LEMMA AckedWasCounted ==
  ASSUME TypeInv, PromiseInv, Calm, NEW w \in Workers, AckClaim(w)
  PROVE  WaitingSame
<1> USE QueueAssumption, PathAssumption
<1> PICK d \in Nat : d = holding[w]
  BY DEF TypeInv, TypeOK, DocIds, Threads
<1>1. /\ pc[w] = "ack" /\ UNCHANGED <<useCount, stepsSent>>
      /\ doc' = [doc EXCEPT ![d] = NoIntent]
      /\ pc' = [pc EXCEPT ![w] = "idle"] /\ holding' = [holding EXCEPT ![w] = 0]
  BY DEF AckClaim, Ack, LetGo, storeVars, histVars
<1>2. pc \in [Threads -> Location] /\ holding \in [Threads -> DocIds \cup {0}]
      /\ w \in Threads /\ Workers \cup Handlers \subseteq Threads
      /\ doc \in [DocIds -> Intents \cup {NoIntent}]
  BY DEF TypeInv, TypeOK, QueueTypeOK, Threads
<1>3. d \in DocIds
  <2>1. task[w] # NoIntent
    BY <1>1, <1>2 DEF TypeInv, TaskInHand, WorkingAt
  <2> QED
    BY <2>1 DEF Calm
<1>4. \A v \in Workers : holding[v] = d => v = w
  BY <1>3 DEF Calm, DocIds
<1>5. WaitingHandlers' = WaitingHandlers
  BY <1>1, <1>2 DEF WaitingHandlers
<1>6. ASSUME NEW e \in DocIds PROVE e \in WaitingDocs' <=> e \in WaitingDocs
  <2>1. CASE e = d
    <3>1. e \notin WaitingDocs
      BY <1>1, <2>1 DEF WaitingDocs
    <3>2. doc'[e] \notin Steps
      BY <1>1, <1>2, <2>1
    <3> QED
      BY <3>1, <3>2 DEF WaitingDocs
  <2>2. CASE e # d
    <3>1. doc'[e] = doc[e]
      BY <1>1, <1>2, <2>2
    <3>2. \A v \in Workers : holding'[v] = e <=> holding[v] = e
      BY <1>1, <1>2, <2>2 DEF DocIds
    <3>3. \A v \in Workers : holding[v] = e => pc'[v] = pc[v]
      BY <1>1, <1>2, <2>2
    <3> QED
      BY <3>1, <3>2, <3>3 DEF WaitingDocs
  <2> QED
    BY <2>1, <2>2
<1>7. WaitingDocs' \subseteq DocIds /\ WaitingDocs \subseteq DocIds
  BY DEF WaitingDocs, DocIds
<1>8. WaitingDocs' = WaitingDocs
  BY <1>6, <1>7
<1> QED
  BY <1>1, <1>5, <1>8 DEF WaitingSame

LEMMA SameSum == ASSUME CountsAddUp, WaitingSame PROVE CountsAddUp'
BY DEF CountsAddUp, WaitingSame

LEMMA CountStepped == ASSUME TypeInv, PromiseInv, CountInv, [Next]_vars PROVE CountInv'
<1> SUFFICES ASSUME faults' = 0 PROVE Calm' /\ CountsAddUp'
  BY DEF CountInv
<1>1. faults = 0 /\ Calm'
  BY CalmStep
<1>2. Calm /\ CountsAddUp
  BY <1>1 DEF CountInv
<1>3. ASSUME NEW t \in Threads, Loop(t) PROVE CountsAddUp'
  <2>1. CASE CheckNew(t) \/ InsertEpisode(t) \/ InsertMemory(t) \/ Derive(t) \/ LinkStep(t)
    BY <1>2, <2>1, RestWaits, SameSum
  <2>2. CASE UpsertStep(t)
    BY <1>2, <2>2, CountedOnce
  <2>3. CASE CommitRetries(t) \/ CommitExhausted(t)
    BY <1>1, <2>3 DEF CommitRetries, CommitExhausted, Fault
  <2>4. CASE DeadLetter(t)
    BY <1>2, <2>4 DEF DeadLetter, Calm
  <2> QED
    BY <1>3, <2>1, <2>2, <2>3, <2>4 DEF Loop, CommitStatement
<1>4. ASSUME NEW w \in Workers, WorkerStep(w) PROVE CountsAddUp'
  <2>1. CASE ClaimNext(w)
    BY <1>2, <2>1, ClaimedStillWaits, SameSum
  <2>2. CASE AckClaim(w)
    BY <1>2, <2>2, AckedWasCounted, SameSum
  <2>3. CASE ThreadDies(w) \/ ClaimReplyLost(w)
    BY <1>1, <2>3 DEF ThreadDies, ClaimReplyLost, Fault
  <2> QED
    BY <1>4, <2>1, <2>2, <2>3 DEF WorkerStep
<1>5. ASSUME NEW h \in Handlers, HandlerStep(h) PROVE CountsAddUp'
  <2>1. ASSUME NEW i \in Async, PostAsync(h, i) PROVE CountsAddUp'
    BY <1>2, <2>1, SentAndQueued
  <2>2. ASSUME NEW i \in Sync, PostSync(h, i) PROVE CountsAddUp'
    BY <1>2, <2>2, SentInline
  <2>3. CASE SyncFails(h)
    BY <1>1, <2>3 DEF SyncFails, Fault
  <2>4. CASE Reply(h) \/ FlushBegins(h) \/ FlushReturns(h) \/ FlushTimesOut(h)
    BY <1>2, <2>4, ClientsWait, SameSum
  <2> QED
    BY <1>5, <2>1, <2>2, <2>3, <2>4 DEF HandlerStep
<1>6. ASSUME ReplayStep PROVE CountsAddUp'
  BY <1>1, <1>2, <1>6, ReplayWaits, SameSum
<1>7. ASSUME Environment PROVE CountsAddUp'
  <2>1. ASSUME NEW n \in Instances, Crash(n) \/ Restart(n) PROVE FALSE
    <3>1. CASE Crash(n)
      BY <1>1, <3>1 DEF Crash, Fault
    <3>2. CASE Restart(n)
      BY <1>2, <3>2, PathAssumption DEF Restart, Hosted, Calm, Threads
    <3> QED
      BY <2>1, <3>1, <3>2
  <2>2. ASSUME NEW d \in DocIds, LeaseExpires(d) \/ LeaseOverruns(d) PROVE WaitingSame
    <3>1. CASE LeaseExpires(d)
      BY <3>1, WaitingFrame DEF LeaseExpires, Lapse, threadVars, storeVars, histVars
    <3>2. CASE LeaseOverruns(d)
      BY <1>1, <3>2 DEF LeaseOverruns
    <3> QED
      BY <2>2, <3>1, <3>2
  <2>3. CASE ViewCommits
    BY <1>2, <2>3, WaitingFrame, SameSum DEF ViewCommits, queueVars, threadVars, histVars
  <2> QED
    BY <1>2, <1>7, <2>1, <2>2, <2>3, SameSum DEF Environment
<1>8. ASSUME UNCHANGED vars PROVE CountsAddUp'
  <2>1. WaitingSame
    BY <1>8, WaitingFrame DEF vars, queueVars, threadVars, storeVars, histVars
  <2> QED
    BY <1>2, <2>1, SameSum
<1> QED
  BY <1>1, <1>3, <1>4, <1>5, <1>6, <1>7, <1>8 DEF Next

LEMMA CountsAtRest == ASSUME TypeInv, CountInv, faults = 0 PROVE StepsCounted
<1> USE PathAssumption
<1> SUFFICES ASSUME AtRest PROVE SumFunctionOnSet(useCount, Keys) = stepsSent
  <2>1. stepsSent \in (stepsSent - faults)..(stepsSent + faults)
    BY DEF TypeInv, TypeOK
  <2> QED
    BY <2>1 DEF StepsCounted
<1>1. WaitingDocs = {}
  BY QueueAssumption DEF AtRest, Unacked, WaitingDocs
<1>2. WaitingHandlers = {}
  BY DEF AtRest, WaitingHandlers, Threads
<1>3. SumFunctionOnSet(useCount, Keys) \in Nat
  BY WaitingFinite, SumIsNat
<1>4. SumFunctionOnSet(useCount, Keys) + 0 + 0 = stepsSent
  BY <1>1, <1>2, FS_EmptySet DEF CountInv, CountsAddUp
<1> QED
  BY <1>3, <1>4

(* As long as no statement fails and no process or thread dies, the use      *)
(* counts of the tool steps add up to the steps clients sent, whenever the   *)
(* queue is drained and every thread is at rest, however many workers share  *)
(* the queue: record_step() bumps one counter once for each step taken up.   *)
(* With a failure the claim is false: the UPSERT is not undone when the edges *)
(* after it fail, and the retry counts again.                                *)
THEOREM StepsAreCounted == Spec => [](faults = 0 => StepsCounted)
<1> DEFINE Inv == TypeInv /\ PromiseInv /\ CountInv
<1>1. Init => Inv
  BY TypeInit, PromiseInit, CountInit
<1>2. Inv /\ [Next]_vars => Inv'
  BY TypeStep, PromiseStep, CountStepped
<1>3. Inv => (faults = 0 => StepsCounted)
  BY CountsAtRest
<1> QED
  BY <1>1, <1>2, <1>3, PTL DEF Spec
=============================================================================
