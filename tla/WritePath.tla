----------------------------- MODULE WritePath -----------------------------
(***************************************************************************)
(* The durable write path, end to end: API handlers that enqueue or commit  *)
(* inline, worker threads that claim, commit with retries, dead-letter and  *)
(* ack, the flush barrier, the operator's replay of dead letters, and the   *)
(* commit itself (store() and record_step()) one database statement at a    *)
(* time.  Several service instances share one database; an instance is one  *)
(* API handler (its event loop runs one request at a time, flush yields)    *)
(* and one worker thread.                                                   *)
(*                                                                         *)
(* Data is reduced to what the properties tell apart.  A turn is an intent; *)
(* StoredKey is the idempotency key store() computes, after redaction, and  *)
(* names the episode and its memory; FailKey is intent.key, computed before *)
(* redaction, which names the dead letter and is what the API returns.      *)
(***************************************************************************)
EXTENDS WriteQueue, FiniteSets, Functions

CONSTANTS
  Instances,     \* service processes
  Workers,       \* the write-worker threads
  Handlers,      \* the API event loops
  Ops,           \* the process of the operator's replay command
  Home,          \* thread -> the instance it runs in
  Steps,         \* the intents that are StepIntents
  Async, Sync,   \* the intents clients post without and with sync=true
  Keys,          \* keys of episodes, memories, steps and dead letters
  StoredKey,     \* intent -> the key its commit writes under
  FailKey,       \* intent -> intent.key
  MaxRetries,    \* settings.write_max_retries
  MaxFaults,     \* bound: failed statements, dead threads, crashes, overruns
  MaxReplays,    \* bound: runs of the replay command
  MaxSyncs,      \* bound: inline commits started
  ReplayMayDie   \* the replay command may be killed or fail half way

Threads == Workers \cup Handlers \cup {Ops}

ASSUME PathAssumption ==
  /\ Workers \cap Handlers = {}
  /\ Ops \notin Workers \cup Handlers
  /\ Home \in [Workers \cup Handlers -> Instances]
  /\ Steps \subseteq Intents /\ Async \subseteq Intents /\ Sync \subseteq Intents
  /\ StoredKey \in [Intents -> Keys] /\ FailKey \in [Intents -> Keys]
  /\ MaxRetries \in Nat \ {0}
  /\ MaxFaults \in Nat /\ MaxReplays \in Nat /\ MaxSyncs \in Nat
  /\ ReplayMayDie \in BOOLEAN

ASSUME KeysAssumption == IsFiniteSet(Keys)

(* "The memory backend is single-process only" (docs/ops.md).               *)
ASSUME SingleProcessAssumption == Durable \/ \A m, n \in Instances : m = n

VARIABLES
  pc, task, holding, tries, isNew,              \* threads
  episodes, memories, searchable, derived,      \* what store() wrote
  useCount, linked,                             \* what record_step() wrote
  failed,                                       \* failed_writes
  unread, replayQ, replays,                     \* the replay command
  accepted, committed, flushing, due, flushed,  \* what clients were told
  buried, overrun, cut, raced,                  \* history
  stepsSent, faults, syncs                      \* bounded counters

threadVars == <<pc, task, holding, tries, isNew>>
storeVars  == <<episodes, memories, searchable, derived, useCount, linked>>
replayVars == <<unread, replayQ, replays>>
clientVars == <<accepted, committed, flushing, due, flushed>>
histVars   == <<buried, overrun, cut, raced, stepsSent, faults, syncs>>
vars == <<queueVars, threadVars, storeVars, failed, replayVars, clientVars, histVars>>

StoreAt  == {"check", "episode", "memory", "derive"}
StepAt   == {"upsert", "link"}
CommitAt == StoreAt \cup StepAt
Location == CommitAt \cup {"idle", "bury", "ack", "reply", "move", "drain", "dead", "down"}

TypeOK ==
  /\ QueueTypeOK
  /\ pc \in [Threads -> Location]
  /\ task \in [Threads -> Intents \cup {NoIntent}]
  /\ holding \in [Threads -> DocIds \cup {0}]
  /\ tries \in [Threads -> 0..MaxRetries]
  /\ isNew \in [Threads -> BOOLEAN]
  /\ episodes \subseteq Keys /\ memories \subseteq Keys /\ searchable \subseteq Keys
  /\ derived \in [Keys -> Nat] /\ useCount \in [Keys -> Nat]
  /\ linked \subseteq Intents
  /\ failed \in [Keys -> Intents \cup {NoIntent}]
  /\ unread \subseteq Intents /\ replayQ \subseteq Intents /\ replays \in Nat
  /\ accepted \subseteq Intents /\ committed \subseteq Intents
  /\ flushing \in [Handlers -> BOOLEAN] /\ due \in [Handlers -> SUBSET Intents]
  /\ flushed \subseteq Intents
  /\ buried \subseteq Intents /\ overrun \subseteq DocIds
  /\ cut \subseteq Keys /\ raced \subseteq Keys
  /\ stepsSent \in Nat /\ faults \in Nat /\ syncs \in Nat

Init ==
  /\ QueueInit
  /\ pc = [t \in Threads |-> "idle"]
  /\ task = [t \in Threads |-> NoIntent]
  /\ holding = [t \in Threads |-> 0]
  /\ tries = [t \in Threads |-> 0]
  /\ isNew = [t \in Threads |-> FALSE]
  /\ episodes = {} /\ memories = {} /\ searchable = {}
  /\ derived = [k \in Keys |-> 0] /\ useCount = [k \in Keys |-> 0]
  /\ linked = {}
  /\ failed = [k \in Keys |-> NoIntent]
  /\ unread = {} /\ replayQ = {} /\ replays = 0
  /\ accepted = {} /\ committed = {}
  /\ flushing = [h \in Handlers |-> FALSE] /\ due = [h \in Handlers |-> {}]
  /\ flushed = {} /\ buried = {} /\ overrun = {} /\ cut = {} /\ raced = {}
  /\ stepsSent = 0 /\ faults = 0 /\ syncs = 0

-----------------------------------------------------------------------------
(* Threads: taking up an intent, moving through its commit, letting go.      *)

FirstStatement(i) == IF i \in Steps THEN "upsert" ELSE "check"

TakeUp(t, i, d) ==
  /\ pc' = [pc EXCEPT ![t] = FirstStatement(i)]
  /\ task' = [task EXCEPT ![t] = i]
  /\ holding' = [holding EXCEPT ![t] = d]
  /\ tries' = [tries EXCEPT ![t] = 0]
  /\ UNCHANGED isNew

Advance(t, from, to) ==
  /\ pc[t] = from
  /\ pc' = [pc EXCEPT ![t] = to]
  /\ UNCHANGED <<task, holding, tries>>

LetGo(t, to) ==
  /\ pc' = [pc EXCEPT ![t] = to]
  /\ task' = [task EXCEPT ![t] = NoIntent]
  /\ holding' = [holding EXCEPT ![t] = 0]
  /\ UNCHANGED <<tries, isNew>>

(* Threads that found a turn new and have inserted its episode, but not done *)
(* its follow-up work yet.                                                   *)
UnderWay(t) == pc[t] \in {"memory", "derive"} /\ isNew[t]

(* Something fails and stops these threads; cut keeps the turns that a       *)
(* commit under way leaves behind.                                           *)
Fault(stopped) ==
  /\ faults < MaxFaults
  /\ faults' = faults + 1
  /\ cut' = cut \cup {StoredKey[task[t]] : t \in {u \in stopped : UnderWay(u)}}
  /\ UNCHANGED <<buried, overrun, raced, stepsSent, syncs>>

(* Where a thread goes when commit_intent returns: an inline commit answers  *)
(* its client, everyone else acks.                                           *)
Returned(t) == IF t \in Handlers THEN "reply" ELSE "ack"

-----------------------------------------------------------------------------
(* The commit of a turn, store(): the existence check that decides is_new,   *)
(* the episode, the memory, and then the work only the first store of a turn *)
(* does (entity extraction, or the capacity sweep of a working turn).        *)

(* Another commit of the same turn has found it new as well and is about to  *)
(* insert the episode.                                                       *)
NewElsewhere(t) ==
  \E u \in Threads \ {t} :
    pc[u] = "episode" /\ isNew[u] /\ StoredKey[task[u]] = StoredKey[task[t]]

CheckMemory(t) ==                                                    \* mutant
  /\ Advance(t, "check", "episode")
  /\ isNew' = [isNew EXCEPT ![t] = StoredKey[task[t]] \notin memories]
  /\ raced' = IF isNew'[t] /\ NewElsewhere(t) THEN raced \cup {StoredKey[task[t]]} ELSE raced
  /\ UNCHANGED <<queueVars, storeVars, failed, replayVars, clientVars>>
  /\ UNCHANGED <<buried, overrun, cut, stepsSent, faults, syncs>>

CheckNew(t) ==
  /\ Advance(t, "check", "episode")
  /\ isNew' = [isNew EXCEPT ![t] = StoredKey[task[t]] \notin episodes]
  /\ raced' = IF isNew'[t] /\ NewElsewhere(t) THEN raced \cup {StoredKey[task[t]]} ELSE raced
  /\ UNCHANGED <<queueVars, storeVars, failed, replayVars, clientVars>>
  /\ UNCHANGED <<buried, overrun, cut, stepsSent, faults, syncs>>

InsertEpisode(t) ==
  /\ Advance(t, "episode", "memory")
  /\ episodes' = episodes \cup {StoredKey[task[t]]}
  /\ UNCHANGED <<isNew, memories, searchable, derived, useCount, linked>>
  /\ UNCHANGED <<queueVars, failed, replayVars, clientVars, histVars>>

InsertMemory(t) ==
  /\ Advance(t, "memory", "derive")
  /\ memories' = memories \cup {StoredKey[task[t]]}
  /\ UNCHANGED <<isNew, episodes, searchable, derived, useCount, linked>>
  /\ UNCHANGED <<queueVars, failed, replayVars, clientVars, histVars>>

DeriveOnReplay(t) ==                                                 \* mutant
  /\ Advance(t, "derive", Returned(t))
  /\ derived' = [derived EXCEPT ![StoredKey[task[t]]] = IF isNew[t] THEN @ ELSE @ + 1]
  /\ UNCHANGED <<isNew, episodes, memories, searchable, useCount, linked>>
  /\ UNCHANGED <<queueVars, failed, replayVars, clientVars, histVars>>

Derive(t) ==
  /\ Advance(t, "derive", Returned(t))
  /\ derived' = [derived EXCEPT ![StoredKey[task[t]]] = IF isNew[t] THEN @ + 1 ELSE @]
  /\ UNCHANGED <<isNew, episodes, memories, searchable, useCount, linked>>
  /\ UNCHANGED <<queueVars, failed, replayVars, clientVars, histVars>>

(* The commit of a tool step, record_step(): the UPSERT that creates the     *)
(* step or bumps use_count, then its TOUCHED and TRANSITION edges.           *)
InsertStepOnce(t) ==                                                 \* mutant
  /\ Advance(t, "upsert", "link")
  /\ useCount' = [useCount EXCEPT ![StoredKey[task[t]]] = 1]
  /\ UNCHANGED <<isNew, episodes, memories, searchable, derived, linked>>
  /\ UNCHANGED <<queueVars, failed, replayVars, clientVars, histVars>>

UpsertStep(t) ==
  /\ Advance(t, "upsert", "link")
  /\ useCount' = [useCount EXCEPT ![StoredKey[task[t]]] = @ + 1]
  /\ UNCHANGED <<isNew, episodes, memories, searchable, derived, linked>>
  /\ UNCHANGED <<queueVars, failed, replayVars, clientVars, histVars>>

LinkStep(t) ==
  /\ Advance(t, "link", Returned(t))
  /\ linked' = linked \cup {task[t]}
  /\ UNCHANGED <<isNew, episodes, memories, searchable, derived, useCount>>
  /\ UNCHANGED <<queueVars, failed, replayVars, clientVars, histVars>>

CommitStatement(t) ==
  \/ CheckNew(t)
  \/ InsertEpisode(t)
  \/ InsertMemory(t)
  \/ Derive(t)
  \/ UpsertStep(t)
  \/ LinkStep(t)

(* A statement, the embedder or the extractor raises.  The worker starts the *)
(* commit over, and after max_retries attempts turns to the dead letter; an  *)
(* inline commit answers 503.                                                *)
RetryWithoutLimit(t) ==                                              \* mutant
  /\ t \notin Handlers
  /\ pc[t] \in CommitAt
  /\ Fault({t})
  /\ pc' = [pc EXCEPT ![t] = FirstStatement(task[t])]
  /\ tries' = [tries EXCEPT ![t] = @ + 1]
  /\ UNCHANGED <<task, holding, isNew, queueVars, storeVars, failed, replayVars, clientVars>>

CommitRetries(t) ==
  /\ t \notin Handlers
  /\ pc[t] \in CommitAt
  /\ tries[t] + 1 < MaxRetries
  /\ Fault({t})
  /\ pc' = [pc EXCEPT ![t] = FirstStatement(task[t])]
  /\ tries' = [tries EXCEPT ![t] = @ + 1]
  /\ UNCHANGED <<task, holding, isNew, queueVars, storeVars, failed, replayVars, clientVars>>

GiveUpSilently(t) ==                                                 \* mutant
  /\ t \notin Handlers
  /\ pc[t] \in CommitAt
  /\ tries[t] + 1 = MaxRetries
  /\ Fault({t})
  /\ pc' = [pc EXCEPT ![t] = "ack"]
  /\ tries' = [tries EXCEPT ![t] = @ + 1]
  /\ UNCHANGED <<task, holding, isNew, queueVars, storeVars, failed, replayVars, clientVars>>

CommitExhausted(t) ==
  /\ t \notin Handlers
  /\ pc[t] \in CommitAt
  /\ tries[t] + 1 = MaxRetries
  /\ Fault({t})
  /\ pc' = [pc EXCEPT ![t] = "bury"]
  /\ tries' = [tries EXCEPT ![t] = @ + 1]
  /\ UNCHANGED <<task, holding, isNew, queueVars, storeVars, failed, replayVars, clientVars>>

SyncFails(h) ==
  /\ h \in Handlers
  /\ pc[h] \in CommitAt
  /\ Fault({h})
  /\ LetGo(h, "idle")
  /\ UNCHANGED <<queueVars, storeVars, failed, replayVars, clientVars>>

(* The dead letter replaces whatever failed_writes holds under intent.key.   *)
DeadLetter(t) ==
  /\ pc[t] = "bury"
  /\ failed' = [failed EXCEPT ![FailKey[task[t]]] = task[t]]
  /\ buried' = buried \cup {task[t]}
  /\ Advance(t, "bury", "ack")
  /\ UNCHANGED <<isNew, overrun, cut, raced, stepsSent, faults, syncs>>
  /\ UNCHANGED <<queueVars, storeVars, replayVars, clientVars>>

-----------------------------------------------------------------------------
(* The worker loop.                                                          *)

ClaimNext(w) ==
  /\ pc[w] = "idle"
  /\ \E d \in DocIds :
       /\ Claim(d)
       /\ TakeUp(w, doc[d], d)
  /\ UNCHANGED <<storeVars, failed, replayVars, clientVars, histVars>>

AckClaim(w) ==
  /\ pc[w] = "ack"
  /\ Ack(holding[w])
  /\ LetGo(w, "idle")
  /\ UNCHANGED <<storeVars, failed, replayVars, clientVars, histVars>>

(* claim(), the dead-letter insert and ack() run outside any handler: if the *)
(* database fails there, the exception ends the daemon thread for good.      *)
ThreadDies(w) ==
  /\ pc[w] \in IF Durable THEN {"idle", "bury", "ack"} ELSE {"bury"}
  /\ Fault({w})
  /\ LetGo(w, "dead")
  /\ UNCHANGED <<queueVars, storeVars, failed, replayVars, clientVars>>

(* Or the claim takes effect and its reply is lost: the lease stays behind.  *)
ClaimReplyLost(w) ==
  /\ Durable
  /\ pc[w] = "idle"
  /\ \E d \in DocIds : Claim(d)
  /\ Fault({w})
  /\ LetGo(w, "dead")
  /\ UNCHANGED <<storeVars, failed, replayVars, clientVars>>

-----------------------------------------------------------------------------
(* Clients.  The handler is an event loop: a new request starts only while   *)
(* no inline commit is running.                                              *)

CountStep(i) == stepsSent' = IF i \in Steps THEN stepsSent + 1 ELSE stepsSent

PostAsync(h, i) ==
  /\ pc[h] = "idle"
  /\ Enqueue(i)
  /\ accepted' = accepted \cup {i}
  /\ CountStep(i)
  /\ UNCHANGED <<committed, flushing, due, flushed, buried, overrun, cut, raced, faults, syncs>>
  /\ UNCHANGED <<threadVars, storeVars, failed, replayVars>>

PostSync(h, i) ==
  /\ pc[h] = "idle"
  /\ syncs < MaxSyncs
  /\ syncs' = syncs + 1
  /\ TakeUp(h, i, 0)
  /\ CountStep(i)
  /\ UNCHANGED <<queueVars, storeVars, failed, replayVars, clientVars>>
  /\ UNCHANGED <<buried, overrun, cut, raced, faults>>

ReplyUnsynced(h) ==                                                  \* mutant
  /\ pc[h] = "reply"
  /\ committed' = committed \cup {task[h]}
  /\ LetGo(h, "idle")
  /\ UNCHANGED <<queueVars, storeVars, failed, replayVars, histVars>>
  /\ UNCHANGED <<accepted, flushing, due, flushed>>

(* "committed", after forcing the search view for a turn (steps need none).  *)
Reply(h) ==
  /\ pc[h] = "reply"
  /\ searchable' = IF task[h] \in Steps THEN searchable ELSE memories
  /\ committed' = committed \cup {task[h]}
  /\ LetGo(h, "idle")
  /\ UNCHANGED <<episodes, memories, derived, useCount, linked>>
  /\ UNCHANGED <<queueVars, failed, replayVars, histVars>>
  /\ UNCHANGED <<accepted, flushing, due, flushed>>

(* POST /v1/flush polls pending_count and sleeps in between; it answers      *)
(* "flushed" once nothing is unacked, after forcing the view, or "timeout".  *)
FlushBegins(h) ==
  /\ pc[h] = "idle" /\ ~flushing[h]
  /\ flushing' = [flushing EXCEPT ![h] = TRUE]
  /\ due' = [due EXCEPT ![h] = accepted]
  /\ UNCHANGED <<accepted, committed, flushed>>
  /\ UNCHANGED <<queueVars, threadVars, storeVars, failed, replayVars, histVars>>

FlushReturns(h) ==
  /\ pc[h] = "idle" /\ flushing[h]
  /\ Unacked = {}
  /\ searchable' = memories
  /\ flushed' = flushed \cup due[h]
  /\ flushing' = [flushing EXCEPT ![h] = FALSE]
  /\ due' = [due EXCEPT ![h] = {}]
  /\ UNCHANGED <<episodes, memories, derived, useCount, linked, accepted, committed>>
  /\ UNCHANGED <<queueVars, threadVars, failed, replayVars, histVars>>

FlushTimesOut(h) ==
  /\ pc[h] = "idle" /\ flushing[h]
  /\ Unacked # {}
  /\ flushing' = [flushing EXCEPT ![h] = FALSE]
  /\ due' = [due EXCEPT ![h] = {}]
  /\ UNCHANGED <<accepted, committed, flushed>>
  /\ UNCHANGED <<queueVars, threadVars, storeVars, failed, replayVars, histVars>>

-----------------------------------------------------------------------------
(* ops replay: read the dead letters, move each into the command's own       *)
(* in-memory queue and delete it, then drain that queue with a worker.       *)

ReplayBegins ==
  /\ pc[Ops] = "idle" /\ replays < MaxReplays
  /\ replays' = replays + 1
  /\ unread' = {i \in Intents : \E k \in Keys : failed[k] = i}
  /\ Advance(Ops, "idle", "move")
  /\ UNCHANGED <<isNew, replayQ, queueVars, storeVars, failed, clientVars, histVars>>

ReplayMoves(i) ==
  /\ pc[Ops] = "move" /\ i \in unread
  /\ unread' = unread \ {i}
  /\ replayQ' = replayQ \cup {i}
  /\ failed' = [failed EXCEPT ![FailKey[i]] = NoIntent]
  /\ UNCHANGED <<replays, queueVars, threadVars, storeVars, clientVars, histVars>>

ReplayMoved ==
  /\ unread = {}
  /\ Advance(Ops, "move", "drain")
  /\ UNCHANGED <<isNew, queueVars, storeVars, failed, replayVars, clientVars, histVars>>

ReplayClaims(i) ==
  /\ pc[Ops] = "drain" /\ i \in replayQ
  /\ replayQ' = replayQ \ {i}
  /\ TakeUp(Ops, i, 0)
  /\ UNCHANGED <<unread, replays, queueVars, storeVars, failed, clientVars, histVars>>

ReplayAcks ==
  /\ pc[Ops] = "ack"
  /\ LetGo(Ops, "drain")
  /\ UNCHANGED <<queueVars, storeVars, failed, replayVars, clientVars, histVars>>

ReplayEnds ==
  /\ pc[Ops] = "drain" /\ replayQ = {}
  /\ LetGo(Ops, "idle")
  /\ UNCHANGED <<queueVars, storeVars, failed, replayVars, clientVars, histVars>>

(* The command is killed, or the database fails it outside commit_intent:    *)
(* its in-memory queue goes with it.                                         *)
ReplayDies ==
  /\ ReplayMayDie
  /\ pc[Ops] # "idle"
  /\ Fault({Ops})
  /\ unread' = {} /\ replayQ' = {}
  /\ LetGo(Ops, "idle")
  /\ UNCHANGED <<replays, queueVars, storeVars, failed, clientVars>>

-----------------------------------------------------------------------------
(* Processes, leases and the search view.                                    *)

Hosted(n) == {t \in Workers \cup Handlers : Home[t] = n}

(* Killing the process takes the memory backend's unacked intents with it,   *)
(* as docs/ops.md says; clients can count on them no longer.                 *)
Crash(n) ==
  /\ \E t \in Hosted(n) : pc[t] # "down"
  /\ Fault(Hosted(n))
  /\ SurviveOrVanish
  /\ accepted' = IF Durable THEN accepted ELSE {i \in accepted : ~Queued(i)}
  /\ pc' = [t \in Threads |-> IF t \in Hosted(n) THEN "down" ELSE pc[t]]
  /\ task' = [t \in Threads |-> IF t \in Hosted(n) THEN NoIntent ELSE task[t]]
  /\ holding' = [t \in Threads |-> IF t \in Hosted(n) THEN 0 ELSE holding[t]]
  /\ flushing' = [h \in Handlers |-> h \notin Hosted(n) /\ flushing[h]]
  /\ due' = [h \in Handlers |-> IF h \in Hosted(n) THEN {} ELSE due[h]]
  /\ UNCHANGED <<tries, isNew, storeVars, failed, replayVars, committed, flushed>>

Restart(n) ==
  /\ Hosted(n) # {} /\ \A t \in Hosted(n) : pc[t] = "down"
  /\ pc' = [t \in Threads |-> IF t \in Hosted(n) THEN "idle" ELSE pc[t]]
  /\ UNCHANGED <<task, holding, tries, isNew>>
  /\ UNCHANGED <<queueVars, storeVars, failed, replayVars, clientVars, histVars>>

(* The lease of an entry nobody works on any more runs out ...               *)
LeaseExpires(d) ==
  /\ \A t \in Threads : holding[t] # d
  /\ Lapse(d)
  /\ UNCHANGED <<threadVars, storeVars, failed, replayVars, clientVars, histVars>>

(* ... or that of an entry whose holder is still committing.                 *)
LeaseOverruns(d) ==
  /\ \E t \in Threads : holding[t] = d
  /\ Lapse(d)
  /\ faults < MaxFaults
  /\ faults' = faults + 1
  /\ overrun' = overrun \cup {d}
  /\ UNCHANGED <<threadVars, storeVars, failed, replayVars, clientVars>>
  /\ UNCHANGED <<buried, cut, raced, stepsSent, syncs>>

(* ArangoSearch commits the view every commitIntervalMsec on its own.        *)
ViewCommits ==
  /\ searchable # memories
  /\ searchable' = memories
  /\ UNCHANGED <<episodes, memories, derived, useCount, linked>>
  /\ UNCHANGED <<queueVars, threadVars, failed, replayVars, clientVars, histVars>>

-----------------------------------------------------------------------------
Loop(t) ==
  \/ CommitStatement(t)
  \/ CommitRetries(t)
  \/ CommitExhausted(t)
  \/ DeadLetter(t)

WorkerStep(w) ==
  ClaimNext(w) \/ AckClaim(w) \/ ThreadDies(w) \/ ClaimReplyLost(w)

HandlerStep(h) ==
  \/ \E i \in Async : PostAsync(h, i)
  \/ \E i \in Sync : PostSync(h, i)
  \/ SyncFails(h) \/ Reply(h)
  \/ FlushBegins(h) \/ FlushReturns(h) \/ FlushTimesOut(h)

ReplayStep ==
  \/ ReplayBegins \/ ReplayMoved \/ ReplayAcks \/ ReplayEnds \/ ReplayDies
  \/ \E i \in Intents : ReplayMoves(i) \/ ReplayClaims(i)

Environment ==
  \/ \E n \in Instances : Crash(n) \/ Restart(n)
  \/ \E d \in DocIds : LeaseExpires(d) \/ LeaseOverruns(d)
  \/ ViewCommits

Next ==
  \/ \E t \in Threads : Loop(t)
  \/ \E w \in Workers : WorkerStep(w)
  \/ \E h \in Handlers : HandlerStep(h)
  \/ ReplayStep
  \/ Environment

Spec == Init /\ [][Next]_vars

(* What the code's scheduling gives: threads keep running, a killed process  *)
(* is restarted by its supervisor, clocks pass the end of a lease.  Nothing  *)
(* restarts a worker thread alone.                                           *)
Fairness ==
  /\ \A t \in Threads : WF_vars(CommitStatement(t) \/ DeadLetter(t))
  /\ \A w \in Workers : WF_vars(ClaimNext(w) \/ AckClaim(w))
  /\ \A h \in Handlers : WF_vars(Reply(h))
  /\ \A n \in Instances : WF_vars(Restart(n))
  /\ \A d \in DocIds : WF_vars(LeaseExpires(d))

LiveSpec == Spec /\ Fairness

-----------------------------------------------------------------------------
(* Properties.                                                               *)

Stored(i) == IF i \in Steps THEN i \in linked ELSE StoredKey[i] \in memories
Readable(i) == IF i \in Steps THEN i \in linked ELSE StoredKey[i] \in searchable
DeadLettered(i) == failed[FailKey[i]] = i
InReplay(i) == i \in replayQ \/ task[Ops] = i

(* An intent a client was told is "queued" is never dropped: until its data  *)
(* is stored it is in the queue, in failed_writes, or in the hands of the    *)
(* replay command (claim/ack, dead-lettering and replay together).           *)
NothingLost ==
  \A i \in accepted : Stored(i) \/ Queued(i) \/ DeadLettered(i) \/ InReplay(i)

(* sync=true: once the client has read "committed", its turn is in the       *)
(* search view (its step in the steps collection), whatever runs beside it.  *)
SyncReadable == \A i \in committed : Readable(i)

(* POST /v1/flush: what had been accepted when the barrier was called and    *)
(* was answered "flushed" is readable, or was dead-lettered; in particular   *)
(* no worker is still in the middle of it.                                   *)
FlushBarrier == \A i \in flushed : Readable(i) \/ i \in buried

(* Two workers work on the same queue entry only when a commit has outlived  *)
(* its lease: crashes, expiries and redeliveries alone never bring it about. *)
ExclusiveClaim ==
  \A v, w \in Workers :
     v # w /\ holding[v] # 0 /\ holding[v] = holding[w] => holding[v] \in overrun

(* A turn's follow-up work (entity counters, corroboration, capacity sweep)  *)
(* is applied at most once however often the turn is delivered, inline and   *)
(* queued commits converging (commit_intent, ingest/worker.py:51).           *)
DerivedAtMostOnce == \A k \in Keys : derived[k] <= 1

(* What the existence check of store() does give (ingest/store.py:386): with *)
(* any number of duplicates, redeliveries, inline commits and replays beside *)
(* each other, the follow-up work of a turn is done twice only when one      *)
(* commit checked between another's check and its insert of the episode.     *)
DerivedTwiceOnlyByRace == \A k \in Keys : derived[k] > 1 => k \in raced

AtRest == Unacked = {} /\ \A t \in Threads : pc[t] = "idle"

(* Once the queue is drained and every thread is at rest, each stored memory  *)
(* has had its follow-up work done: none stays behind without its entities.  *)
GraphCompleteAtRest == AtRest => \A k \in memories : derived[k] >= 1

(* What store() does give: at rest a memory is without its entities only if   *)
(* a commit that had found the turn new was stopped between inserting the     *)
(* episode and extracting (ingest/store.py:396-426); retries, redeliveries,   *)
(* duplicates and replays lose them in no other way.                         *)
GraphLostOnlyByCut == AtRest => \A k \in memories : derived[k] >= 1 \/ k \in cut

(* use_count is the number of times a tool step was used: once the durable   *)
(* queue is drained and every thread is at rest, the counters add up to the  *)
(* steps sent, but for one step at most per fault: a step counted again      *)
(* because it was retried, redelivered or claimed twice after its UPSERT, or *)
(* one that failed before it (ingest/procedural.py:19).                      *)
StepsCounted ==
  AtRest => SumFunctionOnSet(useCount, Keys) \in (stepsSent - faults)..(stepsSent + faults)

(* Every accepted intent is eventually stored or dead-lettered.              *)
EventuallySettled ==
  \A i \in Intents : i \in accepted ~> (Stored(i) \/ i \in buried)

-----------------------------------------------------------------------------
(* Refinement: each intent's place in WriteDelivery, read off the state.     *)
StatusOf(i) ==
  IF Stored(i) THEN "stored"
  ELSE IF Queued(i) \/ InReplay(i) THEN "pending"
  ELSE IF DeadLettered(i) THEN "failed"
  ELSE "new"

Delivery == INSTANCE WriteDelivery WITH status <- [i \in Intents |-> StatusOf(i)]

(* The write path implements the promise: through every crash, redelivery,   *)
(* retry and replay an intent only moves as WriteDelivery lets it.           *)
DeliversAsPromised == Delivery!DeliverySpec
=============================================================================
