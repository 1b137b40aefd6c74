--------------------------- MODULE SessionMemory ---------------------------
(***************************************************************************)
(* What store() does to one session beside writing the turn: the session's  *)
(* running topic, the flush of the working buffer on a topic shift, and the *)
(* capacity sweep, one database statement at a time, under the several      *)
(* threads that may commit turns of one session (write workers, inline       *)
(* commits) and the retries and redeliveries of the write path.  store_many *)
(* writes into the same session and does neither.  The TTL index removes    *)
(* expired memories.                                                        *)
(*                                                                         *)
(* A turn's embedding is a point on a line: cosine below                    *)
(* topic_shift_threshold is a distance above Reach, and the EWA blend of two *)
(* vectors is their midpoint.  created_at and utcnow_iso() are readings of  *)
(* a logical clock.                                                         *)
(***************************************************************************)
EXTENDS Integers, FiniteSets

CONSTANTS
  Writers,       \* threads that commit turns
  Turns,         \* the turns (distinct idempotency keys) of the session
  WorkingTurns,  \* stored with memory_type "working"
  BulkTurns,     \* arriving by store_many
  Topic,         \* turn -> its embedding
  Reach,         \* the largest distance that is no topic shift
  Capacity,      \* settings.working_capacity
  MaxAttempts,   \* bound: commits of one turn
  MaxCommits,    \* bound: commits in all
  NoTurn

ASSUME SessionAssumption ==
  /\ IsFiniteSet(Turns)
  /\ WorkingTurns \subseteq Turns /\ BulkTurns \subseteq Turns
  /\ Topic \in [Turns -> Nat]
  /\ Reach \in Nat /\ Capacity \in Nat
  /\ MaxAttempts \in Nat /\ MaxCommits \in Nat
  /\ NoTurn \notin Turns

VARIABLES
  pc, turn, isNew, prior, now,         \* threads
  episodes,                            \* keys in the episodes collection
  kind, expires, created,              \* memories: type, expires_at # null, created_at
  seeded, topic, due,                  \* the sessions document: is there one, its fields
  clock, tries,                        \* time; commits begun per turn
  shifts, seenBy, disturbed, unswept   \* history

threadVars  == <<pc, turn, isNew, prior, now>>
memoryVars  == <<kind, expires, created>>
sessionVars == <<seeded, topic, due>>
historyVars == <<shifts, seenBy, disturbed, unswept>>
vars == <<threadVars, episodes, memoryVars, sessionVars, clock, tries, historyVars>>

Location == {"idle", "episode", "topic", "seed", "flush", "shift", "blend", "memory", "sweep"}

TypeOK ==
  /\ pc \in [Writers -> Location]
  /\ turn \in [Writers -> Turns \cup {NoTurn}]
  /\ isNew \in [Writers -> BOOLEAN]
  /\ prior \in [Writers -> Nat] /\ now \in [Writers -> Nat]
  /\ episodes \subseteq Turns
  /\ kind \in [Turns -> {"none", "working", "episodic"}]
  /\ expires \in [Turns -> BOOLEAN] /\ created \in [Turns -> Nat]
  /\ seeded \in BOOLEAN /\ topic \in Nat /\ due \in BOOLEAN
  /\ clock \in Nat /\ tries \in [Turns -> Nat]
  /\ shifts \in Nat /\ seenBy \in [Turns -> Nat]
  /\ disturbed \subseteq Turns /\ unswept \subseteq Turns
  /\ \A w \in Writers : pc[w] # "idle" => turn[w] \in Turns

Init ==
  /\ pc = [w \in Writers |-> "idle"] /\ turn = [w \in Writers |-> NoTurn]
  /\ isNew = [w \in Writers |-> FALSE]
  /\ prior = [w \in Writers |-> 0] /\ now = [w \in Writers |-> 0]
  /\ episodes = {}
  /\ kind = [t \in Turns |-> "none"]
  /\ expires = [t \in Turns |-> FALSE] /\ created = [t \in Turns |-> 0]
  /\ seeded = FALSE /\ topic = 0 /\ due = FALSE
  /\ clock = 0 /\ tries = [t \in Turns |-> 0]
  /\ shifts = 0 /\ seenBy = [t \in Turns |-> 0]
  /\ disturbed = {} /\ unswept = {}

Busy    == {w \in Writers : pc[w] # "idle"}
Buffer  == {t \in Turns : kind[t] = "working"}
Least(m, n) == IF m < n THEN m ELSE n

(* A thread moves on, or is done and forgets its locals.                    *)
Go(w, l) == pc' = [pc EXCEPT ![w] = l]
Locals   == <<turn, isNew, prior, now>>
Move(w, l) == Go(w, l) /\ UNCHANGED Locals
Done(w) ==
  /\ Go(w, "idle")
  /\ turn' = [turn EXCEPT ![w] = NoTurn] /\ isNew' = [isNew EXCEPT ![w] = FALSE]
  /\ prior' = [prior EXCEPT ![w] = 0] /\ now' = [now EXCEPT ![w] = 0]

(* The commits that will sweep: they found their turn new, so they track the *)
(* topic and, for a working turn, enforce the capacity.                     *)
Tracks(w) == isNew[w] /\ turn[w] \notin BulkTurns
Sweeps(w) == Tracks(w) /\ turn[w] \in WorkingTurns
Owing     == {t \in Turns : \E w \in Busy : Sweeps(w) /\ turn[w] = t}

(***************************************************************************)
(* A commit of turn t: read the clock, look the episode up.                 *)
(***************************************************************************)
Begin(w, t) ==
  /\ pc[w] = "idle" /\ tries[t] < MaxAttempts /\ clock < MaxCommits
  /\ clock' = clock + 1 /\ tries' = [tries EXCEPT ![t] = @ + 1]
  /\ turn' = [turn EXCEPT ![w] = t] /\ now' = [now EXCEPT ![w] = clock']
  /\ isNew' = [isNew EXCEPT ![w] = t \notin episodes]
  /\ disturbed' = disturbed \cup {turn[v] : v \in Busy}
                            \cup (IF Busy # {} \/ tries[t] > 0 THEN {t} ELSE {})
  /\ Go(w, "episode")
  /\ UNCHANGED <<prior, episodes, memoryVars, sessionVars, shifts, seenBy, unswept>>

InsertEpisode(w) ==
  /\ pc[w] = "episode"
  /\ episodes' = episodes \cup {turn[w]}
  /\ Move(w, IF Tracks(w) THEN "topic" ELSE "memory")
  /\ UNCHANGED <<memoryVars, sessionVars, clock, tries, historyVars>>

(***************************************************************************)
(* _track_session_topic: read the session, then write it by what was read.  *)
(***************************************************************************)
Distance(x, y) == IF x < y THEN y - x ELSE x - y
Shifted(t, p) == Distance(Topic[t], p) > Reach

ReadTopic(w) ==
  /\ pc[w] = "topic"
  /\ IF ~seeded THEN Move(w, "seed")
     ELSE /\ prior' = [prior EXCEPT ![w] = topic]
          /\ Go(w, IF Shifted(turn[w], topic) THEN "flush" ELSE "blend")
          /\ UNCHANGED <<turn, isNew, now>>
  /\ UNCHANGED <<episodes, memoryVars, sessionVars, clock, tries, historyVars>>

Saw(w, n) == seenBy' = [seenBy EXCEPT ![turn[w]] = n]

Seed(w) ==
  /\ pc[w] = "seed"
  /\ seeded' = TRUE /\ topic' = IF seeded THEN topic ELSE Topic[turn[w]]
  /\ Saw(w, shifts) /\ Move(w, "memory")
  /\ UNCHANGED <<episodes, memoryVars, due, clock, tries, shifts, disturbed, unswept>>

(* Mistake: the type is changed and the TTL is left.                         *)
PromoteButExpire(S) ==
  /\ kind' = [t \in Turns |-> IF t \in S THEN "episodic" ELSE kind[t]]
  /\ UNCHANGED <<expires, created>>

Promote(S) ==
  /\ kind' = [t \in Turns |-> IF t \in S THEN "episodic" ELSE kind[t]]
  /\ expires' = [t \in Turns |-> IF t \in S THEN FALSE ELSE expires[t]]
  /\ UNCHANGED created

(* Mistake: the flush made from a copy of the sweep, with its LIMIT.         *)
FlushOverflow(w) ==
  /\ pc[w] = "flush"
  /\ \E K \in SUBSET Buffer :
       /\ Cardinality(K) = Least(Cardinality(Buffer), Capacity)
       /\ Promote(Buffer \ K)
  /\ Move(w, "shift")
  /\ UNCHANGED <<episodes, sessionVars, clock, tries, historyVars>>

Flush(w) ==
  /\ pc[w] = "flush"
  /\ Promote(Buffer)
  /\ Move(w, "shift")
  /\ UNCHANGED <<episodes, sessionVars, clock, tries, historyVars>>

Shift(w) ==
  /\ pc[w] = "shift"
  /\ topic' = Topic[turn[w]] /\ due' = TRUE
  /\ shifts' = shifts + 1 /\ Saw(w, shifts') /\ Move(w, "memory")
  /\ UNCHANGED <<episodes, memoryVars, clock, tries, seeded, disturbed, unswept>>

(* Mistakes: the document replaced, not updated; a sign slip in the blend.   *)
BlendReplacing(w) ==
  /\ pc[w] = "blend"
  /\ topic' = (Topic[turn[w]] + prior[w]) \div 2 /\ due' = FALSE
  /\ Saw(w, shifts) /\ Move(w, "memory")
  /\ UNCHANGED <<episodes, memoryVars, seeded, clock, tries, shifts, disturbed, unswept>>
BlendApart(w) ==
  /\ pc[w] = "blend"
  /\ topic' = (Topic[turn[w]] - prior[w]) \div 2
  /\ Saw(w, shifts) /\ Move(w, "memory")
  /\ UNCHANGED <<episodes, memoryVars, seeded, due, clock, tries, shifts, disturbed, unswept>>

Blend(w) ==
  /\ pc[w] = "blend"
  /\ topic' = (Topic[turn[w]] + prior[w]) \div 2
  /\ Saw(w, shifts) /\ Move(w, "memory")
  /\ UNCHANGED <<episodes, memoryVars, seeded, due, clock, tries, shifts, disturbed, unswept>>

(***************************************************************************)
(* The memory, with overwrite_mode "ignore"; then the capacity sweep.       *)
(***************************************************************************)
InsertMemory(w) ==
  /\ pc[w] = "memory"
  /\ LET t == turn[w]
         absent == kind[t] = "none" IN
     /\ kind' = [kind EXCEPT ![t] = IF ~absent THEN @ ELSE
                                    IF t \in WorkingTurns THEN "working" ELSE "episodic"]
     /\ expires' = [expires EXCEPT ![t] = IF absent THEN t \in WorkingTurns ELSE @]
     /\ created' = [created EXCEPT ![t] = IF absent THEN now[w] ELSE @]
     /\ unswept' = IF absent /\ ~Sweeps(w) THEN unswept \cup {t} ELSE unswept
  /\ IF Sweeps(w) THEN Move(w, "sweep") ELSE Done(w)
  /\ UNCHANGED <<episodes, sessionVars, clock, tries, shifts, seenBy, disturbed>>

(* Mistakes: an offset one too large; the sort order reversed.               *)
NewestPlusOne(K) ==
  /\ Cardinality(K) = Least(Cardinality(Buffer), Capacity + 1)
  /\ \A k \in K, d \in Buffer \ K : created[k] >= created[d]
Oldest(K) ==
  /\ Cardinality(K) = Least(Cardinality(Buffer), Capacity)
  /\ \A k \in K, d \in Buffer \ K : created[k] <= created[d]

(* SORT m.created_at DESC LIMIT @capacity, ...: what the sweep leaves.        *)
Newest(K) ==
  /\ Cardinality(K) = Least(Cardinality(Buffer), Capacity)
  /\ \A k \in K, d \in Buffer \ K : created[k] >= created[d]

Sweep(w) ==
  /\ pc[w] = "sweep"
  /\ \E K \in SUBSET Buffer : Newest(K) /\ Promote(Buffer \ K)
  /\ unswept' = {}
  /\ Done(w)
  /\ UNCHANGED <<episodes, sessionVars, clock, tries, shifts, seenBy, disturbed>>

(* Any statement may fail and end the commit; so may the process.           *)
Fail(w) ==
  /\ w \in Busy
  /\ Done(w)
  /\ unswept' = IF Sweeps(w) THEN unswept \cup {turn[w]} ELSE unswept
  /\ disturbed' = disturbed \cup {turn[w]}
  /\ UNCHANGED <<episodes, memoryVars, sessionVars, clock, tries, shifts, seenBy>>

(* The TTL index removes a document whose expires_at has passed.             *)
Expire(t) ==
  /\ kind[t] # "none" /\ expires[t]
  /\ kind' = [kind EXCEPT ![t] = "none"] /\ expires' = [expires EXCEPT ![t] = FALSE]
  /\ UNCHANGED <<threadVars, episodes, created, sessionVars, clock, tries, historyVars>>

Track(w)  == ReadTopic(w) \/ Seed(w) \/ Flush(w) \/ Shift(w) \/ Blend(w)
Commit(w) == InsertEpisode(w) \/ Track(w) \/ InsertMemory(w) \/ Sweep(w) \/ Fail(w)

Next ==
  \/ \E w \in Writers : (\E t \in Turns : Begin(w, t)) \/ Commit(w)
  \/ \E t \in Turns : Expire(t)

Spec == Init /\ [][Next]_vars

(***************************************************************************)
(* Properties                                                              *)
(***************************************************************************)

(* The working buffer exceeds its capacity only by turns whose own sweep is  *)
(* still to come, or was lost: to a failed commit, to a retry or bulk store   *)
(* that does not sweep, and not made up for by a later sweep.               *)
BufferBounded == Cardinality(Buffer \ (Owing \cup unswept)) <= Capacity

(* A topic shift flushes the prior buffer: a memory stored before the last   *)
(* recorded shift is still in the buffer only if its commit overlapped        *)
(* another, failed or was repeated, or never looked at the topic.           *)
ShiftFlushesPrior ==
  \A t \in Buffer \ (disturbed \cup BulkTurns) :
    seenBy[t] = shifts \/ \E w \in Busy : turn[w] = t

(* Promotion takes the oldest first, whatever the interleaving: no memory     *)
(* left in the buffer by an undisturbed commit is older than a promoted one. *)
BufferHoldsNewest ==
  \A t \in Buffer \ disturbed, u \in WorkingTurns :
    kind[u] = "episodic" => created[u] <= created[t]

(* Once a shift has been recorded the session stays due for consolidation,   *)
(* whatever concurrent turns write into its document.                       *)
ShiftStaysFlagged == shifts > 0 => due

(* A promoted memory is durable: neither the session's TTL nor a redelivery   *)
(* of its turn takes it out of episodic memory.                             *)
PromotedIsKept == [][\A t \in Turns : kind[t] = "episodic" => kind'[t] = "episodic"]_vars
============================================================================
