----------------------------- MODULE DreamState -----------------------------
(***************************************************************************)
(* Dream State's review of a tenant's entities: a pass takes a snapshot of   *)
(* the candidates, judges each flagged one against its conflict target,      *)
(* and, if the circuit breaker lets it, applies what it decided one database *)
(* statement at a time.  Beside it run the write path, which creates, flags  *)
(* and mentions entities, and forget and purge.  A pass may end at any        *)
(* statement.  The code holds no lock: Passes is the set of processes that    *)
(* may run one at the same time (the endpoint blocks its own event loop, so  *)
(* one per service instance or cron job).                                   *)
(*                                                                         *)
(* Belief grows with the mentions, so that mentions stand for the score of   *)
(* the tiebreaker.  The verdict of the model, whether the communities of a    *)
(* pair differ and whether a summary comes back empty are choices.           *)
(***************************************************************************)
EXTENDS Integers, FiniteSets

CONSTANTS
  Entities, NoEntity,
  Passes,                 \* processes that run run_dream_state
  Threshold,              \* settings.consolidation_mention_threshold
  BreakNum, BreakDen,     \* settings.dream_breaker_threshold, a fraction
  MaxMentions,            \* bound: mention_count of an entity
  MaxRuns,                \* bound: passes begun
  MaxForgets              \* bound: entities forgotten or purged

ASSUME DreamAssumption ==
  /\ IsFiniteSet(Entities)
  /\ NoEntity \notin Entities
  /\ Threshold \in Nat /\ BreakNum \in Nat /\ BreakDen \in Nat \ {0} /\ BreakNum <= BreakDen
  /\ MaxMentions \in Nat /\ MaxRuns \in Nat /\ MaxForgets \in Nat

VARIABLES
  doc, conflict, review, mentions, summarized,      \* entities
  supersedes,                                       \* edges, new to old
  doomed,                                           \* ids purge collected, their edges removed
  pc, todo, flagged, snap, reviewed, plan, clears, summaries, pair,   \* passes
  hidden, lost, runs, forgets                       \* history, bounded counters

entityVars == <<doc, conflict, review, mentions, summarized>>
decideVars == <<todo, flagged, snap, reviewed>>
applyVars  == <<plan, clears, summaries, pair>>
passVars   == <<pc, decideVars, applyVars, hidden>>
vars == <<entityVars, supersedes, doomed, passVars, lost, runs, forgets>>

Pairs == Entities \X Entities
NoPair == <<NoEntity, NoEntity>>

TypeOK ==
  /\ doc \in [Entities -> {"none", "valid", "invalid", "gone"}]
  /\ conflict \in [Entities -> Entities \cup {NoEntity}]
  /\ review \in [Entities -> BOOLEAN] /\ mentions \in [Entities -> Nat]
  /\ summarized \subseteq Entities
  /\ supersedes \subseteq Pairs /\ doomed \subseteq Entities
  /\ pc \in [Passes -> {"idle", "review", "apply", "invalidate", "settle"}]
  /\ todo \in [Passes -> SUBSET Entities] /\ flagged \in [Passes -> SUBSET Entities]
  /\ snap \in [Passes -> [Entities -> Nat]] /\ reviewed \in [Passes -> Nat]
  /\ plan \in [Passes -> SUBSET Pairs] /\ pair \in [Passes -> Pairs \cup {NoPair}]
  /\ clears \in [Passes -> SUBSET Entities] /\ summaries \in [Passes -> SUBSET Entities]
  /\ hidden \in [Passes -> Nat] /\ lost \subseteq Pairs
  /\ runs \in Nat /\ forgets \in Nat
  /\ \A p \in Passes : pc[p] \in {"invalidate", "settle"} => pair[p] \in Pairs

Unseen == [e \in Entities |-> 0]

Init ==
  /\ doc = [e \in Entities |-> "none"] /\ conflict = [e \in Entities |-> NoEntity]
  /\ review = [e \in Entities |-> FALSE] /\ mentions = [e \in Entities |-> 0]
  /\ summarized = {} /\ supersedes = {} /\ doomed = {}
  /\ pc = [p \in Passes |-> "idle"]
  /\ todo = [p \in Passes |-> {}] /\ flagged = [p \in Passes |-> {}]
  /\ snap = [p \in Passes |-> Unseen] /\ reviewed = [p \in Passes |-> 0]
  /\ plan = [p \in Passes |-> {}] /\ clears = [p \in Passes |-> {}]
  /\ summaries = [p \in Passes |-> {}] /\ pair = [p \in Passes |-> NoPair]
  /\ hidden = [p \in Passes |-> 0] /\ lost = {} /\ runs = 0 /\ forgets = 0

(***************************************************************************)
(* The write path: a new entity, flagged against one it found in its scan of  *)
(* the tenant (which filters nothing, so the match may be invalid, and may   *)
(* have been purged since), or another mention of an existing one.           *)
(***************************************************************************)
Create(e) ==
  /\ doc[e] = "none"
  /\ doc' = [doc EXCEPT ![e] = "valid"] /\ mentions' = [mentions EXCEPT ![e] = 1]
  /\ \/ UNCHANGED <<conflict, review>>
     \/ \E t \in Entities :
          /\ doc[t] # "none"
          /\ conflict' = [conflict EXCEPT ![e] = t] /\ review' = [review EXCEPT ![e] = TRUE]
  /\ UNCHANGED <<summarized, supersedes, doomed, passVars, lost, runs, forgets>>

Mention(e) ==
  /\ doc[e] \in {"valid", "invalid"} /\ mentions[e] < MaxMentions
  /\ mentions' = [mentions EXCEPT ![e] = @ + 1]
  /\ UNCHANGED <<doc, conflict, review, summarized, supersedes, doomed, passVars, lost, runs,
                 forgets>>

(***************************************************************************)
(* forget: invalid_at on one of the subject's entities.  purge: the edges of  *)
(* the entities it collected go, then the entities.                         *)
(***************************************************************************)
Forget(e) ==
  /\ doc[e] = "valid" /\ forgets < MaxForgets
  /\ doc' = [doc EXCEPT ![e] = "invalid"] /\ forgets' = forgets + 1
  /\ UNCHANGED <<conflict, review, mentions, summarized, supersedes, doomed, passVars, lost, runs>>

PurgeEdges(e) ==
  /\ doc[e] \in {"valid", "invalid"} /\ e \notin doomed /\ forgets < MaxForgets
  /\ supersedes' = {s \in supersedes : s[1] # e /\ s[2] # e}
  /\ doomed' = doomed \cup {e} /\ forgets' = forgets + 1
  /\ UNCHANGED <<entityVars, passVars, lost, runs>>

PurgeEntity(e) ==
  /\ e \in doomed /\ doc[e] # "gone"
  /\ doc' = [doc EXCEPT ![e] = "gone"]
  /\ UNCHANGED <<conflict, review, mentions, summarized, supersedes, doomed, passVars, lost, runs,
                 forgets>>

(***************************************************************************)
(* A pass decides.                                                          *)
(***************************************************************************)
Candidates == {e \in Entities : doc[e] = "valid" /\ (review[e] \/ mentions[e] >= Threshold)}

Go(p, l) == pc' = [pc EXCEPT ![p] = l]

Begin(p) ==
  /\ pc[p] = "idle" /\ runs < MaxRuns /\ Candidates # {}
  /\ todo' = [todo EXCEPT ![p] = Candidates]
  /\ flagged' = [flagged EXCEPT ![p] = {e \in Candidates : review[e] /\ conflict[e] # NoEntity}]
  /\ snap' = [snap EXCEPT ![p] = mentions]
  /\ reviewed' = [reviewed EXCEPT ![p] = Cardinality(Candidates)]
  /\ hidden' = [hidden EXCEPT ![p] = 0]
  /\ runs' = runs + 1
  /\ Go(p, "review")
  /\ UNCHANGED <<entityVars, supersedes, doomed, applyVars, lost, forgets>>

Decide(p, e, S, C) ==
  /\ plan' = [plan EXCEPT ![p] = @ \cup S]
  /\ clears' = [clears EXCEPT ![p] = @ \cup C]

(* Mistake: the survivor sought one conflict further.                        *)
WinnerOfChain(p, e) ==
  IF mentions[conflict[e]] > snap[p][e] THEN conflict[conflict[e]] ELSE e

(* The better-attested of the two survives: the snapshot of the candidate    *)
(* against the target as it is now.                                         *)
Winner(p, e) == IF mentions[conflict[e]] > snap[p][e] THEN conflict[e] ELSE e
Loser(p, e)  == IF mentions[conflict[e]] > snap[p][e] THEN e ELSE conflict[e]

(* Mistake: the target is not looked at again.                              *)
JudgeUnread(p, e) ==
  \/ Decide(p, e, {}, {})
  \/ Decide(p, e, {<<Winner(p, e), Loser(p, e)>>}, {})
  \/ Decide(p, e, {}, {e})

Judge(p, e) ==
  \/ doc[conflict[e]] # "valid" /\ Decide(p, e, {}, {e})
  \/ /\ doc[conflict[e]] = "valid"
     /\ \/ Decide(p, e, {}, {})                                   \* communities differ
        \/ Decide(p, e, {<<Winner(p, e), Loser(p, e)>>}, {})      \* CONTRADICTS
        \/ Decide(p, e, {}, {e})                                  \* DISTINCT

Distil(p, e) ==
  \/ UNCHANGED summaries
  \/ snap[p][e] >= Threshold /\ summaries' = [summaries EXCEPT ![p] = @ \cup {e}]

Review(p, e) ==
  /\ pc[p] = "review" /\ e \in todo[p]
  /\ IF e \in flagged[p] THEN Judge(p, e) ELSE Decide(p, e, {}, {})
  /\ Distil(p, e)
  /\ todo' = [todo EXCEPT ![p] = @ \ {e}]
  /\ UNCHANGED <<entityVars, supersedes, doomed, pc, flagged, snap, reviewed, pair, hidden, lost,
                 runs, forgets>>

(***************************************************************************)
(* The breaker, then the application of the plan.                           *)
(***************************************************************************)
(* Mistake: the fraction computed with integer division.                    *)
TrippedOnWholes(p) == (Cardinality(plan[p]) \div reviewed[p]) * BreakDen > BreakNum
Tripped(p) == Cardinality(plan[p]) * BreakDen > reviewed[p] * BreakNum

(* The pass is over and its locals are gone.                                *)
Ends(p) ==
  /\ Go(p, "idle")
  /\ todo' = [todo EXCEPT ![p] = {}] /\ flagged' = [flagged EXCEPT ![p] = {}]
  /\ snap' = [snap EXCEPT ![p] = Unseen] /\ reviewed' = [reviewed EXCEPT ![p] = 0]
  /\ plan' = [plan EXCEPT ![p] = {}] /\ clears' = [clears EXCEPT ![p] = {}]
  /\ summaries' = [summaries EXCEPT ![p] = {}] /\ pair' = [pair EXCEPT ![p] = NoPair]
  /\ hidden' = [hidden EXCEPT ![p] = 0]
  /\ UNCHANGED <<entityVars, supersedes, doomed, lost, runs, forgets>>

Conclude(p) ==
  /\ pc[p] = "review" /\ todo[p] = {}
  /\ IF Tripped(p) THEN Ends(p)
     ELSE /\ Go(p, "apply")
          /\ UNCHANGED <<entityVars, supersedes, doomed, decideVars, applyVars, hidden, lost, runs,
                         forgets>>

(* Mistake: the edge keyed by the old entity alone.                         *)
EdgesByLoser(n, o) ==
  IF \E s \in supersedes : s[2] = o THEN supersedes ELSE supersedes \cup {<<n, o>>}

(* supersede(): the edge, with overwrite_mode "ignore" on its key ...         *)
Edges(n, o) == supersedes \cup {<<n, o>>}

InsertEdge(p) ==
  /\ pc[p] = "apply"
  /\ \E s \in plan[p] :
       /\ supersedes' = Edges(s[1], s[2])
       /\ pair' = [pair EXCEPT ![p] = s]
       /\ plan' = [plan EXCEPT ![p] = @ \ {s}]
  /\ Go(p, "invalidate")
  /\ UNCHANGED <<entityVars, doomed, decideVars, clears, summaries, hidden, lost, runs, forgets>>

(* ... then invalid_at of the old entity, which raises if it is purged ...     *)
Invalidate(p) ==
  LET old == pair[p][2] IN
  /\ pc[p] = "invalidate"
  /\ doc[old] # "gone"
  /\ doc' = [doc EXCEPT ![old] = "invalid"]
  /\ lost' = lost \cup {pair[p]}
  /\ hidden' = [hidden EXCEPT ![p] = @ + 1]
  /\ Go(p, "settle")
  /\ UNCHANGED <<conflict, review, mentions, summarized, supersedes, doomed, decideVars, applyVars,
                 runs, forgets>>

(* ... and the winner's flag.                                               *)
Settle(p) ==
  LET new == pair[p][1] IN
  /\ pc[p] = "settle"
  /\ doc[new] # "gone"
  /\ review' = [review EXCEPT ![new] = FALSE]
  /\ pair' = [pair EXCEPT ![p] = NoPair]
  /\ Go(p, "apply")
  /\ UNCHANGED <<doc, conflict, mentions, summarized, supersedes, doomed, decideVars, plan, clears,
                 summaries, hidden, lost, runs, forgets>>

Clear(p) ==
  /\ pc[p] = "apply" /\ plan[p] = {}
  /\ \E e \in clears[p] :
       /\ doc[e] # "gone"
       /\ review' = [review EXCEPT ![e] = FALSE]
       /\ clears' = [clears EXCEPT ![p] = @ \ {e}]
  /\ UNCHANGED <<doc, conflict, mentions, summarized, supersedes, doomed, pc, decideVars, plan,
                 summaries, pair, hidden, lost, runs, forgets>>

Summarize(p) ==
  /\ pc[p] = "apply" /\ plan[p] = {} /\ clears[p] = {}
  /\ \E e \in summaries[p] :
       /\ doc[e] # "gone"
       /\ summarized' = summarized \cup {e}
       /\ summaries' = [summaries EXCEPT ![p] = @ \ {e}]
  /\ UNCHANGED <<doc, conflict, review, mentions, supersedes, doomed, pc, decideVars, plan, clears,
                 pair, hidden, lost, runs, forgets>>

Finish(p) ==
  /\ pc[p] = "apply" /\ plan[p] = {} /\ clears[p] = {} /\ summaries[p] = {}
  /\ Ends(p)

(* A failed statement, an update of a purged entity, or the end of the        *)
(* process.                                                                 *)
Abort(p) == pc[p] # "idle" /\ Ends(p)

Pass(p) ==
  \/ Begin(p) \/ (\E e \in Entities : Review(p, e)) \/ Conclude(p)
  \/ InsertEdge(p) \/ Invalidate(p) \/ Settle(p) \/ Clear(p) \/ Summarize(p)
  \/ Finish(p) \/ Abort(p)

Beside(e) == Create(e) \/ Mention(e) \/ Forget(e) \/ PurgeEdges(e) \/ PurgeEntity(e)

Next ==
  \/ \E e \in Entities : Beside(e)
  \/ \E p \in Passes : Pass(p)

Spec == Init /\ [][Next]_vars

(***************************************************************************)
(* Properties                                                              *)
(***************************************************************************)

(* A conflict costs at most one of its two entities: no two entities were     *)
(* each invalidated in favour of the other.  (An entity has one conflict      *)
(* target and it is older, so a longer circle of losses is impossible.)      *)
ConflictKeepsOne == \A s \in lost : <<s[2], s[1]>> \notin lost

(* What a pass hid can be traced: wherever it stopped, and whatever else      *)
(* happened, a loser's edge leads to the entity it lost to, until purge takes *)
(* the edges of one of the two.                                             *)
HiddenIsAudited == \A s \in lost : s \in supersedes \/ {s[1], s[2]} \cap doomed # {}

(* No pass hides a larger fraction of what it reviewed than the breaker       *)
(* allows.                                                                  *)
BreakerHolds == \A p \in Passes : hidden[p] * BreakDen <= reviewed[p] * BreakNum
============================================================================
