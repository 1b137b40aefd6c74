----------------------------- MODULE Retrieval -----------------------------
(***************************************************************************)
(* One retrieval (retrieve/search.py), query by query and statement by      *)
(* statement: arms, fusion, time view, reranking, diversity, supersession,  *)
(* entity summaries, the token budget and the access refresh, while other   *)
(* processes forget memories and link them to newer ones.  prime() packs    *)
(* the hits into a briefing.  What text matches a query is any choice of    *)
(* visible memories; scores are integers on a scale that keeps every        *)
(* 1 / (RrfK + rank) exact.                                                 *)
(***************************************************************************)
EXTENDS Integers, SequencesExt, FiniteSetsExt, TLC, Orders

CONSTANTS
  Memories,
  Readable,       \* memories of the tenant and of read_agent_ids
  At,             \* [Memories -> Nat], content time
  Tier,           \* [Memories -> tier of its type]
  Cost,           \* [Memories -> tokens of its text]
  Fresh,          \* [Memories -> effective strength]
  Alike,          \* sets of memories with one embedding; others are orthogonal
  Views,          \* the points in time asked for
  Scorings,       \* rerank_scoring
  PoolSize, HopPoolSize,  \* candidate_pool of a single and of a multihop call
  HitCount,       \* k
  TopN,           \* rerank_top_n
  SubQueries,     \* bound: lookups a multihop question is split into
  RrfK, Scale,    \* _RRF_K, and a common multiple of RrfK + rank
  ArmWeight,      \* rrf_*_weight, per arm
  Lambda,         \* mmr_lambda, in tenths
  Relevances,     \* scores of the cross-encoder
  TimeWeight,     \* rerank_time_weight, on the scale of Relevances
  MaxHops,        \* _SUCCESSOR_HOPS
  MaxTokens,
  HeaderCost, SummaryCosts,  \* entity summaries: the header, and the lines best first
  EntityCosts, StepCosts,    \* lines of a briefing about entities and tool runs
  HeadingCost,    \* [sections of a briefing -> tokens of the heading]
  MaxWrites       \* bound: what others write during the call

NoMemory == "no memory"
Now == 0             \* no as_of; content times are positive
Unread == "unread"   \* a link not read yet
Gone == "gone"       \* a memory that could not be fetched

ASSUME RetrievalAssumption ==
  /\ IsFiniteSet(Memories) /\ Memories \cap {NoMemory, Unread, Gone} = {}
  /\ Readable \subseteq Memories
  /\ At \in [Memories -> Nat \ {0}] /\ Cost \in [Memories -> Nat] /\ Fresh \in [Memories -> Nat]
  /\ ArmWeight \in [{"bm25", "vector", "graph"} -> Nat] /\ {RrfK, Scale, TimeWeight} \subseteq Nat
  /\ {HitCount, TopN, PoolSize, HopPoolSize} \subseteq Nat /\ MaxHops \in Nat \ {0}
  /\ Relevances \subseteq Int
  /\ Scorings \subseteq {"replace", "rrf", "event_time"}
  /\ \A rank \in 1..Cardinality(Memories) : Scale % (RrfK + rank) = 0

VARIABLES
  forgotten,      \* memories with invalid_at
  newer,          \* superseded_by; valid_to is the newer memory's content time
  asOf,           \* point in time asked for; like every parameter of the call, picked where it is first used
  pc,
  queries, lookups,  \* gathers left, and all of them
  lists,          \* ranked lists of this gather: [arm, rows]
  pool,           \* candidates: sequence of [key, score]
  link,           \* superseded_by as read for the selection, or as fetched
  follow,         \* the stale candidate followed, the key to visit, the successor so far
  pulled, stale,
  answer,
  accessed,       \* memories whose access was refreshed
  indexed,        \* forgotten memories whose update the search view has committed
  writes,         \* bounded count
  before, withdrawn, \* forgotten, and in indexed, when the call began
  lagging         \* those of before that the search view matched all the same

callVars == <<asOf, pc, queries, lookups, lists, lagging, pool, link, follow, pulled, stale, answer, accessed>>
retrievalVars == <<forgotten, newer, indexed, writes, before, withdrawn, callVars>>

NothingFollowed == [cand |-> 0, key |-> NoMemory, hops |-> 0, current |-> NoMemory]
NoAnswer == [hits |-> <<>>, chosen |-> {}, tokens |-> 0, left |-> 0, sections |-> {}, brief |-> 0]
KeyList(s) == [i \in DOMAIN s |-> s[i].key]
KeysOf(s) == {s[i].key : i \in DOMAIN s}
Visible == Readable \ forgotten

\* A stable sort by score, best first.
Better(s) ==
  {p \in (DOMAIN s) \X (DOMAIN s) :
     s[p[1]].score > s[p[2]].score \/ (s[p[1]].score = s[p[2]].score /\ p[1] < p[2])}
ByScore(s) == LET order == InOrder(DOMAIN s, Better(s)) IN [n \in DOMAIN order |-> s[order[n]]]

RetrievalInit ==
  /\ forgotten = {} /\ indexed = {} /\ newer = [m \in Memories |-> NoMemory]
  /\ asOf = Now /\ pc = "enrich" /\ queries = 1 /\ lookups = 1 /\ lists = <<>> /\ pool = <<>>
  /\ link = [m \in Memories |-> Unread] /\ follow = NothingFollowed /\ pulled = {} /\ stale = {}
  /\ answer = NoAnswer /\ accessed = {} /\ writes = 0
  /\ before = {} /\ withdrawn = {} /\ lagging = {}

---------------------------------------------------------------------------
(* Other processes.                                                         *)

Superseded(m, n) ==
  /\ m \notin forgotten /\ newer[m] = NoMemory /\ At[m] < At[n] /\ n \in Visible
  /\ writes < MaxWrites /\ pc # "done"
  /\ newer' = [newer EXCEPT ![m] = n]
  /\ writes' = writes + 1
  /\ UNCHANGED <<forgotten, indexed, before, withdrawn, callVars>>

Forgotten(m) ==
  /\ m \notin forgotten /\ writes < MaxWrites /\ pc # "done"
  /\ forgotten' = forgotten \cup {m}
  /\ before' = IF pc = "enrich" THEN forgotten' ELSE before
  /\ writes' = writes + 1
  /\ UNCHANGED <<newer, indexed, withdrawn, callVars>>

\* The view commits on an interval of its own: its copy of a memory, invalid_at
\* included, lags the update until then.  No retrieval waits for it, and only
\* a gather's first statement reads the view.
ViewCatchesUp(m) ==
  /\ m \in forgotten \ indexed
  /\ pc \in {"enrich", "lexical"} \/ (queries > 1 /\ pc \in {"vector", "graph"})
  /\ indexed' = indexed \cup {m}
  /\ withdrawn' = IF pc = "enrich" THEN indexed' ELSE withdrawn
  /\ UNCHANGED <<forgotten, newer, writes, before, callVars>>

---------------------------------------------------------------------------
(* Enrichment: the gate, HyDE and decomposition.                            *)

Others == <<forgotten, newer, indexed, writes, before, withdrawn>>
Selection == <<link, follow, pulled, stale>>
Gathered == <<queries, lookups, lists, lagging>>

Empty ==
  /\ pc' = "done" /\ answer' = NoAnswer
  /\ UNCHANGED <<asOf, Gathered, pool, accessed, Selection, Others>>

\* The gate says SKIP or fails, or a statement fails: an empty result.  A failed
\* HyDE, decomposition, embedding or reranking only costs that step.
GateSkips == pc = "enrich" /\ Empty
Fault == pc \in {"lexical", "vector", "graph", "links", "follow", "assemble", "refresh"} /\ Empty

\* A question split into at most one lookup, or not split, is one query; else
\* it is looked up itself beside the parts.
Enrich ==
  /\ pc = "enrich"
  /\ \E n \in {1} \cup {parts + 1 : parts \in 2..SubQueries} : queries' = n /\ lookups' = n
  /\ pc' = "lexical"
  /\ UNCHANGED <<asOf, lists, lagging, pool, answer, accessed, Selection, Others>>

---------------------------------------------------------------------------
(* The arms of one gather.                                                  *)

RowsFrom(S) ==
  LET size == IF lookups = 1 THEN PoolSize ELSE HopPoolSize
  IN {rows \in UNION {[1..n -> S] : n \in 0..size} : IsInjective(rows)}
ListOf(arm, rows) == [arm |-> arm, rows |-> rows]

\* What a statement may return.  BM25 filters on the invalid_at of the view's
\* copy, the other arms on the memory's own.  The traversal starts at the rows
\* found and returns memories not among them.
SeedKeys == UNION {Range(lists[i].rows) : i \in DOMAIN lists}
MatchingRows == RowsFrom(Readable \ indexed)
NearRows == RowsFrom(Visible)
LinkedRows == RowsFrom(IF SeedKeys = {} THEN {} ELSE Visible \ SeedKeys)

LexicalArm ==
  /\ pc = "lexical"
  /\ \E rows \in MatchingRows :
       /\ lists' = <<ListOf("bm25", rows)>>
       /\ lagging' = lagging \cup (Range(rows) \cap before)
  /\ pc' = "vector"
  /\ UNCHANGED <<asOf, queries, lookups, pool, answer, accessed, Selection, Others>>

\* The embedder failed: the query has no vector (nor does it when there is no
\* trained index to search).
WithoutVector == lists' = lists

VectorArm ==
  /\ pc = "vector"
  /\ \/ WithoutVector
     \/ \E rows \in NearRows : lists' = Append(lists, ListOf("vector", rows))
  /\ pc' = "graph"
  /\ UNCHANGED <<asOf, queries, lookups, lagging, pool, answer, accessed, Selection, Others>>

Share(rank) == Scale \div (RrfK + rank)
RowOf(rows, key) == CHOOSE r \in DOMAIN rows : rows[r] = key
MassIn(rows, key) == IF key \in Range(rows) THEN Share(RowOf(rows, key)) ELSE 0

\* Where the keys are met first, list by list and row by row.
FirstPlaces(ranked) ==
  {p \in UNION {{i} \X (DOMAIN ranked[i].rows) : i \in DOMAIN ranked} :
     \A j \in 1..(p[1] - 1) : ranked[p[1]].rows[p[2]] \notin Range(ranked[j].rows)}
ListByList(places) ==
  {p \in places \X places :
     p[1][1] < p[2][1] \/ (p[1][1] = p[2][1] /\ p[1][2] < p[2][2])}

\* What an arm adds to a memory's score; it has at most one list.
ArmMass(ranked, arm, key) ==
  LET at == {i \in DOMAIN ranked : ranked[i].arm = arm}
  IN IF at = {} THEN 0 ELSE ArmWeight[arm] * MassIn(ranked[CHOOSE i \in at : TRUE].rows, key)

\* One gather's candidates: each memory of a list has the sum of its shares,
\* weighted by arm and by its strength.
Fused(ranked) ==
  LET order == InOrder(FirstPlaces(ranked), ListByList(FirstPlaces(ranked)))
      seen == [n \in DOMAIN order |-> ranked[order[n][1]].rows[order[n][2]]]
      mass(key) == ArmMass(ranked, "bm25", key) + ArmMass(ranked, "vector", key)
                     + ArmMass(ranked, "graph", key)
      scored == ByScore([n \in DOMAIN seen |-> [key |-> seen[n], score |-> mass(seen[n])]])
  IN ByScore([n \in DOMAIN scored |-> [scored[n] EXCEPT !.score = @ * Fresh[scored[n].key]]])

\* Second-level fusion of the lookups' rankings, all of one weight.
Merged(sofar, ranked) ==
  LET keys == KeyList(ranked)
      new == Picked(keys, {i \in DOMAIN keys : keys[i] \notin KeysOf(sofar)})
      all == sofar \o [i \in DOMAIN new |-> [key |-> new[i], score |-> 0]]
  IN [i \in DOMAIN all |-> [all[i] EXCEPT !.score = @ + MassIn(keys, all[i].key)]]

GraphArm ==
  /\ pc = "graph"
  /\ \E rows \in LinkedRows :
       LET ranked == Fused(IF rows = <<>> THEN lists ELSE Append(lists, ListOf("graph", rows)))
       IN pool' = IF lookups = 1 THEN ranked
                  ELSE IF queries = 1 THEN ByScore(Merged(pool, ranked)) ELSE Merged(pool, ranked)
  /\ queries' = queries - 1 /\ lists' = <<>>
  /\ lookups' = IF queries > 1 THEN lookups ELSE 1   \* not read again
  /\ pc' = IF queries > 1 THEN "lexical" ELSE "rank"
  /\ UNCHANGED <<asOf, lagging, answer, accessed, Selection, Others>>

---------------------------------------------------------------------------
(* Time view, reranking, diversity: no statement in between.                *)

InViewOf(view, at) == view = Now \/ at <= view
InView(at) == InViewOf(asOf, at)
TimeView(view, s) == Picked(s, {i \in DOMAIN s : InViewOf(view, At[s[i].key])})

HeadLen(s) == Min({TopN, Len(s)})
RankAmong(ce, i) == 1 + Cardinality({j \in DOMAIN ce : ce[j] > ce[i] \/ (ce[j] = ce[i] /\ j < i)})

\* Oldest distinct time 0, newest 2; 1 for all when there is only one.
Newness(s, i) ==
  LET times == {At[s[j].key] : j \in 1..HeadLen(s)}
  IN IF Cardinality(times) < 2 THEN 1
     ELSE (2 * Cardinality({t \in times : t < At[s[i].key]})) \div (Cardinality(times) - 1)

HeadScore(s, scoring, ce, i) ==
  CASE scoring = "replace" -> ce[i]
    [] scoring = "rrf" -> Share(RankAmong(ce, i)) + Share(i)
    [] scoring = "event_time" -> 2 * ce[i] + TimeWeight * Newness(s, i)

\* The tail follows one step below the lowest of the head, in its order.
Reranked(s, scoring, ce) ==
  LET head == [i \in DOMAIN ce |-> [s[i] EXCEPT !.score = HeadScore(s, scoring, ce, i)]]
      floor == Min({head[i].score : i \in DOMAIN head})
      tail == [i \in 1..(Len(s) - Len(head)) |-> [s[Len(head) + i] EXCEPT !.score = floor - i]]
  IN ByScore(head) \o tail

\* A failed reranker leaves the fused order, as does one with nothing to score.
Rerankings(s) ==
  IF HeadLen(s) = 0 THEN {s}
  ELSE {s} \cup {Reranked(s, scoring, ce) : scoring \in Scorings, ce \in [1..HeadLen(s) -> Relevances]}

Similar(a, b) == a = b \/ \E S \in Alike : {a, b} \subseteq S

\* Maximal marginal relevance: HitCount times the first of the best.
Diverse(s) ==
  LET scores == {s[i].score : i \in DOMAIN s}
      span == Max({1, Max(scores) - Min(scores)})
      value(i, picked) ==
        Lambda * (s[i].score - Min(scores))
          - (IF \E j \in picked : Similar(s[i].key, s[j].key) THEN (10 - Lambda) * span ELSE 0)
      best(i, picked) ==
        /\ i \notin picked
        /\ \A j \in (DOMAIN s) \ picked :
             value(i, picked) > value(j, picked) \/ (value(i, picked) = value(j, picked) /\ i <= j)
      picks == {p \in [1..Min({HitCount, Len(s)}) -> DOMAIN s] :
                  \A n \in DOMAIN p : best(p[n], {p[m] : m \in 1..(n - 1)})}
  IN {[n \in DOMAIN p |-> s[p[n]]] : p \in picks}

Rank ==
  /\ pc = "rank"
  /\ asOf' \in Views
  /\ LET seen == TimeView(asOf', pool)
     IN IF seen = <<>> THEN pc' = "done" /\ pool' = <<>>
        ELSE pc' = "links" /\ \E s \in Rerankings(seen) : \E t \in Diverse(s) : pool' = ByScore(t)
  /\ UNCHANGED <<Gathered, answer, accessed, Selection, Others>>

---------------------------------------------------------------------------
(* Supersession.                                                            *)

\* The links of the selection, read live.
ReadLinks ==
  /\ pc = "links"
  /\ link' = [m \in Memories |-> IF m \in KeysOf(pool) THEN newer[m] ELSE Unread]
  /\ follow' = [NothingFollowed EXCEPT !.cand = 1]
  /\ pc' = "follow"
  /\ UNCHANGED <<asOf, Gathered, pool, pulled, stale, answer, accessed, Others>>

Selected == Len(pool) - Cardinality(pulled)
HasNewer(m) == link[m] \in Memories /\ InView(At[link[m]])

\* The candidates are followed in the order they were selected in; those pulled
\* in meanwhile stand behind them and are not followed.
TurnTo ==
  /\ pc = "follow" /\ follow.cand <= Selected /\ follow.key = NoMemory
  /\ LET m == pool[follow.cand].key
     IN follow' = IF HasNewer(m) THEN [follow EXCEPT !.key = link[m]]
                  ELSE [follow EXCEPT !.cand = @ + 1]
  /\ UNCHANGED <<asOf, pc, Gathered, pool, link, pulled, stale, answer, accessed, Others>>

\* Mutant: a forgotten successor is fetched too.
FetchableByKey(m) == m \in Readable
Fetchable(m) == m \in Visible

\* Mutant: the successor only draws level.
RaisedLevel(s, i, key) ==
  [j \in DOMAIN s |-> IF s[j].key = key THEN [s[j] EXCEPT !.score = Max({@, s[i].score})] ELSE s[j]]
Raised(s, i, key) ==
  [j \in DOMAIN s |-> IF s[j].key = key THEN [s[j] EXCEPT !.score = Max({@, s[i].score + 1})] ELSE s[j]]

Conclude(current) ==
  /\ follow' = [NothingFollowed EXCEPT !.cand = follow.cand + 1]
  /\ IF current = NoMemory THEN UNCHANGED <<pool, pulled, stale>>
     ELSE LET in == current \in KeysOf(pool)
          IN /\ stale' = stale \cup {pool[follow.cand].key}
             /\ pulled' = IF in THEN pulled ELSE pulled \cup {current}
             /\ pool' = Raised(IF in THEN pool ELSE Append(pool, [key |-> current, score |-> 0]),
                               follow.cand, current)

\* A key is fetched once in a call, within the reader's scope, with the link it
\* has then; the chain is followed as far as it is in view.
Hop ==
  LET m == follow.key
      next == IF link[m] # Unread THEN link[m] ELSE IF Fetchable(m) THEN newer[m] ELSE Gone
  IN /\ pc = "follow" /\ m # NoMemory
     /\ link' = [link EXCEPT ![m] = next]
     /\ CASE next = Gone \/ ~InView(At[m]) -> Conclude(follow.current)
          [] next \in Memories /\ InView(At[m]) /\ InView(At[next]) /\ follow.hops + 1 < MaxHops ->
               /\ follow' = [follow EXCEPT !.key = next, !.hops = @ + 1, !.current = m]
               /\ UNCHANGED <<pool, pulled, stale>>
          [] OTHER -> Conclude(m)
     /\ UNCHANGED <<asOf, pc, Gathered, answer, accessed, Others>>

\* Beyond HitCount the lowest go that were not pulled in.
Trim(s) ==
  LET others == {i \in DOMAIN s : s[i].key \notin pulled}
  IN Picked(s, {i \in DOMAIN s : \/ i \notin others
                                 \/ Cardinality({j \in others : j >= i}) > Len(s) - HitCount})

EndFollow ==
  /\ pc = "follow" /\ follow.cand > Selected
  /\ LET kept == Trim(ByScore(pool))
     IN pool' = [i \in DOMAIN kept |-> [kept[i] EXCEPT !.score = 0]]   \* not read again
  /\ pc' = "assemble"
  /\ UNCHANGED <<asOf, Gathered, answer, accessed, Selection, Others>>

---------------------------------------------------------------------------
(* The token budget.                                                        *)

\* _TIER_FRACTIONS in thousandths, and _TIER_ORDER; int() truncates.
Fraction == [working |-> 267, episodic |-> 467, semantic |-> 200, reasoning |-> 67]
TierOrder == [working |-> 1, episodic |-> 2, semantic |-> 3, reasoning |-> 4]
Cap(tier, budget) == (Fraction[tier] * budget) \div 1000

ASSUME BudgetAssumption ==
  /\ MaxTokens \in Nat /\ HeaderCost \in Nat /\ Tier \in [Memories -> DOMAIN Fraction]
  /\ SummaryCosts \in Seq(Nat) /\ EntityCosts \in Seq(Nat) /\ StepCosts \in Seq(Nat)
  /\ HeadingCost \in [{"episodic", "semantic", "procedural"} -> Nat]

\* Lines, best first, as long as they fit.
PackedCost(costs, budget) ==
  LET total(n) == SumFunctionOnSet(costs, 1..n)
  IN Max({0} \cup {total(n) : n \in {l \in DOMAIN costs : total(l) <= budget}})

\* The entity section takes up to the semantic share: nothing without a line.
EntityTokens(rows) ==
  LET lines == PackedCost(SubSeq(SummaryCosts, 1, rows), Cap("semantic", MaxTokens) - HeaderCost)
  IN IF lines = 0 THEN 0 ELSE HeaderCost + lines

\* Mutant: a memory is added while anything is left.
FitsPartly(cost, left) == left > 0
Fits(cost, left) == cost <= left

NothingPacked == [chosen |-> {}, total |-> 0, used |-> [t \in DOMAIN Fraction |-> 0]]
Take(acc, m) == [chosen |-> acc.chosen \cup {m}, total |-> acc.total + Cost[m],
                 used |-> [acc.used EXCEPT ![Tier[m]] = @ + Cost[m]]]

Capped(acc, m, budget) ==
  IF Fits(Cost[m], budget - acc.total) /\ acc.used[Tier[m]] + Cost[m] <= Cap(Tier[m], budget)
  THEN Take(acc, m) ELSE acc
RolledUp(acc, m, budget) ==
  IF m \notin acc.chosen /\ Fits(Cost[m], budget - acc.total) THEN Take(acc, m) ELSE acc

TierByTier(keys) ==
  {p \in (DOMAIN keys) \X (DOMAIN keys) :
     LET s == TierOrder[Tier[keys[p[1]]]]
         t == TierOrder[Tier[keys[p[2]]]]
     IN s < t \/ (s = t /\ p[1] < p[2])}
ByTier(keys) ==
  LET order == InOrder(DOMAIN keys, TierByTier(keys)) IN [n \in DOMAIN order |-> keys[order[n]]]

\* First each tier up to its cap, then what is left by score.
CappedPass(keys, budget) ==
  LET packed[n \in 0..Len(keys)] ==
        IF n = 0 THEN NothingPacked ELSE Capped(packed[n - 1], keys[n], budget)
  IN packed[Len(keys)]
RollUpPass(start, keys, budget) ==
  LET packed[n \in 0..Len(keys)] ==
        IF n = 0 THEN start ELSE RolledUp(packed[n - 1], keys[n], budget)
  IN packed[Len(keys)]
Assembled(keys, budget) == RollUpPass(CappedPass(ByTier(keys), budget), keys, budget)

\* How many summaries the hits' entities have; none when not asked for.
SummaryRows == 0..Len(SummaryCosts)

Assemble ==
  /\ pc = "assemble"
  /\ \E rows \in SummaryRows :
       LET tokens == EntityTokens(rows)
           packed == Assembled(KeyList(pool), MaxTokens - tokens)
       IN answer' = [hits |-> KeyList(pool), chosen |-> packed.chosen,
                     tokens |-> packed.total + tokens,
                     left |-> MaxTokens - tokens - packed.total,
                     sections |-> {}, brief |-> 0]
  /\ pc' = "refresh"
  /\ UNCHANGED <<asOf, Gathered, pool, accessed, Selection, Others>>

\* Every hit counts as accessed, whether it fitted or not.
Refresh ==
  /\ pc = "refresh"
  /\ accessed' = KeysOf(pool)
  /\ pc' \in {"brief", "done"}      \* prime() or retrieve() asked
  /\ UNCHANGED <<asOf, Gathered, pool, answer, Selection, Others>>

\* prime(): each section asked for packs its lines into its share: the hits half,
\* their entities and the tool runs a quarter.  History and entities need the hits.
Shares == [episodic |-> 2, semantic |-> 4, procedural |-> 4]
Sections == DOMAIN Shares
Lines(section) ==
  CASE section = "episodic" -> [i \in DOMAIN answer.hits |-> Cost[answer.hits[i]]]
    [] section = "semantic" -> IF answer.hits = <<>> THEN <<>> ELSE EntityCosts
    [] section = "procedural" -> StepCosts

SectionCost(section) == PackedCost(Lines(section), MaxTokens \div Shares[section])

\* A section with a line, which is a token at least, gets its heading, and the
\* briefing counts the tokens of the joined text: its headings and its lines.
Brief ==
  /\ pc = "brief"
  /\ \E include \in SUBSET Sections :
       LET shown == {s \in include : SectionCost(s) > 0}
       IN /\ include \cap {"episodic", "semantic"} # {}
          /\ answer' = [answer EXCEPT !.sections = shown,
               !.brief = SumFunctionOnSet(HeadingCost, shown)
                           + SumFunctionOnSet([s \in Sections |-> SectionCost(s)], shown)]
  /\ pc' = "done"
  /\ UNCHANGED <<asOf, Gathered, pool, accessed, Selection, Others>>

RetrievalNext ==
  \/ \E m \in Memories : Forgotten(m) \/ ViewCatchesUp(m) \/ \E n \in Memories : Superseded(m, n)
  \/ GateSkips \/ Fault \/ Enrich
  \/ LexicalArm \/ VectorArm \/ GraphArm \/ Rank
  \/ ReadLinks \/ TurnTo \/ Hop \/ EndFollow
  \/ Assemble \/ Refresh \/ Brief

RetrievalSpec == RetrievalInit /\ [][RetrievalNext]_retrievalVars

Answered == pc \in {"refresh", "brief", "done"}
Hits == Range(answer.hits)

\* What a result counts never exceeds the caller's budget, entity summaries
\* included, and no hit was left out that would still have fitted; the lines of
\* a briefing stay within the budget too, so that what it counts exceeds it by
\* its section headings at most (_assemble_tiered and _entity_block,
\* retrieve/search.py:416 and :275; _assemble, retrieve/prime.py:111).
BudgetHeldAndUsed ==
  Answered => /\ answer.tokens <= MaxTokens
              /\ \A m \in Hits \ answer.chosen : Cost[m] > answer.left
              /\ answer.brief <= MaxTokens + SumFunctionOnSet(HeadingCost, answer.sections)

\* Whatever is forgotten, indexed and linked while a call runs, it answers with
\* at most k distinct memories that the reader may see and that existed as of
\* the time asked for.  A memory forgotten before the call is none of them once
\* the search view has committed that, and until then only when the view itself
\* matched it: neither the other arms nor a successor pulled in by supersession
\* bring it back (retrieve/search.py:46, :89, :122 and :697).
HitsInView ==
  Answered => /\ IsInjective(answer.hits) /\ Len(answer.hits) <= HitCount
              /\ Hits \subseteq Readable \ withdrawn
              /\ Hits \cap before \subseteq lagging
              /\ \A m \in Hits : InView(At[m])

Leads(m, n) ==
  LET reach[h \in 0..MaxHops] == IF h = 0 THEN {m} ELSE reach[h - 1] \cup {newer[x] : x \in reach[h - 1] \cap Memories}
  IN n \in reach[MaxHops]

\* A statement marked as superseded stands below a statement that superseded
\* it, and one whose newer statement can be shown is marked; a statement pulled
\* in is the last of its chain within MaxHops (retrieve/search.py:715-738).
SuccessorAboveStale ==
  Answered => \A i \in DOMAIN answer.hits :
    LET m == answer.hits[i]
    IN /\ m \in stale => \E j \in 1..(i - 1) : Leads(m, answer.hits[j])
       /\ m \notin stale \cup pulled /\ link[m] \in Visible => ~InView(At[link[m]])
=============================================================================
