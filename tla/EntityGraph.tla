---------------------------- MODULE EntityGraph ----------------------------
(***************************************************************************)
(* The entity graph of one tenant (ingest/entities.py): writers turn the    *)
(* entities and relations of a memory into entity rows, mentions,           *)
(* produced_by and relates_to edges, one AQL statement at a time, one       *)
(* memory per call (write_entities) or a batch of them                      *)
(* (write_entities_many), while entities are seeded (entity_api.seed) and   *)
(* the tenant or one of its agents is purged (security/forget.py).          *)
(*                                                                          *)
(* Belief is a function of reliability_sum, so the row keeps the sum only   *)
(* ("evidence").  Embeddings appear as the similarity of two entities.      *)
(***************************************************************************)
EXTENDS Integers, FiniteSets, Sequences, SequencesExt, FiniteSetsExt, Functions

CONSTANTS
  Writers, Agents,
  Memories,       \* memory keys; memory m comes from the episode of the same name
  AgentOf,        \* [Memories -> Agents]
  Reliability,    \* [Memories -> Nat], source_reliability
  Entities,       \* natural keys: a (name, label) of the tenant
  NameOf,         \* the name in a natural key
  Says,           \* [Memories -> Seq(Entities)], what the extractor finds, each entity once
  Relations,      \* [Memories -> Seq of <<source name, target name, relationship>>]
  Similarity,     \* [Entities -> [Entities -> 0..Identical]], cosine of the embeddings
  Identical,      \* the cosine of an embedding with itself
  MergeThreshold, FlagThreshold, MaxPairsPerTurn, ScanMax, TopK,
  Earlier,        \* the memories that earlier calls fed
  Stored,         \* the graph that these calls left
  Singles,        \* the memories handed to store
  Batches,        \* the sequences of memories handed to store_many
  Seeds,          \* <<entity, agent>> of the profiles handed to seed
  PurgeScopes,    \* the scopes purged
  MaxKeys,        \* bound: document keys handed out
  MaxFed,         \* bound: a call begins only below this many feeds
  MaxBusy,        \* bound: calls and purges in progress at once
  MaxDisturbances \* bound: crashes, seeds and purges

ASSUME ThresholdsAssumption == 0 < FlagThreshold /\ FlagThreshold <= MergeThreshold
ASSUME SimilarityAssumption ==
  \A e, f \in Entities : /\ Similarity[e][f] \in 0..Identical
                         /\ Similarity[e][f] = Similarity[f][e]
ASSUME NumbersAssumption == {Identical, FlagThreshold, MergeThreshold} \subseteq Nat
ASSUME MemoriesAssumption ==
  /\ IsFiniteSet(Entities) /\ IsFiniteSet(Memories) /\ IsFiniteSet(Writers)
  /\ Reliability \in [Memories -> Nat]
  /\ \A m \in Memories : /\ AgentOf[m] \in Agents
                         /\ Says[m] \in Seq(Entities) /\ IsInjective(Says[m])
  /\ Earlier \subseteq Memories /\ Singles \subseteq Memories
  /\ \A ms \in Batches : ms \in Seq(Memories)
  /\ \A s \in Seeds : s[1] \in Entities /\ s[2] \in Agents

NoKey == 0
Everyone == "everyone"      \* agent_id == null: the whole tenant
Tenant == Agents \cup {Everyone}

VARIABLES
  graph,      \* entity rows, edges and the next document key
  docs,       \* the memory and the episode documents there are
  calls,      \* per writer, the call it is in
  purge,      \* the purge in progress
  known,      \* history: per key, the keys there before its writer looked for rivals
  fed,        \* history: per memory, how many calls fed it to the graph
  overlapped, \* history: some call or seed ran beside some purge
  disturbed   \* count of crashes, seeds and purges

graphVars == <<graph, docs, calls, purge, known, fed, overlapped, disturbed>>

----------------------------------------------------------------------------
(* The memories at hand are a function from their places in the call: store *)
(* has one, at place 1; store_many has those that are new.                  *)

EntitiesOf(ms) == UNION {Range(Says[ms[i]]) : i \in DOMAIN ms}
Naming(ms, e) == {i \in DOMAIN ms : e \in Range(Says[ms[i]])}
Repeats(ms, e) == Cardinality(Naming(ms, e))
Weights(ms) == [i \in DOMAIN ms |-> Reliability[ms[i]]]
\* Mutant: a batch counts an entity's best source only.
EvidenceForOne(ms, e) == Max({Reliability[ms[i]] : i \in Naming(ms, e)})
EvidenceFor(ms, e) == SumFunctionOnSet(Weights(ms), Naming(ms, e))

\* The order in which the entities are found.
FirstIn(s, e) == Min({j \in DOMAIN s : s[j] = e})
FoundBefore(ms, e, f) ==
  LET i == Min(Naming(ms, e))
      j == Min(Naming(ms, f))
  IN i < j \/ (i = j /\ FirstIn(Says[ms[i]], e) < FirstIn(Says[ms[i]], f))

----------------------------------------------------------------------------
(* Resolving the entities.  A pool maps each candidate key to its entity,   *)
(* as it was when it was read.                                              *)

EmptyGraph == [rows |-> <<>>, mentions |-> {}, produced |-> {}, relates |-> <<>>, next |-> 1]
Keys(g) == DOMAIN g.rows
KeyNamed(g, e) == {k \in Keys(g) : g.rows[k].entity = e}
Snapshot(g, keys) == [k \in keys |-> g.rows[k].entity]

\* _best_match: the nearest candidate that is not the entity itself.
Rivals(pool, e) == {k \in DOMAIN pool : pool[k] # e}
Nearness(pool, e, k) == Similarity[e][pool[k]]
\* Mutant: any candidate, not the best one.
FirstRival(pool, e) == IF Rivals(pool, e) = {} THEN NoKey ELSE Min(Rivals(pool, e))
Nearest(pool, e) ==
  LET rivals == Rivals(pool, e)
  IN IF rivals = {} THEN NoKey
     ELSE CHOOSE k \in rivals : \A j \in rivals :
            \/ Nearness(pool, e, j) < Nearness(pool, e, k)
            \/ Nearness(pool, e, j) = Nearness(pool, e, k) /\ k <= j

NearerThan(pool, e, threshold) ==
  LET k == Nearest(pool, e)
  IN IF k # NoKey /\ Nearness(pool, e, k) >= threshold THEN k ELSE NoKey

MergeTarget(pool, e) == NearerThan(pool, e, MergeThreshold)
Rival(pool, e) == NearerThan(pool, e, FlagThreshold)

Merged(pool, entities) == {e \in entities : MergeTarget(pool, e) # NoKey}
Own(pool, entities) == {e \in entities : MergeTarget(pool, e) = NoKey}
Fresh(g, pool, entities) == {e \in Own(pool, entities) : KeyNamed(g, e) = {}}

\* Fresh rows get their keys in the order in which the entities were found.
NewKey(g, ms, fresh, e) == g.next + Cardinality({f \in fresh : FoundBefore(ms, f, e)})

KeysFor(g, pool, ms, entities) ==
  [e \in entities |->
     IF e \in Merged(pool, entities) THEN MergeTarget(pool, e)
     ELSE IF KeyNamed(g, e) # {} THEN CHOOSE k \in KeyNamed(g, e) : TRUE
     ELSE NewKey(g, ms, Fresh(g, pool, entities), e)]

----------------------------------------------------------------------------
(* The statements, as functions of the graph.  An edge collection with      *)
(* overwrite_mode "ignore" is a set of edges.                               *)

EntityDoc(e, agent, n, rel, rival) ==
  [entity |-> e, agent |-> agent, mentions |-> n, evidence |-> rel, conflict |-> rival]

\* Mutant: the totals replace the stored ones.
BumpOverwriting(row, n, rel) == EntityDoc(row.entity, row.agent, n, rel, row.conflict)
Bump(row, n, rel) ==
  EntityDoc(row.entity, row.agent, row.mentions + n, row.evidence + rel, row.conflict)

\* Semantic duplicates add the call's totals to the row they merge into.
Increment(g, pool, ms, entities) ==
  LET into(k) == {e \in entities : MergeTarget(pool, e) = k}
  IN [g EXCEPT !.rows =
        [k \in Keys(g) |->
           IF into(k) = {} THEN g.rows[k]
           ELSE Bump(g.rows[k], SumFunctionOnSet([e \in entities |-> Repeats(ms, e)], into(k)),
                                SumFunctionOnSet([e \in entities |-> EvidenceFor(ms, e)], into(k)))]]

\* The others UPSERT a row of their own; a natural key has at most one.
Upsert(g, pool, ms, entities, agent) ==
  LET own == Own(pool, entities)
      fresh == Fresh(g, pool, entities)
      keyOf == KeysFor(g, pool, ms, entities)
      madeFor(k) == CHOOSE e \in fresh : keyOf[e] = k
      rowOf(e) == EntityDoc(e, agent, Repeats(ms, e), EvidenceFor(ms, e), Rival(pool, e))
  IN [g EXCEPT !.next = @ + Cardinality(fresh),
               !.rows =
        [k \in Keys(g) \cup {keyOf[e] : e \in fresh} |->
           IF k \notin Keys(g) THEN rowOf(madeFor(k))
           ELSE IF g.rows[k].entity \notin own THEN g.rows[k]
           ELSE Bump(g.rows[k], Repeats(ms, g.rows[k].entity), EvidenceFor(ms, g.rows[k].entity))]]

\* One entity: it is merged or it is upserted, and the other statement finds nothing.
WriteEntity(g, pool, ms, e, agent) ==
  Upsert(Increment(g, pool, ms, {e}), pool, ms, {e}, agent)

Links(ms, entities, keyOf) ==
  {<<ms[p[1]], keyOf[p[2]]>> : p \in {q \in (DOMAIN ms) \X entities : q[2] \in Range(Says[ms[q[1]]])}}
Mention(g, links) == [g EXCEPT !.mentions = @ \cup links]
Produce(g, links) == [g EXCEPT !.produced = @ \cup {<<l[2], l[1]>> : l \in links}]

\* UPSERT ... UPDATE {}: a seed never touches a row that is there.
SeedUpsert(g, e, agent) ==
  IF KeyNamed(g, e) # {} THEN g
  ELSE [g EXCEPT !.next = @ + 1,
                 !.rows = [k \in Keys(g) \cup {g.next} |->
                             IF k \in Keys(g) THEN g.rows[k] ELSE EntityDoc(e, agent, 1, 0, NoKey)]]

----------------------------------------------------------------------------
(* The relations: per memory a function from pairs of keys to a kind, where *)
(* a typed relation overwrites and a co-occurrence only fills in.           *)

\* cooccurring_pairs: index pairs in order, stopped at MaxPairsPerTurn.
Before(p, q) == p[1] < q[1] \/ (p[1] = q[1] /\ p[2] < q[2])
Cooccurring(entities) ==
  LET pairs == {p \in (DOMAIN entities) \X (DOMAIN entities) : p[1] < p[2]}
  IN {p \in pairs : Cardinality({q \in pairs : Before(q, p)}) < MaxPairsPerTurn}

Pair(j, k) == IF j < k THEN <<j, k>> ELSE <<k, j>>

\* name_to_key: the entity a name stands for, the merged ones before the others.
Standing(ms, merged) ==
  {e \in EntitiesOf(ms) :
     \A f \in EntitiesOf(ms) \ {e} : NameOf[f] = NameOf[e] =>
        \/ e \in merged /\ f \notin merged
        \/ (e \in merged <=> f \in merged) /\ FoundBefore(ms, e, f)}

PairsOf(m, standing, keyOf) ==
  LET found == {p \in (DOMAIN keyOf) \X (DOMAIN keyOf) : keyOf[p[1]] # keyOf[p[2]]}
      pairOf(p) == Pair(keyOf[p[1]], keyOf[p[2]])
      asserted(r) == {p \in found : /\ {p[1], p[2]} \subseteq standing
                                    /\ NameOf[p[1]] = r[1] /\ NameOf[p[2]] = r[2]}
      together == {p \in found : \E q \in Cooccurring(Says[m]) : p = <<Says[m][q[1]], Says[m][q[2]]>>}
      asserting(q) == {i \in DOMAIN Relations[m] : \E p \in asserted(Relations[m][i]) : pairOf(p) = q}
      typed == {pairOf(p) : p \in UNION {asserted(r) : r \in Range(Relations[m])}}
  IN [q \in typed \cup {pairOf(p) : p \in together} |->
        IF q \in typed THEN Relations[m][Max(asserting(q))][3] ELSE "associated_with"]

\* Corroborate each pair by every memory that says it; the last one names the kind.
Relate(g, ms, said) ==
  LET old == g.relates
      pairs == UNION {DOMAIN said[i] : i \in DOMAIN said}
      by(p) == {i \in DOMAIN said : p \in DOMAIN said[i]}
      had(p) == p \in DOMAIN old
  IN [g EXCEPT !.relates =
        [p \in DOMAIN old \cup pairs |->
           IF p \notin pairs THEN old[p]
           ELSE [kind |-> said[Max(by(p))][p],
                 corroboration |-> Cardinality(by(p)) + (IF had(p) THEN old[p].corroboration ELSE 0),
                 evidence |-> SumFunctionOnSet(Weights(ms), by(p))
                              + (IF had(p) THEN old[p].evidence ELSE 0)]]]

RelateBatch(g, pool, ms, keyOf) ==
  LET standing == Standing(ms, Merged(pool, EntitiesOf(ms)))
  IN Relate(g, ms, [i \in DOMAIN ms |-> PairsOf(ms[i], standing, keyOf)])

----------------------------------------------------------------------------
(* Whole calls, nothing interleaved: what a batch and one memory do.        *)

WriteEntitiesMany(g, ms, agent) ==
  LET pool == Snapshot(g, Keys(g))
      entities == EntitiesOf(ms)
      bumped == Increment(g, pool, ms, entities)
      keyOf == KeysFor(bumped, pool, ms, entities)
      written == Upsert(bumped, pool, ms, entities, agent)
      links == Links(ms, entities, keyOf)
  IN RelateBatch(Produce(Mention(written, links), links), pool, ms, keyOf)

WriteEntities(g, m, agent) ==
  LET ms == <<m>>
      pool == Snapshot(g, Keys(g))
      written == FoldLeft(LAMBDA h, e : WriteEntity(h, pool, ms, e, agent), g, Says[m])
      keyOf == KeysFor(written, pool, ms, EntitiesOf(ms))
      links == Links(ms, EntitiesOf(ms), keyOf)
  IN Relate(Produce(Mention(written, links), links), ms, <<PairsOf(m, Standing(ms, {}), keyOf)>>)

----------------------------------------------------------------------------
(* What the earlier calls left.                                             *)

WellFormed(g) ==
  /\ DOMAIN g = DOMAIN EmptyGraph
  /\ g.next \in Nat \ {0}
  /\ Keys(g) \subseteq 1..(g.next - 1)
  /\ \A k \in Keys(g) : g.rows[k].entity \in Entities

EdgesEndIn(g, d) ==
  /\ \A l \in g.mentions : l[1] \in d.memories /\ l[2] \in Keys(g)
  /\ \A l \in g.produced : l[2] \in d.episodes /\ l[1] \in Keys(g)
  /\ \A p \in DOMAIN g.relates : {p[1], p[2]} \subseteq Keys(g)

Counted(g) ==
  /\ \A k \in Keys(g) : {g.rows[k].mentions, g.rows[k].evidence} \subseteq Nat
  /\ \A p \in DOMAIN g.relates :
       {g.relates[p].corroboration, g.relates[p].evidence} \subseteq Nat

Mentioners(g, k) == {m \in Memories : <<m, k>> \in g.mentions}

\* How often memory m, fed so many times, may have counted for a row of entity f.
MayCount(times, m, f) ==
  times[m] * Cardinality({e \in Range(Says[m]) : e = f \/ Similarity[e][f] >= MergeThreshold})

\* A row has counted each memory that mentions it, and nothing no memory said.
Matched(g, times) ==
  \A k \in Keys(g) :
    LET row == g.rows[k] IN
    /\ row.mentions >= Cardinality(Mentioners(g, k))
    /\ row.evidence >= SumFunctionOnSet(Reliability, Mentioners(g, k))
    /\ row.evidence <=
         SumFunctionOnSet([m \in Memories |-> Reliability[m] * MayCount(times, m, row.entity)], Memories)

\* A relation has counted only memories that mention both its ends.
Backed(g, times) ==
  \A p \in DOMAIN g.relates :
    LET both == Mentioners(g, p[1]) \cap Mentioners(g, p[2])
    IN /\ g.relates[p].corroboration <= SumFunctionOnSet(times, both)
       /\ g.relates[p].evidence
            <= SumFunctionOnSet([m \in Memories |-> times[m] * Reliability[m]], both)

\* Memory m relates only entities it says itself, whatever their label; no extractor
\* of ingest/extract.py sees to it, the language model is merely asked to.
RelatesOwn(m) ==
  \A i \in DOMAIN Relations[m] : \A e \in Entities :
    NameOf[e] \in {Relations[m][i][1], Relations[m][i][2]} => e \in Range(Says[m])
AllRelateOwn == \A m \in Memories : RelatesOwn(m)

Once == [m \in Memories |-> IF m \in Earlier THEN 1 ELSE 0]

ASSUME StoredAssumption ==
  /\ WellFormed(Stored) /\ EdgesEndIn(Stored, [memories |-> Earlier, episodes |-> Earlier])
  /\ Counted(Stored) /\ Matched(Stored, Once)
  /\ AllRelateOwn => Backed(Stored, Once)

----------------------------------------------------------------------------
(* A call: store and store_many check what is new, record it, and feed it   *)
(* to the graph.                                                            *)

Idle == [pc |-> "idle", many |-> FALSE, ms |-> <<>>, agent |-> Everyone, i |-> 0, ann |-> FALSE,
         scanned |-> FALSE, cache |-> <<>>, pool |-> <<>>, before |-> {}, keyOf |-> <<>>, todo |-> {}]
Active(w) == calls[w].pc # "idle"
Purging == purge.step > 0
Busy == Cardinality({w \in Writers : Active(w)}) + IF Purging THEN 1 ELSE 0

\* The entities a call is writing: all of the batch, or the next one of the memory.
AtHand(c) == IF c.many THEN EntitiesOf(c.ms) ELSE {Says[c.ms[1]][c.i]}

Init ==
  /\ graph = Stored
  /\ docs = [memories |-> Earlier, episodes |-> Earlier]
  /\ calls = [w \in Writers |-> Idle]
  /\ purge = [step |-> 0, scope |-> Everyone, ids |-> {}, keys |-> {}, count |-> 0]
  /\ known = [k \in Keys(graph) |-> {}]
  /\ fed = Once
  /\ overlapped = FALSE
  /\ disturbed = 0

Go(w, c) == calls' = [calls EXCEPT ![w] = c]

\* Mutant: repeats within a batch feed the graph again.
NewAmongRepeated(ms) == {i \in DOMAIN ms : ms[i] \notin docs.episodes}
\* Which episodes are new: only those feed the graph, once each.
NewAmong(ms) == {i \in DOMAIN ms : /\ ms[i] \notin docs.episodes
                                   /\ \A j \in DOMAIN ms : j < i => ms[j] # ms[i]}

Check(w, ms, many) ==
  /\ calls[w] = Idle /\ NewAmong(ms) # {}
  /\ SumFunctionOnSet(fed, Memories) < MaxFed /\ Busy < MaxBusy
  /\ Go(w, [Idle EXCEPT !.pc = "record", !.many = many, !.ms = Restrict(ms, NewAmong(ms)),
                        !.agent = AgentOf[ms[1]], !.i = 1])
  /\ overlapped' = (overlapped \/ Purging)
  /\ UNCHANGED <<graph, docs, purge, known, fed, disturbed>>

\* Record, extract (fail-soft per memory in a batch) and choose how to resolve.
Record(w) ==
  LET c == calls[w] IN
  /\ c.pc = "record"
  /\ docs' = [memories |-> docs.memories \cup Range(c.ms),
              episodes |-> docs.episodes \cup Range(c.ms)]
  /\ fed' = [m \in Memories |-> fed[m] + IF m \in Range(c.ms) THEN 1 ELSE 0]
  /\ \E extracted \in SUBSET DOMAIN c.ms, warm \in BOOLEAN :
       LET ms == Restrict(c.ms, extracted)
       IN /\ c.many \/ extracted = DOMAIN c.ms
          /\ Go(w, [c EXCEPT !.pc = IF EntitiesOf(ms) = {} THEN "return" ELSE "look", !.ms = ms,
                             !.ann = warm /\ Cardinality(Keys(graph)) > ScanMax,
                             !.before = Keys(graph)])
  /\ UNCHANGED <<graph, purge, known, overlapped, disturbed>>

\* Candidates by the vector index: any keys, as many as asked for.
LookUpIndex(w) ==
  LET c == calls[w] IN
  /\ c.pc = "look" /\ c.ann
  /\ \E keys \in SUBSET Keys(graph) :
       /\ Cardinality(keys) >= Min({TopK, Cardinality(Keys(graph))})
       /\ Cardinality(keys) <= TopK * Cardinality(AtHand(c))
       /\ Go(w, [c EXCEPT !.pc = IF c.many THEN "increment" ELSE "write",
                          !.pool = Snapshot(graph, keys), !.before = {}])
  /\ UNCHANGED <<graph, docs, purge, known, fed, overlapped, disturbed>>

\* Candidates by a scan of the tenant, cached for the call; an index fault ends here too.
Scan(w) ==
  LET c == calls[w]
      rows == IF c.scanned THEN c.cache ELSE Snapshot(graph, Keys(graph))
  IN /\ c.pc = "look"
     /\ Go(w, [c EXCEPT !.pc = IF c.many THEN "increment" ELSE "write",
                        !.scanned = TRUE, !.cache = rows, !.pool = rows])
     /\ UNCHANGED <<graph, docs, purge, known, fed, overlapped, disturbed>>

\* New rows remember what their writer could have found.
Learn(before) == known' = [k \in Keys(graph') |-> IF k \in DOMAIN known THEN known[k] ELSE before]

\* A statement that settles the keys of the entities at hand.
Settle(w, g) ==
  LET c == calls[w]
      keyOf == KeysFor(g, c.pool, c.ms, AtHand(c))
  IN /\ graph' = Upsert(g, c.pool, c.ms, AtHand(c), c.agent)
     /\ graph'.next <= MaxKeys + 1
     /\ Learn(c.before)
     /\ Go(w, [c EXCEPT !.pc = "mention",
                        !.keyOf = [e \in DOMAIN c.keyOf \cup AtHand(c) |->
                                     IF e \in AtHand(c) THEN keyOf[e] ELSE c.keyOf[e]]])
     /\ UNCHANGED <<docs, purge, fed, overlapped, disturbed>>

Write(w) ==
  /\ calls[w].pc = "write"
  /\ Settle(w, Increment(graph, calls[w].pool, calls[w].ms, AtHand(calls[w])))

IncrementMany(w) ==
  LET c == calls[w] IN
  /\ c.pc = "increment"
  /\ graph' = Increment(graph, c.pool, c.ms, AtHand(c))
  /\ Go(w, [c EXCEPT !.pc = "upsert"])
  /\ UNCHANGED <<docs, purge, known, fed, overlapped, disturbed>>

UpsertMany(w) ==
  /\ calls[w].pc = "upsert"
  /\ Settle(w, graph)

AddMentions(w) ==
  LET c == calls[w] IN
  /\ c.pc = "mention"
  /\ graph' = Mention(graph, Links(c.ms, AtHand(c), c.keyOf))
  /\ Go(w, [c EXCEPT !.pc = "produce"])
  /\ UNCHANGED <<docs, purge, known, fed, overlapped, disturbed>>

\* What one memory says of the pairs, once all of its entities have keys.
SaidAlone(c) == PairsOf(c.ms[1], Standing(c.ms, {}), c.keyOf)

AddProducedBy(w) ==
  LET c == calls[w]
      more == ~c.many /\ c.i < Len(Says[c.ms[1]])
  IN /\ c.pc = "produce"
     /\ graph' = Produce(graph, Links(c.ms, AtHand(c), c.keyOf))
     /\ Go(w, IF more THEN [c EXCEPT !.pc = "look", !.i = @ + 1]
              ELSE [c EXCEPT !.pc = "relate", !.todo = IF c.many THEN {} ELSE DOMAIN SaidAlone(c)])
     /\ UNCHANGED <<docs, purge, known, fed, overlapped, disturbed>>

RelateOne(w) ==
  LET c == calls[w] IN
  /\ c.pc = "relate" /\ ~c.many
  /\ \E p \in c.todo :
       /\ graph' = Relate(graph, c.ms, <<Restrict(SaidAlone(c), {p})>>)
       /\ Go(w, [c EXCEPT !.todo = @ \ {p}])
  /\ UNCHANGED <<docs, purge, known, fed, overlapped, disturbed>>

RelateMany(w) ==
  LET c == calls[w] IN
  /\ c.pc = "relate" /\ c.many
  /\ graph' = RelateBatch(graph, c.pool, c.ms, c.keyOf)
  /\ Go(w, [c EXCEPT !.pc = "return"])
  /\ UNCHANGED <<docs, purge, known, fed, overlapped, disturbed>>

Return(w) ==
  /\ \/ calls[w].pc = "return"
     \/ calls[w].pc = "relate" /\ ~calls[w].many /\ calls[w].todo = {}
  /\ Go(w, Idle)
  /\ UNCHANGED <<graph, docs, purge, known, fed, overlapped, disturbed>>

\* A statement fails or the process dies: the rest of the call never happens.
Crash(w) ==
  /\ Active(w) /\ calls[w].pc # "return" /\ disturbed < MaxDisturbances
  /\ Go(w, Idle)
  /\ disturbed' = disturbed + 1
  /\ UNCHANGED <<graph, docs, purge, known, fed, overlapped>>

Seed(e, agent) ==
  /\ graph.next <= MaxKeys /\ disturbed < MaxDisturbances
  /\ graph' = SeedUpsert(graph, e, agent)
  /\ disturbed' = disturbed + 1
  /\ Learn({})
  /\ overlapped' = (overlapped \/ Purging)
  /\ UNCHANGED <<docs, calls, purge, fed>>

----------------------------------------------------------------------------
(* purge: collect the ids of the scope, remove the edges that touch them,   *)
(* then the documents of the scope, whatever was collected.                 *)

\* Mutant: documents before the edges that touch them.
PurgePlanVerticesFirst == <<"collect memories", "collect entities", "collect episodes",
                            "memories", "entities", "episodes",
                            "mentions", "relates_to", "produced_by">>
PurgePlan == <<"collect memories", "collect entities", "collect episodes",
               "mentions", "relates_to", "produced_by",
               "memories", "entities", "episodes">>

\* Mutant: a null agent matches no document.
InScopeOfAgent(agent) == purge.scope = agent
InScope(agent) == purge.scope \in {Everyone, agent}
MemoriesOf(ms) == {m \in ms : InScope(AgentOf[m])}
EntitiesInScope == {k \in Keys(graph) : InScope(graph.rows[k].agent)}
DocsInScope(coll) == {<<coll, m>> : m \in MemoriesOf(docs[coll])}

PurgeStart(scope) ==
  /\ ~Purging /\ disturbed < MaxDisturbances /\ Busy < MaxBusy
  /\ purge' = [step |-> 1, scope |-> scope, ids |-> {}, keys |-> {}, count |-> purge.count + 1]
  /\ overlapped' = (overlapped \/ \E w \in Writers : Active(w))
  /\ disturbed' = disturbed + 1
  /\ UNCHANGED <<graph, docs, calls, known, fed>>

Collect(what) ==
  /\ CASE what = "collect entities" ->
            purge' = [purge EXCEPT !.step = @ + 1, !.keys = EntitiesInScope]
       [] what = "collect memories" ->
            purge' = [purge EXCEPT !.step = @ + 1, !.ids = DocsInScope("memories")]
       [] what = "collect episodes" ->
            purge' = [purge EXCEPT !.step = @ + 1, !.ids = @ \cup DocsInScope("episodes")]
  /\ UNCHANGED <<graph, docs, known>>

RemoveEdges(what) ==
  /\ graph' =
       CASE what = "mentions" ->
              [graph EXCEPT !.mentions = {l \in @ : <<"memories", l[1]>> \notin purge.ids
                                                     /\ l[2] \notin purge.keys}]
         [] what = "produced_by" ->
              [graph EXCEPT !.produced = {l \in @ : <<"episodes", l[2]>> \notin purge.ids
                                                     /\ l[1] \notin purge.keys}]
         [] what = "relates_to" ->
              [graph EXCEPT !.relates =
                 [p \in {q \in DOMAIN @ : {q[1], q[2]} \cap purge.keys = {}} |-> @[p]]]
  /\ purge' = [purge EXCEPT !.step = @ + 1]
  /\ UNCHANGED <<docs, known>>

RemoveDocuments(what) ==
  LET kept == Keys(graph) \ EntitiesInScope IN
  /\ IF what = "entities"
     THEN /\ graph' = [graph EXCEPT !.rows = [k \in kept |-> @[k]]]
          /\ known' = [k \in kept |-> known[k]]
          /\ UNCHANGED docs
     ELSE /\ docs' = [docs EXCEPT ![what] = @ \ MemoriesOf(@)]
          /\ UNCHANGED <<graph, known>>
  /\ purge' = [purge EXCEPT !.step = IF @ = Len(PurgePlan) THEN 0 ELSE @ + 1]

PurgeStep ==
  /\ Purging
  /\ LET what == PurgePlan[purge.step]
     IN \/ what \in {"collect memories", "collect entities", "collect episodes"} /\ Collect(what)
        \/ what \in {"mentions", "relates_to", "produced_by"} /\ RemoveEdges(what)
        \/ what \in {"memories", "entities", "episodes"} /\ RemoveDocuments(what)
  /\ UNCHANGED <<calls, fed, overlapped, disturbed>>

PurgeCrash ==
  /\ Purging
  /\ purge' = [purge EXCEPT !.step = 0]
  /\ UNCHANGED <<graph, docs, calls, known, fed, overlapped, disturbed>>

Next ==
  \/ \E w \in Writers :
       \/ \E m \in Singles : Check(w, <<m>>, FALSE)
       \/ \E ms \in Batches : Check(w, ms, TRUE)
       \/ Record(w) \/ LookUpIndex(w) \/ Scan(w) \/ Write(w) \/ IncrementMany(w) \/ UpsertMany(w)
       \/ AddMentions(w) \/ AddProducedBy(w) \/ RelateOne(w) \/ RelateMany(w)
       \/ Return(w) \/ Crash(w)
  \/ \E s \in Seeds : Seed(s[1], s[2])
  \/ \E scope \in PurgeScopes : PurgeStart(scope)
  \/ PurgeStep
  \/ PurgeCrash

Spec == Init /\ [][Next]_graphVars

----------------------------------------------------------------------------
(* Properties.                                                              *)

\* The counters of a row lag behind no mention edge and never exceed what the
\* memories said: increments are added up exactly under every interleaving,
\* merge and crash (ingest/entities.py, _UPSERT_ENTITY, _BULK_INCREMENT).
EvidenceMatchesMentions == Matched(graph, fed)

\* A relation is corroborated by memories that mention both its ends, once for
\* each time one was fed: the count tracks independent episodes (the comment at
\* ingest/entities.py:399), as long as memories relate only what they say.
\* A purge removes mentions first, so it is left out.
CorroborationBacked == purge.count = 0 /\ AllRelateOwn => Backed(graph, fed)

\* No row duplicates or rivals, unflagged, one its writer could have found: only
\* rows inserted after the scan (or in the same call) escape resolution.
KnownRivalsResolved ==
  \A k \in Keys(graph) : \A j \in known[k] \cap Keys(graph) :
    LET near == Similarity[graph.rows[k].entity][graph.rows[j].entity]
    IN j # k => /\ near < MergeThreshold
                /\ near >= FlagThreshold => graph.rows[k].conflict # NoKey

\* Outside a purge that a call overlapped, every edge ends at documents that
\* exist, even while a purge runs and after one that stopped half way: edges go
\* before the documents they touch, and are written after them.
NoDanglingEdges == ~overlapped => EdgesEndIn(graph, docs)

\* A purge nothing overlapped ends with nothing of its scope left.
PurgeLeavesNothing ==
  [][Purging /\ purge.step = Len(PurgePlan) /\ ~overlapped /\ PurgeStep =>
       /\ \A m \in docs'.memories \cup docs'.episodes : purge.scope \notin {Everyone, AgentOf[m]}
       /\ \A k \in Keys(graph') : purge.scope \notin {Everyone, graph'.rows[k].agent}]_graphVars

\* A batch of one agent whose entities are not similar to one another (the
\* difference its docstring names) and whose names have one label each.
Plain(ms) ==
  LET entities == EntitiesOf(ms)
  IN /\ IsInjective(ms)
     /\ \A e, f \in entities : e # f => /\ Similarity[e][f] < FlagThreshold
                                       /\ NameOf[e] # NameOf[f]
     /\ \A m, n \in Range(ms) : AgentOf[m] = AgentOf[n]

\* The batched pass ends in the graph that one call per memory would build
\* (write_entities_many), if each memory relates only what it says: name_to_key
\* spans the batch, key_by_name one memory, so that a batch also draws a
\* relation to an entity that only another memory of the batch says.
BatchEqualsOneByOne ==
  Busy = 0 => \A ms \in Batches :
    Plain(ms) /\ (\A i \in DOMAIN ms : RelatesOwn(ms[i])) =>
      WriteEntitiesMany(graph, ms, AgentOf[ms[1]])
        = FoldLeft(LAMBDA g, m : WriteEntities(g, m, AgentOf[m]), graph, ms)
============================================================================
