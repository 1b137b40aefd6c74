------------------------- MODULE EntityGraphProofs -------------------------
(***************************************************************************)
(* The entity graph, for every number of writers, memories, entities, seeds *)
(* and purges: no edge dangles and a purge leaves nothing of its scope,     *)
(* unless a call ran beside a purge; no row repeats or rivals, without a    *)
(* flag, one that its writer could have found; a relation is corroborated   *)
(* only by memories that mention both its ends; and the counters of a row   *)
(* are those of the memories that mention it and were fed.                  *)
(***************************************************************************)
EXTENDS EntityGraph, SumTheorems, SequenceTheorems, TLAPS

(* A pool holds keys that were handed out, with entities.                    *)
PoolOK(g, pool) ==
  DOMAIN pool \subseteq 1..(g.next - 1) /\ \A k \in DOMAIN pool : pool[k] \in Entities

(* A call: its memories, and the next entity of the memory of a single one.   *)
Fed(c) == c.pc \in {"look", "write", "mention", "produce"}
CallOK(g, c) ==
  /\ DOMAIN c = DOMAIN Idle
  /\ c.pc \in {"idle", "record", "look", "write", "increment", "upsert",
               "mention", "produce", "relate", "return"}
  /\ DOMAIN c.ms \subseteq Nat /\ Range(c.ms) \subseteq Memories
  /\ c.pc = "idle" => c = Idle
  /\ c.pc = "record" => c.i = 1 /\ ~c.scanned
  /\ c.pc = "write" => ~c.many
  /\ c.pc \in {"increment", "upsert"} => c.many
  /\ ~c.many /\ c.pc # "idle" => DOMAIN c.ms = {1} /\ c.i \in Nat \ {0}
  /\ ~c.many /\ Fed(c) => c.i \in DOMAIN Says[c.ms[1]]
  /\ PoolOK(g, c.pool) /\ PoolOK(g, c.cache)
  /\ c.before \subseteq 1..(g.next - 1)

GraphTypes ==
  /\ WellFormed(graph)
  /\ DOMAIN docs = {"memories", "episodes"}
  /\ DOMAIN calls = Writers
  /\ \A w \in Writers : CallOK(graph, calls[w])
  /\ DOMAIN purge = {"step", "scope", "ids", "keys", "count"}
  /\ purge.step \in 0..Len(PurgePlan)
  /\ DOMAIN known = Keys(graph)
  /\ \A k \in Keys(graph) : known[k] \subseteq 1..(graph.next - 1)

(* What a writer will write its rows by shows every row there before it looked. *)
Shows(g, pool, before) ==
  \A j \in before \cap Keys(g) : j \in DOMAIN pool /\ pool[j] = g.rows[j].entity
RivalsInSight ==
  \A w \in Writers : LET c == calls[w] IN
    /\ c.pc \in {"write", "increment", "upsert"} => Shows(graph, c.pool, c.before)
    /\ c.scanned => Shows(graph, c.cache, c.before)

(* Without overlap, what a writer goes by exists.                            *)
HoldsOn(g, d, c) ==
  /\ c.pc \notin {"idle", "record"} => Range(c.ms) \subseteq d.memories \cap d.episodes
  /\ DOMAIN c.pool \cup DOMAIN c.cache \subseteq Keys(g)
  /\ \A e \in DOMAIN c.keyOf : c.keyOf[e] \in Keys(g)
  /\ c.pc \in {"mention", "produce"} => AtHand(c) \subseteq DOMAIN c.keyOf
  /\ \A p \in c.todo : {p[1], p[2]} \subseteq Keys(g)
WritersHold == ~overlapped => \A w \in Writers : HoldsOn(graph, docs, calls[w])

(* Without overlap, a purge is alone, and is as far as its step says.        *)
ScopeCollected ==
  /\ purge.step > 1 => DocsInScope("memories") \subseteq purge.ids
  /\ purge.step > 2 => EntitiesInScope \subseteq purge.keys
  /\ purge.step > 3 => DocsInScope("episodes") \subseteq purge.ids
EdgesRemoved ==
  /\ purge.step > 4 => \A l \in graph.mentions : /\ <<"memories", l[1]>> \notin purge.ids
                                                 /\ l[2] \notin purge.keys
  /\ purge.step > 5 => \A p \in DOMAIN graph.relates : {p[1], p[2]} \cap purge.keys = {}
  /\ purge.step > 6 => \A l \in graph.produced : /\ <<"episodes", l[2]>> \notin purge.ids
                                                 /\ l[1] \notin purge.keys
DocsRemoved ==
  /\ purge.step > 7 => DocsInScope("memories") = {}
  /\ purge.step > 8 => EntitiesInScope = {}
PurgeAlone ==
  ~overlapped /\ Purging => /\ \A w \in Writers : ~Active(w)
                            /\ ScopeCollected /\ EdgesRemoved /\ DocsRemoved

EntityInv == /\ GraphTypes /\ RivalsInSight /\ KnownRivalsResolved
             /\ WritersHold /\ PurgeAlone /\ NoDanglingEdges

-----------------------------------------------------------------------------
(* What the statements do to the rows.                                       *)

LEMMA LeastNumber ==
  ASSUME NEW S \in SUBSET Nat, S # {}
  PROVE  Min(S) \in S /\ \A y \in S : Min(S) <= y
<1> DEFINE R == OpToRel(<, Nat)
<1>1. PICK x \in S : \A y \in S : ~ (<<y, x>> \in R)
  <2> HIDE DEF R
  <2>1. IsWellFoundedOn(R, Nat) BY NatLessThanWellFounded DEF R
  <2> QED BY <2>1, WFMin
<1>2. \A y \in S : ~ (y < x) BY <1>1 DEF OpToRel
<1>3. \E z \in S : \A y \in S : z <= y BY <1>2
<1> QED BY <1>3 DEF Min

LEMMA SaysEntities ==
  ASSUME NEW ms, Range(ms) \subseteq Memories, NEW i \in DOMAIN ms
  PROVE  /\ ms[i] \in Memories /\ AgentOf[ms[i]] \in Agents
         /\ Says[ms[i]] \in Seq(Entities)
         /\ DOMAIN Says[ms[i]] = 1..Len(Says[ms[i]])
         /\ Range(Says[ms[i]]) \subseteq Entities
<1>1. ms[i] \in Memories BY DEF Range
<1>2. Says[ms[i]] \in Seq(Entities) BY <1>1, MemoriesAssumption
<1> QED BY <1>1, <1>2, MemoriesAssumption DEF Range

LEMMA EntitiesOfTyped ==
  ASSUME NEW ms, Range(ms) \subseteq Memories
  PROVE  EntitiesOf(ms) \subseteq Entities
BY SaysEntities DEF EntitiesOf

LEMMA NotBeforeItself ==
  ASSUME NEW ms, DOMAIN ms \subseteq Nat, Range(ms) \subseteq Memories, NEW e \in EntitiesOf(ms)
  PROVE  ~FoundBefore(ms, e, e)
<1> DEFINE i == Min(Naming(ms, e))
<1>1. Naming(ms, e) \in SUBSET Nat /\ Naming(ms, e) # {} BY DEF Naming, EntitiesOf
<1>2. i \in Nat /\ i \in DOMAIN ms /\ e \in Range(Says[ms[i]]) BY <1>1, LeastNumber DEF Naming
<1> DEFINE places == {j \in DOMAIN Says[ms[i]] : Says[ms[i]][j] = e}
<1>3. places \in SUBSET Nat /\ places # {} BY <1>2, SaysEntities DEF Range
<1>4. FirstIn(Says[ms[i]], e) \in Nat BY <1>3, LeastNumber DEF FirstIn
<1> QED BY <1>2, <1>4 DEF FoundBefore

LEMMA NewKeyInRange ==
  ASSUME NEW g, WellFormed(g), NEW ms, DOMAIN ms \subseteq Nat, Range(ms) \subseteq Memories,
         NEW fresh \in SUBSET EntitiesOf(ms), NEW e \in fresh
  PROVE  /\ Cardinality(fresh) \in Nat
         /\ NewKey(g, ms, fresh, e) \in g.next..(g.next + Cardinality(fresh) - 1)
<1> DEFINE earlier == {f \in fresh : FoundBefore(ms, f, e)}
<1>1. IsFiniteSet(fresh)
  BY EntitiesOfTyped, MemoriesAssumption, FS_Subset
<1>2. e \notin earlier BY NotBeforeItself
<1>3. earlier \in SUBSET fresh OBVIOUS
<1>4. IsFiniteSet(earlier) /\ Cardinality(earlier) <= Cardinality(fresh)
      /\ Cardinality(earlier) # Cardinality(fresh)
  BY <1>1, <1>2, <1>3, FS_Subset
<1>5. Cardinality(earlier) \in Nat /\ Cardinality(fresh) \in Nat BY <1>1, <1>4, FS_CardinalityType
<1>6. g.next \in Nat BY DEF WellFormed
<1> QED BY <1>4, <1>5, <1>6 DEF NewKey

(* The fields of a graph after a change of one or two.                       *)
LEMMA GraphFields ==
  ASSUME NEW g, DOMAIN g = DOMAIN EmptyGraph, NEW x, NEW y
  PROVE  /\ LET h == [g EXCEPT !.rows = x]
            IN /\ DOMAIN h = DOMAIN EmptyGraph /\ h.rows = x /\ h.next = g.next
               /\ h.mentions = g.mentions /\ h.produced = g.produced /\ h.relates = g.relates
         /\ LET h == [g EXCEPT !.next = y, !.rows = x]
            IN /\ DOMAIN h = DOMAIN EmptyGraph /\ h.rows = x /\ h.next = y
               /\ h.mentions = g.mentions /\ h.produced = g.produced /\ h.relates = g.relates
         /\ LET h == [g EXCEPT !.mentions = x]
            IN /\ DOMAIN h = DOMAIN EmptyGraph /\ h.rows = g.rows /\ h.next = g.next
               /\ h.mentions = x /\ h.produced = g.produced /\ h.relates = g.relates
         /\ LET h == [g EXCEPT !.produced = x]
            IN /\ DOMAIN h = DOMAIN EmptyGraph /\ h.rows = g.rows /\ h.next = g.next
               /\ h.mentions = g.mentions /\ h.produced = x /\ h.relates = g.relates
         /\ LET h == [g EXCEPT !.relates = x]
            IN /\ DOMAIN h = DOMAIN EmptyGraph /\ h.rows = g.rows /\ h.next = g.next
               /\ h.mentions = g.mentions /\ h.produced = g.produced /\ h.relates = x
BY DEF EmptyGraph

SameEdges(g, h) ==
  h.mentions = g.mentions /\ h.produced = g.produced /\ h.relates = g.relates
SameRow(g, h, k) ==
  /\ h.rows[k].entity = g.rows[k].entity /\ h.rows[k].agent = g.rows[k].agent
  /\ h.rows[k].conflict = g.rows[k].conflict

LEMMA IncrementKeeps ==
  ASSUME NEW g, WellFormed(g), NEW pool, NEW ms, NEW entities
  PROVE  LET h == Increment(g, pool, ms, entities)
         IN /\ WellFormed(h) /\ SameEdges(g, h) /\ h.next = g.next /\ Keys(h) = Keys(g)
            /\ \A k \in Keys(g) : SameRow(g, h, k)
<1> DEFINE into(k) == {e \in entities : MergeTarget(pool, e) = k}
           more(k) == SumFunctionOnSet([e \in entities |-> Repeats(ms, e)], into(k))
           moreEvidence(k) == SumFunctionOnSet([e \in entities |-> EvidenceFor(ms, e)], into(k))
           rows == [k \in Keys(g) |-> IF into(k) = {} THEN g.rows[k]
                                      ELSE Bump(g.rows[k], more(k), moreEvidence(k))]
           h == Increment(g, pool, ms, entities)
<1>1. h = [g EXCEPT !.rows = rows] BY DEF Increment
<1>2. \A k \in Keys(g) : /\ rows[k].entity = g.rows[k].entity /\ rows[k].agent = g.rows[k].agent
                         /\ rows[k].conflict = g.rows[k].conflict
  BY DEF Bump, EntityDoc
<1>3. DOMAIN rows = Keys(g) OBVIOUS
<1> HIDE DEF rows
<1>4. /\ DOMAIN h = DOMAIN EmptyGraph /\ h.rows = rows /\ h.next = g.next
      /\ h.mentions = g.mentions /\ h.produced = g.produced /\ h.relates = g.relates
  BY <1>1, GraphFields DEF WellFormed
<1> HIDE DEF h
<1> QED BY <1>2, <1>3, <1>4 DEF WellFormed, SameEdges, SameRow, Keys, h

(* The row of key k is new, and resolved against the pool.                   *)
Resolved(g, h, pool, k) ==
  /\ k >= g.next /\ KeyNamed(g, h.rows[k].entity) = {}
  /\ h.rows[k].conflict = Rival(pool, h.rows[k].entity)

LEMMA UpsertMakes ==
  ASSUME NEW g, WellFormed(g), NEW pool,
         NEW ms, DOMAIN ms \subseteq Nat, Range(ms) \subseteq Memories,
         NEW entities \in SUBSET EntitiesOf(ms), NEW agent
  PROVE  LET h == Upsert(g, pool, ms, entities, agent)
             keyOf == KeysFor(g, pool, ms, entities)
         IN /\ WellFormed(h) /\ SameEdges(g, h) /\ g.next <= h.next /\ Keys(g) \subseteq Keys(h)
            /\ \A k \in Keys(g) : SameRow(g, h, k)
            /\ \A k \in Keys(h) \ Keys(g) :
                 Resolved(g, h, pool, k) /\ h.rows[k].entity \in Own(pool, entities)
            /\ \A e \in entities : \/ keyOf[e] \in Keys(h)
                                   \/ MergeTarget(pool, e) # NoKey /\ keyOf[e] = MergeTarget(pool, e)
<1> DEFINE own == Own(pool, entities)
           fresh == Fresh(g, pool, entities)
           keyOf == KeysFor(g, pool, ms, entities)
           madeFor(k) == CHOOSE e \in fresh : keyOf[e] = k
           rowOf(e) == EntityDoc(e, agent, Repeats(ms, e), EvidenceFor(ms, e), Rival(pool, e))
           made == {keyOf[e] : e \in fresh}
           rows == [k \in Keys(g) \cup made |->
                      IF k \notin Keys(g) THEN rowOf(madeFor(k))
                      ELSE IF g.rows[k].entity \notin own THEN g.rows[k]
                      ELSE Bump(g.rows[k], Repeats(ms, g.rows[k].entity),
                                EvidenceFor(ms, g.rows[k].entity))]
           top == g.next + Cardinality(fresh)
           h == Upsert(g, pool, ms, entities, agent)
<1>1. fresh \subseteq own /\ own \subseteq entities /\ fresh \in SUBSET EntitiesOf(ms)
  BY DEF Fresh, Own
<1>2. \A e \in fresh : /\ keyOf[e] = NewKey(g, ms, fresh, e) /\ Cardinality(fresh) \in Nat
                       /\ keyOf[e] \in g.next..(top - 1)
  <2> SUFFICES ASSUME NEW e \in fresh
               PROVE  /\ keyOf[e] = NewKey(g, ms, fresh, e) /\ Cardinality(fresh) \in Nat
                      /\ keyOf[e] \in g.next..(top - 1)
    OBVIOUS
  <2>1. e \in entities /\ e \notin Merged(pool, entities) /\ KeyNamed(g, e) = {}
    BY DEF Fresh, Own, Merged
  <2>2. keyOf[e] = NewKey(g, ms, fresh, e)
    BY <2>1 DEF KeysFor
  <2>3. /\ Cardinality(fresh) \in Nat
        /\ NewKey(g, ms, fresh, e) \in g.next..(g.next + Cardinality(fresh) - 1)
    <3> HIDE DEF fresh
    <3> QED
      BY <1>1, NewKeyInRange
  <2>4. top - 1 = g.next + Cardinality(fresh) - 1
    BY <2>3 DEF WellFormed
  <2>5. keyOf[e] \in g.next..(top - 1)
    <3> HIDE DEF keyOf, top
    <3> QED
      BY <2>2, <2>3, <2>4
  <2> QED
    BY <2>2, <2>3, <2>5
<1>3. Cardinality(fresh) \in Nat
  BY <1>1, EntitiesOfTyped, MemoriesAssumption, FS_Subset, FS_CardinalityType
<1>4. g.next \in Nat \ {0} /\ Keys(g) \subseteq 1..(g.next - 1)
      /\ \A k \in Keys(g) : g.rows[k].entity \in Entities
  BY DEF WellFormed
<1>5. top \in Nat \ {0} /\ g.next <= top
  BY <1>3, <1>4
<1>6. \A k \in made : k \in g.next..(top - 1) /\ madeFor(k) \in fresh
  BY <1>2
<1>7. h = [g EXCEPT !.next = top, !.rows = rows]
  BY DEF Upsert
<1>8. \A k \in Keys(g) : /\ rows[k].entity = g.rows[k].entity /\ rows[k].agent = g.rows[k].agent
                         /\ rows[k].conflict = g.rows[k].conflict
  BY DEF Bump, EntityDoc
<1>9. \A k \in made \ Keys(g) : /\ rows[k].entity = madeFor(k)
                                /\ rows[k].conflict = Rival(pool, madeFor(k))
  BY DEF EntityDoc
<1>10. DOMAIN rows = Keys(g) \cup made
  OBVIOUS
<1>11. \A e \in entities : \/ keyOf[e] \in Keys(g) \cup made
                           \/ MergeTarget(pool, e) # NoKey /\ keyOf[e] = MergeTarget(pool, e)
  <2> SUFFICES ASSUME NEW e \in entities, MergeTarget(pool, e) = NoKey
               PROVE  keyOf[e] \in Keys(g) \cup made
    BY DEF KeysFor, Merged
  <2>1. CASE KeyNamed(g, e) # {}
    BY <2>1 DEF KeysFor, Merged, KeyNamed
  <2>2. CASE KeyNamed(g, e) = {}
    BY <2>2 DEF Fresh, Own
  <2> QED
    BY <2>1, <2>2
<1>12. \A e \in fresh : KeyNamed(g, e) = {} /\ e \in Entities
  BY <1>1, EntitiesOfTyped DEF Fresh
<1> HIDE DEF rows, top, made, madeFor, keyOf, fresh, own
<1>13. /\ DOMAIN h = DOMAIN EmptyGraph /\ h.rows = rows /\ h.next = top
       /\ h.mentions = g.mentions /\ h.produced = g.produced /\ h.relates = g.relates
  BY <1>7, GraphFields DEF WellFormed
<1> HIDE DEF h
<1>14. Keys(h) = Keys(g) \cup made
  BY <1>10, <1>13 DEF Keys
<1>15. \A k \in Keys(h) \ Keys(g) : /\ k >= g.next /\ madeFor(k) \in fresh
                                    /\ h.rows[k].entity = madeFor(k)
                                    /\ h.rows[k].conflict = Rival(pool, madeFor(k))
  BY <1>6, <1>9, <1>13, <1>14, <1>4, <1>5
<1>16. WellFormed(h)
  <2>1. Keys(h) \subseteq 1..(h.next - 1)
    BY <1>4, <1>5, <1>6, <1>13, <1>14
  <2>2. \A k \in Keys(h) : h.rows[k].entity \in Entities
    BY <1>4, <1>8, <1>12, <1>13, <1>14, <1>15
  <2> QED
    BY <1>5, <1>13, <2>1, <2>2 DEF WellFormed
<1>17. \A k \in Keys(g) : SameRow(g, h, k)
  BY <1>8, <1>13 DEF SameRow
<1>18. SameEdges(g, h) /\ g.next <= h.next /\ Keys(g) \subseteq Keys(h)
  BY <1>5, <1>13, <1>14 DEF SameEdges
<1>19. \A k \in Keys(h) \ Keys(g) :
         Resolved(g, h, pool, k) /\ h.rows[k].entity \in own
  BY <1>1, <1>12, <1>15 DEF Resolved
<1>20. \A e \in entities : \/ keyOf[e] \in Keys(h)
                           \/ MergeTarget(pool, e) # NoKey /\ keyOf[e] = MergeTarget(pool, e)
  BY <1>11, <1>14
<1> QED
  BY <1>16, <1>17, <1>18, <1>19, <1>20 DEF h, own, keyOf

LEMMA SeedKeeps ==
  ASSUME NEW g, WellFormed(g), NEW e \in Entities, NEW agent
  PROVE  LET h == SeedUpsert(g, e, agent)
         IN /\ WellFormed(h) /\ SameEdges(g, h) /\ g.next <= h.next /\ Keys(g) \subseteq Keys(h)
            /\ \A k \in Keys(g) : SameRow(g, h, k)
            /\ \A k \in Keys(h) \ Keys(g) : k >= g.next
<1> DEFINE rows == [k \in Keys(g) \cup {g.next} |->
                      IF k \in Keys(g) THEN g.rows[k] ELSE EntityDoc(e, agent, 1, 0, NoKey)]
           h == SeedUpsert(g, e, agent)
<1>0. g.next \in Nat \ {0} /\ Keys(g) \subseteq 1..(g.next - 1)
      /\ \A k \in Keys(g) : g.rows[k].entity \in Entities
  BY DEF WellFormed
<1>1. CASE KeyNamed(g, e) # {}
  BY <1>0, <1>1 DEF SeedUpsert, SameEdges, SameRow
<1>2. CASE KeyNamed(g, e) = {}
  <2>1. h = [g EXCEPT !.next = g.next + 1, !.rows = rows]
    BY <1>2 DEF SeedUpsert
  <2>2. rows[g.next].entity = e
    BY <1>0 DEF EntityDoc
  <2>3. DOMAIN rows = Keys(g) \cup {g.next} /\ \A k \in Keys(g) : rows[k] = g.rows[k]
    OBVIOUS
  <2> HIDE DEF rows
  <2>4. /\ DOMAIN h = DOMAIN EmptyGraph /\ h.rows = rows /\ h.next = g.next + 1
        /\ h.mentions = g.mentions /\ h.produced = g.produced /\ h.relates = g.relates
    BY <2>1, GraphFields DEF WellFormed
  <2> HIDE DEF h
  <2>5. Keys(h) = Keys(g) \cup {g.next}
    BY <2>3, <2>4 DEF Keys
  <2>6. \A k \in Keys(h) : h.rows[k].entity \in Entities
    BY <1>0, <2>2, <2>3, <2>4, <2>5
  <2>7. WellFormed(h)
    BY <1>0, <2>4, <2>5, <2>6 DEF WellFormed
  <2>8. \A k \in Keys(g) : SameRow(g, h, k)
    BY <2>3, <2>4 DEF SameRow
  <2>9. SameEdges(g, h) /\ g.next <= h.next /\ \A k \in Keys(h) \ Keys(g) : k >= g.next
    BY <1>0, <2>4, <2>5 DEF SameEdges
  <2> QED
    BY <2>5, <2>7, <2>8, <2>9 DEF h
<1> QED
  BY <1>1, <1>2

-----------------------------------------------------------------------------
(* What resolving against a pool finds.                                      *)

LEMMA NearestIsNearest ==
  ASSUME NEW g, WellFormed(g), NEW pool, PoolOK(g, pool),
         NEW e \in Entities, Rivals(pool, e) # {}
  PROVE  /\ Nearest(pool, e) \in Rivals(pool, e)
         /\ \A j \in Rivals(pool, e) : /\ Nearness(pool, e, j) \in Nat
                                       /\ Nearness(pool, e, j) <= Nearness(pool, e, Nearest(pool, e))
<1> DEFINE rivals == Rivals(pool, e)
           far(k) == Identical - Nearness(pool, e, k)
           distances == {far(k) : k \in rivals}
           best == {k \in rivals : far(k) = Min(distances)}
<1>1. \A k \in rivals : k \in Nat /\ pool[k] \in Entities
  BY DEF Rivals, PoolOK, WellFormed
<1>2. \A k \in rivals : Nearness(pool, e, k) \in 0..Identical
  BY <1>1, SimilarityAssumption DEF Nearness
<1>3. Identical \in Nat
  BY NumbersAssumption
<1>4. \A k \in rivals : far(k) \in Nat
  BY <1>2, <1>3
<1>5. distances \in SUBSET Nat /\ distances # {}
  BY <1>4
<1>6. /\ \E k \in rivals : far(k) = Min(distances)
      /\ \A k \in rivals : Min(distances) <= far(k)
  <2>1. Min(distances) \in distances /\ \A d \in distances : Min(distances) <= d
    BY <1>5, LeastNumber
  <2> QED
    BY <2>1
<1>7. best \in SUBSET Nat /\ best # {}
  BY <1>1, <1>6
<1>8. PICK k \in best : \A j \in best : k <= j
  BY <1>7, LeastNumber
<1>9. \A j \in rivals : \/ Nearness(pool, e, j) < Nearness(pool, e, k)
                        \/ Nearness(pool, e, j) = Nearness(pool, e, k) /\ k <= j
  <2> SUFFICES ASSUME NEW j \in rivals, ~(Nearness(pool, e, j) < Nearness(pool, e, k))
               PROVE  Nearness(pool, e, j) = Nearness(pool, e, k) /\ k <= j
    OBVIOUS
  <2>1. far(k) = Min(distances) /\ Min(distances) <= far(j) /\ k \in rivals
    BY <1>6, <1>8
  <2>2. far(j) = far(k) /\ Nearness(pool, e, j) = Nearness(pool, e, k)
    BY <1>2, <1>3, <1>4, <2>1
  <2>3. j \in best
    BY <2>1, <2>2
  <2> QED
    BY <1>8, <2>2, <2>3
<1> DEFINE wins(x) == \A j \in rivals : \/ Nearness(pool, e, j) < Nearness(pool, e, x)
                                        \/ Nearness(pool, e, j) = Nearness(pool, e, x) /\ x <= j
<1>10. Nearest(pool, e) = CHOOSE x \in rivals : wins(x)
  BY DEF Nearest
<1>11. \E x \in rivals : wins(x)
  BY <1>8, <1>9
<1>12. Nearest(pool, e) \in rivals /\ wins(Nearest(pool, e))
  BY <1>10, <1>11
<1> QED
  BY <1>2, <1>12

LEMMA NearerFound ==
  ASSUME NEW g, WellFormed(g), NEW pool, PoolOK(g, pool), NEW e \in Entities,
         NEW threshold \in Nat, threshold > 0
  PROVE  LET k == NearerThan(pool, e, threshold)
         IN /\ k # NoKey => k \in Rivals(pool, e)
            /\ k = NoKey => \A j \in Rivals(pool, e) : /\ Nearness(pool, e, j) \in Nat
                                                       /\ Nearness(pool, e, j) < threshold
<1>1. CASE Rivals(pool, e) = {}
  BY <1>1 DEF NearerThan, Nearest
<1>2. CASE Rivals(pool, e) # {}
  <2>1. /\ Nearest(pool, e) \in Rivals(pool, e)
        /\ \A j \in Rivals(pool, e) : /\ Nearness(pool, e, j) \in Nat
                                      /\ Nearness(pool, e, j) <= Nearness(pool, e, Nearest(pool, e))
    BY <1>2, NearestIsNearest
  <2>2. Nearest(pool, e) # NoKey
    BY <2>1 DEF Rivals, PoolOK, WellFormed, NoKey
  <2> QED
    BY <2>1, <2>2 DEF NearerThan
<1> QED
  BY <1>1, <1>2

(* A merge goes into a candidate; what is not merged has no duplicate among   *)
(* the candidates, and is flagged if it has a rival.                         *)
LEMMA ResolvedAgainst ==
  ASSUME NEW g, WellFormed(g), NEW pool, PoolOK(g, pool), NEW e \in Entities
  PROVE  /\ MergeTarget(pool, e) # NoKey => MergeTarget(pool, e) \in DOMAIN pool
         /\ MergeTarget(pool, e) = NoKey =>
              \A j \in DOMAIN pool : pool[j] # e =>
                /\ Similarity[e][pool[j]] < MergeThreshold
                /\ Similarity[e][pool[j]] >= FlagThreshold => Rival(pool, e) # NoKey
<1>1. /\ FlagThreshold \in Nat /\ FlagThreshold > 0
      /\ MergeThreshold \in Nat /\ MergeThreshold > 0
  BY ThresholdsAssumption, NumbersAssumption
<1>2. /\ MergeTarget(pool, e) # NoKey => MergeTarget(pool, e) \in Rivals(pool, e)
      /\ MergeTarget(pool, e) = NoKey => \A j \in Rivals(pool, e) : /\ Nearness(pool, e, j) \in Nat
                                                                   /\ Nearness(pool, e, j) < MergeThreshold
  BY <1>1, NearerFound DEF MergeTarget
<1>3. Rival(pool, e) = NoKey => \A j \in Rivals(pool, e) : /\ Nearness(pool, e, j) \in Nat
                                                          /\ Nearness(pool, e, j) < FlagThreshold
  BY <1>1, NearerFound DEF Rival
<1> QED
  BY <1>1, <1>2, <1>3 DEF Rivals, Nearness

-----------------------------------------------------------------------------
(* Where the edges end.                                                      *)

LEMMA LinksEnd ==
  ASSUME NEW ms, NEW entities, NEW keyOf, NEW l \in Links(ms, entities, keyOf)
  PROVE  /\ l = <<l[1], l[2]>> /\ l[1] \in Range(ms)
         /\ \E e \in entities : l[2] = keyOf[e]
BY DEF Links, Range

LEMMA PairEnds ==
  ASSUME NEW j \in Nat, NEW k \in Nat
  PROVE  {Pair(j, k)[1], Pair(j, k)[2]} = {j, k}
BY DEF Pair

LEMMA PairsEnd ==
  ASSUME NEW g, WellFormed(g), NEW keyOf, \A e \in DOMAIN keyOf : keyOf[e] \in Keys(g),
         NEW m, NEW standing, NEW q \in DOMAIN PairsOf(m, standing, keyOf)
  PROVE  {q[1], q[2]} \subseteq Keys(g)
<1> DEFINE found == {p \in (DOMAIN keyOf) \X (DOMAIN keyOf) : keyOf[p[1]] # keyOf[p[2]]}
           pairOf(p) == Pair(keyOf[p[1]], keyOf[p[2]])
           asserted(r) == {p \in found : /\ {p[1], p[2]} \subseteq standing
                                         /\ NameOf[p[1]] = r[1] /\ NameOf[p[2]] = r[2]}
           together == {p \in found : \E x \in Cooccurring(Says[m]) :
                                        p = <<Says[m][x[1]], Says[m][x[2]]>>}
           typed == {pairOf(p) : p \in UNION {asserted(r) : r \in Range(Relations[m])}}
<1>1. DOMAIN PairsOf(m, standing, keyOf) = typed \cup {pairOf(p) : p \in together}
  BY DEF PairsOf
<1>2. PICK p \in found : q = pairOf(p)
  BY <1>1
<1>3. /\ keyOf[p[1]] \in Keys(g) /\ keyOf[p[1]] \in Nat
      /\ keyOf[p[2]] \in Keys(g) /\ keyOf[p[2]] \in Nat
  BY <1>2 DEF WellFormed
<1>4. {q[1], q[2]} = {keyOf[p[1]], keyOf[p[2]]}
  BY <1>2, <1>3, PairEnds
<1> QED
  BY <1>3, <1>4

LEMMA RelateAdds ==
  ASSUME NEW g, WellFormed(g), NEW ms, NEW said
  PROVE  LET h == Relate(g, ms, said)
         IN /\ WellFormed(h) /\ h.rows = g.rows /\ h.next = g.next
            /\ h.mentions = g.mentions /\ h.produced = g.produced
            /\ DOMAIN h.relates = DOMAIN g.relates \cup UNION {DOMAIN said[i] : i \in DOMAIN said}
<1> DEFINE old == g.relates
           pairs == UNION {DOMAIN said[i] : i \in DOMAIN said}
           by(p) == {i \in DOMAIN said : p \in DOMAIN said[i]}
           had(p) == p \in DOMAIN old
           relates ==
             [p \in DOMAIN old \cup pairs |->
                IF p \notin pairs THEN old[p]
                ELSE [kind |-> said[Max(by(p))][p],
                      corroboration |-> Cardinality(by(p)) + (IF had(p) THEN old[p].corroboration ELSE 0),
                      evidence |-> SumFunctionOnSet(Weights(ms), by(p))
                                   + (IF had(p) THEN old[p].evidence ELSE 0)]]
           h == Relate(g, ms, said)
<1>1. h = [g EXCEPT !.relates = relates]
  BY DEF Relate
<1>3. DOMAIN relates = DOMAIN g.relates \cup pairs
  OBVIOUS
<1> HIDE DEF pairs, h, relates
<1>2. /\ DOMAIN h = DOMAIN EmptyGraph /\ h.rows = g.rows /\ h.next = g.next
      /\ h.mentions = g.mentions /\ h.produced = g.produced /\ h.relates = relates
  BY <1>1, GraphFields DEF WellFormed
<1> QED
  BY <1>2, <1>3 DEF WellFormed, Keys, h, pairs

-----------------------------------------------------------------------------
(* What a growing graph leaves as it was.                                    *)

Grows(g, h) ==
  /\ WellFormed(h) /\ g.next <= h.next /\ Keys(g) \subseteq Keys(h)
  /\ \A k \in Keys(g) : SameRow(g, h, k)
  /\ \A k \in Keys(h) \ Keys(g) : k >= g.next

LEMMA SameRowsGrow ==
  ASSUME NEW g, WellFormed(g), NEW h, WellFormed(h), h.rows = g.rows, h.next = g.next
  PROVE  Grows(g, h)
BY DEF Grows, SameRow, Keys, WellFormed

LEMMA NextGrows ==
  ASSUME NEW g, WellFormed(g), NEW h, Grows(g, h)
  PROVE  g.next \in Nat /\ h.next \in Nat /\ 1..(g.next - 1) \subseteq 1..(h.next - 1)
BY DEF WellFormed, Grows

LEMMA CallGrows ==
  ASSUME NEW g, WellFormed(g), NEW h, Grows(g, h), NEW c, CallOK(g, c)
  PROVE  CallOK(h, c)
BY NextGrows DEF CallOK, PoolOK

LEMMA ShowsGrows ==
  ASSUME NEW g, WellFormed(g), NEW h, Grows(g, h), NEW pool,
         NEW before \in SUBSET (1..(g.next - 1)), Shows(g, pool, before)
  PROVE  Shows(h, pool, before)
<1>1. \A j \in before \cap Keys(h) : j \in Keys(g)
  BY NextGrows DEF Grows
<1> QED
  BY <1>1 DEF Shows, Grows, SameRow

LEMMA HoldsGrows ==
  ASSUME NEW g, NEW h, Grows(g, h), NEW d, NEW e, NEW c, HoldsOn(g, d, c),
         d.memories \subseteq e.memories, d.episodes \subseteq e.episodes
  PROVE  HoldsOn(h, e, c)
BY DEF HoldsOn, Grows

LEMMA EdgesGrow ==
  ASSUME NEW g, NEW h, Grows(g, h), SameEdges(g, h), NEW d, NEW e, EdgesEndIn(g, d),
         d.memories \subseteq e.memories, d.episodes \subseteq e.episodes
  PROVE  EdgesEndIn(h, e)
BY DEF EdgesEndIn, Grows, SameEdges

(* History: rows that were there keep what they knew; a new one is settled    *)
(* against what it knows.                                                    *)
NewOnesSettled(g, h, learnt, before) ==
  \A k \in Keys(h) \ Keys(g) :
    /\ learnt[k] = before
    /\ \A j \in before \cap Keys(g) :
         LET near == Similarity[h.rows[k].entity][g.rows[j].entity]
         IN /\ near < MergeThreshold
            /\ near >= FlagThreshold => h.rows[k].conflict # NoKey

LEMMA KnownGrows ==
  ASSUME GraphTypes, KnownRivalsResolved, Grows(graph, graph'),
         DOMAIN known' = Keys(graph'), \A k \in Keys(graph) : known'[k] = known[k],
         NEW before \in SUBSET (1..(graph.next - 1)),
         NewOnesSettled(graph, graph', known', before)
  PROVE  /\ KnownRivalsResolved'
         /\ \A k \in Keys(graph') : known'[k] \subseteq 1..(graph'.next - 1)
<1>1. WellFormed(graph) /\ \A k \in Keys(graph) : known[k] \subseteq 1..(graph.next - 1)
  BY DEF GraphTypes
<1>2. 1..(graph.next - 1) \subseteq 1..(graph'.next - 1)
  BY <1>1, NextGrows
<1>3. \A k \in Keys(graph') \ Keys(graph) :
        /\ known'[k] = before
        /\ \A j \in before \cap Keys(graph) :
             LET near == Similarity[graph'.rows[k].entity][graph.rows[j].entity]
             IN /\ near < MergeThreshold
                /\ near >= FlagThreshold => graph'.rows[k].conflict # NoKey
  BY DEF NewOnesSettled
<1>4. \A k \in Keys(graph') : known'[k] \subseteq 1..(graph.next - 1)
  BY <1>1, <1>3
<1>5. \A j \in Keys(graph') : j \in 1..(graph.next - 1) => j \in Keys(graph)
  BY <1>1, NextGrows DEF Grows
<1>6. \A j \in Keys(graph) : /\ graph'.rows[j].entity = graph.rows[j].entity
                             /\ graph'.rows[j].conflict = graph.rows[j].conflict
  BY DEF Grows, SameRow
<1>7. KnownRivalsResolved'
  <2> SUFFICES ASSUME NEW k \in Keys(graph'), NEW j \in known'[k] \cap Keys(graph'), j # k
               PROVE  LET near == Similarity[graph'.rows[k].entity][graph'.rows[j].entity]
                      IN /\ near < MergeThreshold
                         /\ near >= FlagThreshold => graph'.rows[k].conflict # NoKey
    BY DEF KnownRivalsResolved
  <2>1. j \in Keys(graph)
    BY <1>4, <1>5
  <2>2. CASE k \in Keys(graph)
    BY <1>6, <2>1, <2>2 DEF KnownRivalsResolved
  <2>3. CASE k \notin Keys(graph)
    BY <1>6, <1>3, <2>1, <2>3
  <2> QED
    BY <2>2, <2>3
<1> QED
  BY <1>2, <1>4, <1>7

LEMMA KnownSame ==
  ASSUME GraphTypes, KnownRivalsResolved, Grows(graph, graph'), Keys(graph') = Keys(graph),
         known' = known
  PROVE  /\ KnownRivalsResolved' /\ DOMAIN known' = Keys(graph')
         /\ \A k \in Keys(graph') : known'[k] \subseteq 1..(graph'.next - 1)
<1>1. DOMAIN known' = Keys(graph')
  BY DEF GraphTypes
<1>2. {} \in SUBSET (1..(graph.next - 1)) /\ NewOnesSettled(graph, graph', known', {})
  BY DEF NewOnesSettled
<1> QED
  BY <1>1, <1>2, KnownGrows

(* A step of one writer, when the graph and the documents only grow.         *)
LEMMA WriterMoves ==
  ASSUME EntityInv, NEW w \in Writers, NEW c, calls' = [calls EXCEPT ![w] = c],
         Grows(graph, graph'), purge' = purge,
         DOMAIN docs' = {"memories", "episodes"},
         docs.memories \subseteq docs'.memories, docs.episodes \subseteq docs'.episodes,
         DOMAIN known' = Keys(graph'), KnownRivalsResolved',
         \A k \in Keys(graph') : known'[k] \subseteq 1..(graph'.next - 1),
         ~overlapped' => ~overlapped /\ ~Purging,
         CallOK(graph', c),
         c.pc \in {"write", "increment", "upsert"} => Shows(graph', c.pool, c.before),
         c.scanned => Shows(graph', c.cache, c.before),
         ~overlapped' => HoldsOn(graph', docs', c) /\ EdgesEndIn(graph', docs')
  PROVE  EntityInv'
<1> USE DEF EntityInv
<1>1. /\ WellFormed(graph) /\ DOMAIN calls = Writers
      /\ \A v \in Writers : CallOK(graph, calls[v])
  BY DEF GraphTypes
<1>2. /\ DOMAIN calls' = Writers /\ calls'[w] = c
      /\ \A v \in Writers : v # w => calls'[v] = calls[v]
  BY <1>1
<1>3. \A v \in Writers : CallOK(graph', calls'[v])
  BY <1>1, <1>2, CallGrows
<1>4. GraphTypes'
  BY <1>2, <1>3 DEF GraphTypes, Grows
<1>5. RivalsInSight'
  <2> SUFFICES ASSUME NEW v \in Writers, v # w
               PROVE  /\ calls[v].pc \in {"write", "increment", "upsert"} =>
                           Shows(graph', calls[v].pool, calls[v].before)
                      /\ calls[v].scanned => Shows(graph', calls[v].cache, calls[v].before)
    BY <1>2 DEF RivalsInSight
  <2>1. calls[v].before \in SUBSET (1..(graph.next - 1))
    BY <1>1 DEF CallOK
  <2> QED
    BY <1>1, <2>1, ShowsGrows DEF RivalsInSight
<1>6. WritersHold'
  BY <1>2, HoldsGrows DEF WritersHold
<1>7. PurgeAlone'
  BY DEF PurgeAlone, Purging
<1> QED
  BY <1>4, <1>5, <1>6, <1>7 DEF NoDanglingEdges

-----------------------------------------------------------------------------
(* The steps of a writer.                                                    *)

LEMMA CallFacts ==
  ASSUME EntityInv, NEW w \in Writers
  PROVE  /\ WellFormed(graph) /\ CallOK(graph, calls[w]) /\ DOMAIN calls[w] = DOMAIN Idle
         /\ calls[w].pc \in {"write", "increment", "upsert"} =>
              Shows(graph, calls[w].pool, calls[w].before)
         /\ calls[w].scanned => Shows(graph, calls[w].cache, calls[w].before)
         /\ ~overlapped => HoldsOn(graph, docs, calls[w]) /\ EdgesEndIn(graph, docs)
         /\ Active(w) /\ ~overlapped => ~Purging
         /\ DOMAIN docs = {"memories", "episodes"}
BY DEF EntityInv, GraphTypes, CallOK, RivalsInSight, WritersHold, NoDanglingEdges, PurgeAlone

(* A step of a writer that leaves rows and edges alone, or adds edges only.   *)
LEMMA WriterKeepsRows ==
  ASSUME EntityInv, NEW w \in Writers, NEW c, calls' = [calls EXCEPT ![w] = c],
         WellFormed(graph'), graph'.rows = graph.rows, graph'.next = graph.next,
         purge' = purge, known' = known,
         DOMAIN docs' = {"memories", "episodes"},
         docs.memories \subseteq docs'.memories, docs.episodes \subseteq docs'.episodes,
         ~overlapped' => ~overlapped /\ ~Purging,
         CallOK(graph, c),
         c.pc \in {"write", "increment", "upsert"} => Shows(graph, c.pool, c.before),
         c.scanned => Shows(graph, c.cache, c.before),
         ~overlapped' => HoldsOn(graph, docs', c) /\ EdgesEndIn(graph', docs')
  PROVE  EntityInv'
<1>1. WellFormed(graph) /\ GraphTypes /\ KnownRivalsResolved
  BY DEF EntityInv, GraphTypes
<1>2. Grows(graph, graph') /\ Keys(graph') = Keys(graph)
  BY <1>1, SameRowsGrow DEF Keys
<1>3. /\ KnownRivalsResolved' /\ DOMAIN known' = Keys(graph')
      /\ \A k \in Keys(graph') : known'[k] \subseteq 1..(graph'.next - 1)
  BY <1>1, <1>2, KnownSame
<1>4. CallOK(graph', c)
  BY <1>1, <1>2, CallGrows
<1>5. /\ c.pc \in {"write", "increment", "upsert"} => Shows(graph', c.pool, c.before)
      /\ c.scanned => Shows(graph', c.cache, c.before)
      /\ HoldsOn(graph, docs', c) => HoldsOn(graph', docs', c)
  BY <1>2 DEF Shows, HoldsOn
<1> QED
  BY <1>2, <1>3, <1>4, <1>5, WriterMoves

LEMMA CheckKeeps ==
  ASSUME EntityInv, NEW w \in Writers, NEW ms \in Seq(Memories), NEW many \in BOOLEAN,
         ~many => Len(ms) = 1, Check(w, ms, many)
  PROVE  EntityInv'
<1> DEFINE new == NewAmong(ms)
           c == [Idle EXCEPT !.pc = "record", !.many = many, !.ms = Restrict(ms, new),
                             !.agent = AgentOf[ms[1]], !.i = 1]
<1>1. /\ calls[w] = Idle /\ new # {} /\ calls' = [calls EXCEPT ![w] = c]
      /\ overlapped' = (overlapped \/ Purging)
      /\ UNCHANGED <<graph, docs, purge, known>>
  BY DEF Check, Go
<1>2. DOMAIN ms = 1..Len(ms) /\ Range(ms) \subseteq Memories /\ new \subseteq DOMAIN ms
  BY DEF NewAmong, Range
<1>3. DOMAIN Restrict(ms, new) = new /\ Range(Restrict(ms, new)) \subseteq Range(ms)
  BY <1>2 DEF Restrict, Range
<1>4. /\ DOMAIN c = DOMAIN Idle /\ c.pc = "record" /\ c.many = many /\ c.ms = Restrict(ms, new)
      /\ c.i = 1 /\ c.scanned = FALSE /\ c.cache = <<>> /\ c.pool = <<>> /\ c.before = {}
      /\ c.keyOf = <<>> /\ c.todo = {}
  BY DEF Idle
<1>5. ~many => new = {1}
  BY <1>1, <1>2
<1> HIDE DEF c, new
<1>6. CallOK(graph, c)
  BY <1>2, <1>3, <1>4, <1>5 DEF CallOK, PoolOK, Fed
<1>7. HoldsOn(graph, docs, c)
  BY <1>4 DEF HoldsOn
<1>8. WellFormed(graph) /\ DOMAIN docs = {"memories", "episodes"}
      /\ (~overlapped => EdgesEndIn(graph, docs))
  BY DEF EntityInv, GraphTypes, NoDanglingEdges
<1> QED
  BY <1>1, <1>4, <1>6, <1>7, <1>8, WriterKeepsRows

LEMMA RecordKeeps ==
  ASSUME EntityInv, NEW w \in Writers, Record(w)
  PROVE  EntityInv'
<1> DEFINE c == calls[w]
<1>1. PICK extracted \in SUBSET DOMAIN c.ms, warm \in BOOLEAN :
        LET ms == Restrict(c.ms, extracted)
        IN /\ c.many \/ extracted = DOMAIN c.ms
           /\ Go(w, [c EXCEPT !.pc = IF EntitiesOf(ms) = {} THEN "return" ELSE "look", !.ms = ms,
                              !.ann = warm /\ Cardinality(Keys(graph)) > ScanMax,
                              !.before = Keys(graph)])
  BY DEF Record
<1> DEFINE ms == Restrict(c.ms, extracted)
           d == [c EXCEPT !.pc = IF EntitiesOf(ms) = {} THEN "return" ELSE "look", !.ms = ms,
                          !.ann = warm /\ Cardinality(Keys(graph)) > ScanMax,
                          !.before = Keys(graph)]
<1>2. /\ c.pc = "record" /\ calls' = [calls EXCEPT ![w] = d]
      /\ docs' = [memories |-> docs.memories \cup Range(c.ms),
                  episodes |-> docs.episodes \cup Range(c.ms)]
      /\ UNCHANGED <<graph, purge, known, overlapped>>
  BY <1>1 DEF Record, Go
<1>3. /\ WellFormed(graph) /\ CallOK(graph, c) /\ DOMAIN c = DOMAIN Idle /\ ~c.scanned
      /\ (~overlapped => HoldsOn(graph, docs, c) /\ EdgesEndIn(graph, docs) /\ ~Purging)
  BY <1>2, CallFacts DEF CallOK, Active
<1>4. /\ DOMAIN d = DOMAIN Idle /\ d.pc = (IF EntitiesOf(ms) = {} THEN "return" ELSE "look")
      /\ d.ms = ms /\ d.before = Keys(graph) /\ d.many = c.many /\ d.i = c.i
      /\ d.scanned = c.scanned /\ d.cache = c.cache /\ d.pool = c.pool /\ d.keyOf = c.keyOf
      /\ d.todo = c.todo
  BY <1>3 DEF Idle
<1>5. DOMAIN ms = extracted /\ Range(ms) \subseteq Range(c.ms)
  BY DEF Restrict, Range
<1>6. d.pc \in {"return", "look"} /\ (d.pc = "look" => EntitiesOf(ms) # {})
  BY <1>4
<1> HIDE DEF d, ms
<1>7. ~c.many => DOMAIN ms = {1} /\ c.i = 1
  BY <1>1, <1>2, <1>3, <1>5 DEF CallOK
<1>8. ~c.many /\ d.pc = "look" => c.i \in DOMAIN Says[ms[1]]
  <2> SUFFICES ASSUME ~c.many, EntitiesOf(ms) # {}
               PROVE  1 \in DOMAIN Says[ms[1]]
    BY <1>6, <1>7
  <2>1. PICK e : e \in Range(Says[ms[1]])
    BY <1>7 DEF EntitiesOf
  <2>2. 1 \in DOMAIN ms /\ Range(ms) \subseteq Memories
    BY <1>3, <1>5, <1>7 DEF CallOK
  <2>3. DOMAIN Says[ms[1]] = 1..Len(Says[ms[1]]) /\ Len(Says[ms[1]]) \in Nat
    BY <2>2, SaysEntities
  <2> QED
    BY <2>1, <2>3 DEF Range
<1>9. CallOK(graph, d)
  BY <1>3, <1>4, <1>5, <1>6, <1>7, <1>8 DEF CallOK, PoolOK, Fed, WellFormed
<1>10. docs.memories \subseteq docs'.memories /\ docs.episodes \subseteq docs'.episodes
       /\ DOMAIN docs' = {"memories", "episodes"}
       /\ Range(c.ms) \subseteq docs'.memories \cap docs'.episodes
  BY <1>2
<1>11. HoldsOn(graph, docs, c) => HoldsOn(graph, docs', d)
  BY <1>4, <1>5, <1>6, <1>10 DEF HoldsOn
<1>12. EdgesEndIn(graph, docs) => EdgesEndIn(graph, docs')
  BY <1>10 DEF EdgesEndIn
<1> QED
  BY <1>2, <1>3, <1>4, <1>6, <1>9, <1>10, <1>11, <1>12, WriterKeepsRows

LEMMA SnapshotOK ==
  ASSUME NEW g, WellFormed(g), NEW keys \in SUBSET Keys(g)
  PROVE  /\ DOMAIN Snapshot(g, keys) = keys /\ PoolOK(g, Snapshot(g, keys))
         /\ \A k \in keys : Snapshot(g, keys)[k] = g.rows[k].entity
BY DEF Snapshot, PoolOK, WellFormed

LEMMA LookUpIndexKeeps ==
  ASSUME EntityInv, NEW w \in Writers, LookUpIndex(w)
  PROVE  EntityInv'
<1> DEFINE c == calls[w]
<1>1. PICK keys \in SUBSET Keys(graph) :
        Go(w, [c EXCEPT !.pc = IF c.many THEN "increment" ELSE "write",
                        !.pool = Snapshot(graph, keys), !.before = {}])
  BY DEF LookUpIndex
<1> DEFINE pool == Snapshot(graph, keys)
           d == [c EXCEPT !.pc = IF c.many THEN "increment" ELSE "write",
                          !.pool = pool, !.before = {}]
<1>2. /\ c.pc = "look" /\ calls' = [calls EXCEPT ![w] = d]
      /\ UNCHANGED <<graph, docs, purge, known, overlapped>>
  BY <1>1 DEF LookUpIndex, Go
<1>3. /\ WellFormed(graph) /\ CallOK(graph, c) /\ DOMAIN c = DOMAIN Idle
      /\ DOMAIN docs = {"memories", "episodes"}
      /\ (~overlapped => HoldsOn(graph, docs, c) /\ EdgesEndIn(graph, docs) /\ ~Purging)
  BY <1>2, CallFacts DEF Active
<1>4. /\ DOMAIN d = DOMAIN Idle /\ d.pc = (IF c.many THEN "increment" ELSE "write")
      /\ d.pool = pool /\ d.before = {} /\ d.many = c.many /\ d.ms = c.ms /\ d.i = c.i
      /\ d.scanned = c.scanned /\ d.cache = c.cache /\ d.keyOf = c.keyOf /\ d.todo = c.todo
  BY <1>3 DEF Idle
<1>5. DOMAIN pool = keys /\ PoolOK(graph, pool)
  BY <1>3, SnapshotOK
<1> HIDE DEF d, pool
<1>6. CallOK(graph, d)
  BY <1>2, <1>3, <1>4, <1>5 DEF CallOK, Fed
<1>7. Shows(graph, d.pool, d.before) /\ Shows(graph, d.cache, d.before)
  BY <1>4 DEF Shows
<1>8. HoldsOn(graph, docs, c) => HoldsOn(graph, docs, d)
  BY <1>2, <1>4, <1>5 DEF HoldsOn
<1> QED
  BY <1>2, <1>3, <1>6, <1>7, <1>8, WriterKeepsRows

LEMMA ScanKeeps ==
  ASSUME EntityInv, NEW w \in Writers, Scan(w)
  PROVE  EntityInv'
<1> DEFINE c == calls[w]
           rows == IF c.scanned THEN c.cache ELSE Snapshot(graph, Keys(graph))
           d == [c EXCEPT !.pc = IF c.many THEN "increment" ELSE "write",
                          !.scanned = TRUE, !.cache = rows, !.pool = rows]
<1>2. /\ c.pc = "look" /\ calls' = [calls EXCEPT ![w] = d]
      /\ UNCHANGED <<graph, docs, purge, known, overlapped>>
  BY DEF Scan, Go
<1>3. /\ WellFormed(graph) /\ CallOK(graph, c) /\ DOMAIN c = DOMAIN Idle
      /\ DOMAIN docs = {"memories", "episodes"}
      /\ (c.scanned => Shows(graph, c.cache, c.before))
      /\ (~overlapped => HoldsOn(graph, docs, c) /\ EdgesEndIn(graph, docs) /\ ~Purging)
  BY <1>2, CallFacts DEF Active
<1>4. /\ DOMAIN d = DOMAIN Idle /\ d.pc = (IF c.many THEN "increment" ELSE "write")
      /\ d.pool = rows /\ d.cache = rows /\ d.scanned = TRUE
      /\ d.before = c.before /\ d.many = c.many /\ d.ms = c.ms /\ d.i = c.i
      /\ d.keyOf = c.keyOf /\ d.todo = c.todo
  BY <1>3 DEF Idle
<1>5. PoolOK(graph, rows) /\ Shows(graph, rows, c.before)
      /\ (HoldsOn(graph, docs, c) => DOMAIN rows \subseteq Keys(graph))
  <2>1. CASE c.scanned
    BY <1>3, <2>1 DEF CallOK, HoldsOn
  <2>2. CASE ~c.scanned
    BY <1>3, <2>2, SnapshotOK DEF Shows
  <2> QED
    BY <2>1, <2>2
<1> HIDE DEF d, rows
<1>6. CallOK(graph, d)
  BY <1>2, <1>3, <1>4, <1>5 DEF CallOK, Fed
<1>7. Shows(graph, d.pool, d.before) /\ Shows(graph, d.cache, d.before)
  BY <1>4, <1>5
<1>8. HoldsOn(graph, docs, c) => HoldsOn(graph, docs, d)
  BY <1>2, <1>4, <1>5 DEF HoldsOn
<1> QED
  BY <1>2, <1>3, <1>6, <1>7, <1>8, WriterKeepsRows

(* What is at hand is what the memories at hand say.                         *)
LEMMA AtHandSaid ==
  ASSUME NEW g, NEW c, CallOK(g, c), c.many \/ Fed(c)
  PROVE  AtHand(c) \in SUBSET EntitiesOf(c.ms)
<1>1. CASE c.many
  BY <1>1 DEF AtHand
<1>2. CASE ~c.many
  <2>1. 1 \in DOMAIN c.ms /\ c.i \in DOMAIN Says[c.ms[1]]
    BY <1>2 DEF CallOK, Fed
  <2>2. Says[c.ms[1]][c.i] \in Range(Says[c.ms[1]])
    BY <2>1 DEF Range
  <2> QED
    BY <1>2, <2>1, <2>2 DEF AtHand, EntitiesOf
<1> QED
  BY <1>1, <1>2

(* A statement that settles keys, on a graph with the rows there are.        *)
LEMMA SettleKeeps ==
  ASSUME EntityInv, NEW w \in Writers, NEW g, Settle(w, g), calls[w].pc \in {"write", "upsert"},
         WellFormed(g), SameEdges(graph, g), g.next = graph.next, Keys(g) = Keys(graph),
         \A k \in Keys(graph) : SameRow(graph, g, k)
  PROVE  EntityInv'
<1> DEFINE c == calls[w]
           keyOf == KeysFor(g, c.pool, c.ms, AtHand(c))
           keys == [e \in DOMAIN c.keyOf \cup AtHand(c) |->
                      IF e \in AtHand(c) THEN keyOf[e] ELSE c.keyOf[e]]
           d == [c EXCEPT !.pc = "mention", !.keyOf = keys]
<1>1. /\ graph' = Upsert(g, c.pool, c.ms, AtHand(c), c.agent)
      /\ Learn(c.before) /\ calls' = [calls EXCEPT ![w] = d]
      /\ UNCHANGED <<docs, purge, overlapped>>
  BY DEF Settle, Go
<1>2. /\ WellFormed(graph) /\ CallOK(graph, c) /\ DOMAIN c = DOMAIN Idle
      /\ Shows(graph, c.pool, c.before)
      /\ c.scanned => Shows(graph, c.cache, c.before)
      /\ DOMAIN docs = {"memories", "episodes"}
      /\ ~overlapped => HoldsOn(graph, docs, c) /\ EdgesEndIn(graph, docs) /\ ~Purging
  BY CallFacts DEF Active
<1>3. /\ DOMAIN d = DOMAIN Idle /\ d.pc = "mention" /\ d.keyOf = keys
      /\ d.pool = c.pool /\ d.before = c.before /\ d.many = c.many /\ d.ms = c.ms /\ d.i = c.i
      /\ d.scanned = c.scanned /\ d.cache = c.cache /\ d.todo = c.todo /\ AtHand(d) = AtHand(c)
  BY <1>2 DEF Idle, AtHand
<1>4. /\ AtHand(c) \in SUBSET EntitiesOf(c.ms) /\ Range(c.ms) \subseteq Memories
      /\ DOMAIN c.ms \subseteq Nat /\ PoolOK(graph, c.pool) /\ PoolOK(graph, c.cache)
      /\ c.before \in SUBSET (1..(graph.next - 1))
  BY <1>2, AtHandSaid DEF CallOK, Fed
<1> HIDE DEF d, keyOf
<1>5. /\ DOMAIN keys = DOMAIN c.keyOf \cup AtHand(c)
      /\ \A e \in DOMAIN keys :
           \/ e \in AtHand(c) /\ keys[e] = keyOf[e]
           \/ e \in DOMAIN c.keyOf /\ keys[e] = c.keyOf[e]
  OBVIOUS
<1> HIDE DEF keys
<1>6. /\ WellFormed(graph') /\ SameEdges(g, graph') /\ g.next <= graph'.next
      /\ Keys(g) \subseteq Keys(graph') /\ \A k \in Keys(g) : SameRow(g, graph', k)
      /\ \A k \in Keys(graph') \ Keys(g) :
           Resolved(g, graph', c.pool, k) /\ graph'.rows[k].entity \in Own(c.pool, AtHand(c))
      /\ \A e \in AtHand(c) :
           \/ keyOf[e] \in Keys(graph')
           \/ MergeTarget(c.pool, e) # NoKey /\ keyOf[e] = MergeTarget(c.pool, e)
  <2> HIDE DEF c
  <2> DEFINE h == Upsert(g, c.pool, c.ms, AtHand(c), c.agent)
  <2>1. /\ WellFormed(h) /\ SameEdges(g, h) /\ g.next <= h.next
        /\ Keys(g) \subseteq Keys(h) /\ \A k \in Keys(g) : SameRow(g, h, k)
        /\ \A k \in Keys(h) \ Keys(g) :
             Resolved(g, h, c.pool, k) /\ h.rows[k].entity \in Own(c.pool, AtHand(c))
        /\ \A e \in AtHand(c) :
             \/ keyOf[e] \in Keys(h)
             \/ MergeTarget(c.pool, e) # NoKey /\ keyOf[e] = MergeTarget(c.pool, e)
    BY <1>4, UpsertMakes DEF keyOf
  <2>2. graph' = h
    BY <1>1
  <2> HIDE DEF h
  <2> QED
    BY <2>1, <2>2
<1>7. Grows(graph, graph') /\ SameEdges(graph, graph')
  BY <1>6 DEF Grows, SameEdges, SameRow, Resolved
<1>8. /\ DOMAIN known = Keys(graph) /\ DOMAIN known' = Keys(graph')
      /\ \A k \in Keys(graph') : known'[k] = IF k \in DOMAIN known THEN known[k] ELSE c.before
  BY <1>1 DEF Learn, EntityInv, GraphTypes
<1>9. ASSUME NEW k \in Keys(graph') \ Keys(graph), NEW j \in c.before \cap Keys(graph)
      PROVE  LET near == Similarity[graph'.rows[k].entity][graph.rows[j].entity]
             IN /\ near < MergeThreshold
                /\ near >= FlagThreshold => graph'.rows[k].conflict # NoKey
  <2> DEFINE e == graph'.rows[k].entity
  <2>1. e \in Own(c.pool, AtHand(c)) /\ KeyNamed(g, e) = {}
        /\ graph'.rows[k].conflict = Rival(c.pool, e)
    BY <1>6, <1>9 DEF Resolved
  <2>2. e \in Entities /\ MergeTarget(c.pool, e) = NoKey
    BY <2>1, <1>4, EntitiesOfTyped DEF Own
  <2>3. j \in DOMAIN c.pool /\ c.pool[j] = graph.rows[j].entity
    BY <1>2, <1>9 DEF Shows
  <2>4. g.rows[j].entity # e /\ g.rows[j].entity = graph.rows[j].entity
    BY <2>1, <1>9 DEF KeyNamed, SameRow
  <2> QED
    BY <2>1, <2>2, <2>3, <2>4, <1>2, <1>4, ResolvedAgainst
<1>10. /\ KnownRivalsResolved'
       /\ \A k \in Keys(graph') : known'[k] \subseteq 1..(graph'.next - 1)
  <2>1. GraphTypes /\ KnownRivalsResolved
    BY DEF EntityInv
  <2>2. \A k \in Keys(graph) : known'[k] = known[k]
    BY <1>7, <1>8 DEF Grows
  <2>3. \A k \in Keys(graph') \ Keys(graph) : known'[k] = c.before
    BY <1>8
  <2>4. Grows(graph, graph') /\ DOMAIN known' = Keys(graph') /\ c.before \in SUBSET (1..(graph.next - 1))
    BY <1>4, <1>7, <1>8
  <2> HIDE DEF c
  <2>5. NewOnesSettled(graph, graph', known', c.before)
    BY <2>3, <1>9 DEF NewOnesSettled
  <2> QED
    BY <2>1, <2>2, <2>4, <2>5, KnownGrows
<1>11. CallOK(graph', d)
  <2>1. CallOK(graph', c)
    BY <1>2, <1>7, CallGrows
  <2> QED
    BY <2>1, <1>2, <1>3 DEF CallOK, Fed
<1>12. d.scanned => Shows(graph', d.cache, d.before)
  BY <1>2, <1>3, <1>4, <1>7, ShowsGrows
<1>13. ASSUME ~overlapped PROVE HoldsOn(graph', docs', d) /\ EdgesEndIn(graph', docs')
  <2>1. HoldsOn(graph', docs', c) /\ EdgesEndIn(graph', docs')
    BY <1>1, <1>2, <1>7, <1>13, HoldsGrows, EdgesGrow
  <2>2. \A e \in AtHand(c) : keyOf[e] \in Keys(graph')
    BY <1>4, <1>2, <1>6, <2>1, ResolvedAgainst, EntitiesOfTyped DEF HoldsOn
  <2>3. \A e \in DOMAIN keys : keys[e] \in Keys(graph')
    BY <1>5, <2>1, <2>2 DEF HoldsOn
  <2> QED
    BY <2>1, <2>3, <1>3, <1>5 DEF HoldsOn
<1> QED
  BY <1>1, <1>2, <1>3, <1>7, <1>8, <1>10, <1>11, <1>12, <1>13, WriterMoves

LEMMA WriteKeeps ==
  ASSUME EntityInv, NEW w \in Writers, Write(w)
  PROVE  EntityInv'
BY CallFacts, IncrementKeeps, SettleKeeps DEF Write

LEMMA UpsertManyKeeps ==
  ASSUME EntityInv, NEW w \in Writers, UpsertMany(w)
  PROVE  EntityInv'
BY CallFacts, SettleKeeps DEF UpsertMany, SameEdges, SameRow

LEMMA IncrementManyKeeps ==
  ASSUME EntityInv, NEW w \in Writers, IncrementMany(w)
  PROVE  EntityInv'
<1> DEFINE c == calls[w]
           d == [c EXCEPT !.pc = "upsert"]
<1>1. /\ c.pc = "increment" /\ graph' = Increment(graph, c.pool, c.ms, AtHand(c))
      /\ calls' = [calls EXCEPT ![w] = d] /\ UNCHANGED <<docs, purge, known, overlapped>>
  BY DEF IncrementMany, Go
<1>2. /\ WellFormed(graph) /\ CallOK(graph, c) /\ DOMAIN c = DOMAIN Idle
      /\ Shows(graph, c.pool, c.before) /\ c.before \in SUBSET (1..(graph.next - 1))
      /\ c.scanned => Shows(graph, c.cache, c.before)
      /\ DOMAIN docs = {"memories", "episodes"}
      /\ ~overlapped => HoldsOn(graph, docs, c) /\ EdgesEndIn(graph, docs) /\ ~Purging
  BY <1>1, CallFacts DEF Active, CallOK
<1>3. /\ DOMAIN d = DOMAIN Idle /\ d.pc = "upsert" /\ d.keyOf = c.keyOf
      /\ d.pool = c.pool /\ d.before = c.before /\ d.many = c.many /\ d.ms = c.ms /\ d.i = c.i
      /\ d.scanned = c.scanned /\ d.cache = c.cache /\ d.todo = c.todo
  BY <1>2 DEF Idle
<1> HIDE DEF d
<1>4. /\ WellFormed(graph') /\ SameEdges(graph, graph') /\ graph'.next = graph.next
      /\ Keys(graph') = Keys(graph) /\ \A k \in Keys(graph) : SameRow(graph, graph', k)
  BY <1>1, <1>2, IncrementKeeps
<1>5. Grows(graph, graph')
  BY <1>2, <1>4 DEF Grows, WellFormed
<1>6. /\ KnownRivalsResolved' /\ DOMAIN known' = Keys(graph')
      /\ \A k \in Keys(graph') : known'[k] \subseteq 1..(graph'.next - 1)
  <2>1. GraphTypes /\ KnownRivalsResolved
    BY DEF EntityInv
  <2> QED
    BY <2>1, <1>1, <1>4, <1>5, KnownSame
<1>7. CallOK(graph', d)
  <2>1. CallOK(graph', c)
    BY <1>2, <1>5, CallGrows
  <2> QED
    BY <2>1, <1>1, <1>3 DEF CallOK, Fed
<1>8. /\ Shows(graph', d.pool, d.before)
      /\ d.scanned => Shows(graph', d.cache, d.before)
  BY <1>2, <1>3, <1>5, ShowsGrows
<1>9. ASSUME ~overlapped PROVE HoldsOn(graph', docs', d) /\ EdgesEndIn(graph', docs')
  <2>1. HoldsOn(graph', docs', c) /\ EdgesEndIn(graph', docs')
    BY <1>1, <1>2, <1>4, <1>5, <1>9, HoldsGrows, EdgesGrow
  <2> QED
    BY <2>1, <1>1, <1>3 DEF HoldsOn
<1> QED
  BY <1>1, <1>2, <1>5, <1>6, <1>7, <1>8, <1>9, WriterMoves

LEMMA AddMentionsKeeps ==
  ASSUME EntityInv, NEW w \in Writers, AddMentions(w)
  PROVE  EntityInv'
<1> DEFINE c == calls[w]
           links == Links(c.ms, AtHand(c), c.keyOf)
           mentions == graph.mentions \cup links
           d == [c EXCEPT !.pc = "produce"]
<1>1. /\ c.pc = "mention" /\ graph' = [graph EXCEPT !.mentions = mentions]
      /\ calls' = [calls EXCEPT ![w] = d] /\ UNCHANGED <<docs, purge, known, overlapped>>
  BY DEF AddMentions, Go, Mention
<1>2. /\ WellFormed(graph) /\ CallOK(graph, c) /\ DOMAIN c = DOMAIN Idle
      /\ c.scanned => Shows(graph, c.cache, c.before)
      /\ DOMAIN docs = {"memories", "episodes"}
      /\ ~overlapped => HoldsOn(graph, docs, c) /\ EdgesEndIn(graph, docs) /\ ~Purging
  BY <1>1, CallFacts DEF Active
<1>3. /\ DOMAIN d = DOMAIN Idle /\ d.pc = "produce" /\ d.keyOf = c.keyOf
      /\ d.pool = c.pool /\ d.before = c.before /\ d.many = c.many /\ d.ms = c.ms /\ d.i = c.i
      /\ d.scanned = c.scanned /\ d.cache = c.cache /\ d.todo = c.todo /\ AtHand(d) = AtHand(c)
  BY <1>2 DEF Idle, AtHand
<1> HIDE DEF d, links
<1>4. /\ DOMAIN graph' = DOMAIN EmptyGraph /\ graph'.rows = graph.rows
      /\ graph'.next = graph.next /\ graph'.mentions = mentions
      /\ graph'.produced = graph.produced /\ graph'.relates = graph.relates
  <2> HIDE DEF mentions
  <2> QED
    BY <1>1, <1>2, GraphFields DEF WellFormed
<1>5. WellFormed(graph')
  BY <1>2, <1>4 DEF WellFormed, Keys
<1>6. CallOK(graph, d)
  BY <1>1, <1>2, <1>3 DEF CallOK, Fed
<1>7. ASSUME ~overlapped PROVE HoldsOn(graph, docs', d) /\ EdgesEndIn(graph', docs')
  <2>1. HoldsOn(graph, docs', d)
    BY <1>1, <1>2, <1>3, <1>7 DEF HoldsOn
  <2>2. \A l \in links : l[1] \in docs.memories /\ l[2] \in Keys(graph)
    <3> SUFFICES ASSUME NEW l \in links
                 PROVE  l[1] \in docs.memories /\ l[2] \in Keys(graph)
      OBVIOUS
    <3>1. l[1] \in Range(c.ms) /\ \E e \in AtHand(c) : l[2] = c.keyOf[e]
      BY LinksEnd DEF links
    <3> QED
      BY <3>1, <1>1, <1>2, <1>7 DEF HoldsOn
  <2>3. EdgesEndIn(graph', docs')
    BY <1>1, <1>2, <1>4, <1>7, <2>2 DEF EdgesEndIn, Keys
  <2> QED
    BY <2>1, <2>3
<1> QED
  BY <1>1, <1>2, <1>3, <1>4, <1>5, <1>6, <1>7, WriterKeepsRows

LEMMA AddProducedByKeeps ==
  ASSUME EntityInv, NEW w \in Writers, AddProducedBy(w)
  PROVE  EntityInv'
<1> DEFINE c == calls[w]
           more == ~c.many /\ c.i < Len(Says[c.ms[1]])
           links == Links(c.ms, AtHand(c), c.keyOf)
           produced == graph.produced \cup {<<l[2], l[1]>> : l \in links}
           todo == IF c.many THEN {} ELSE DOMAIN SaidAlone(c)
           onward == [c EXCEPT !.pc = "look", !.i = @ + 1]
           done == [c EXCEPT !.pc = "relate", !.todo = todo]
           d == IF more THEN onward ELSE done
<1>1. /\ c.pc = "produce" /\ graph' = [graph EXCEPT !.produced = produced]
      /\ calls' = [calls EXCEPT ![w] = d] /\ UNCHANGED <<docs, purge, known, overlapped>>
  BY DEF AddProducedBy, Go, Produce
<1>2. /\ WellFormed(graph) /\ CallOK(graph, c) /\ DOMAIN c = DOMAIN Idle
      /\ c.scanned => Shows(graph, c.cache, c.before)
      /\ DOMAIN docs = {"memories", "episodes"}
      /\ ~overlapped => HoldsOn(graph, docs, c) /\ EdgesEndIn(graph, docs) /\ ~Purging
  BY <1>1, CallFacts DEF Active
<1>3. /\ DOMAIN d = DOMAIN Idle /\ d.pc = (IF more THEN "look" ELSE "relate")
      /\ d.keyOf = c.keyOf /\ d.i = (IF more THEN c.i + 1 ELSE c.i)
      /\ d.todo = (IF more THEN c.todo ELSE todo)
      /\ d.pool = c.pool /\ d.before = c.before /\ d.many = c.many /\ d.ms = c.ms
      /\ d.scanned = c.scanned /\ d.cache = c.cache
  <2> HIDE DEF todo, more
  <2> QED
    BY <1>2 DEF Idle
<1> HIDE DEF d, onward, done, links, todo
<1>4. /\ DOMAIN graph' = DOMAIN EmptyGraph /\ graph'.rows = graph.rows
      /\ graph'.next = graph.next /\ graph'.mentions = graph.mentions
      /\ graph'.produced = produced /\ graph'.relates = graph.relates
  <2> HIDE DEF produced
  <2> QED
    BY <1>1, <1>2, GraphFields DEF WellFormed
<1>5. WellFormed(graph')
  BY <1>2, <1>4 DEF WellFormed, Keys
<1>6. CallOK(graph, d)
  <2>1. ASSUME more PROVE c.i + 1 \in DOMAIN Says[c.ms[1]]
    <3>1. 1 \in DOMAIN c.ms /\ Range(c.ms) \subseteq Memories /\ c.i \in DOMAIN Says[c.ms[1]]
      BY <1>1, <1>2, <2>1 DEF CallOK, Fed
    <3>2. DOMAIN Says[c.ms[1]] = 1..Len(Says[c.ms[1]]) /\ Len(Says[c.ms[1]]) \in Nat
      BY <3>1, SaysEntities
    <3> QED
      BY <2>1, <3>1, <3>2
  <2>2. CASE more
    <3>1. d.i \in Nat \ {0} /\ d.i \in DOMAIN Says[d.ms[1]]
      BY <1>1, <1>2, <1>3, <2>1, <2>2 DEF CallOK
    <3>2. d.pc = "look"
      BY <1>3, <2>2
    <3> QED
      BY <1>1, <1>2, <1>3, <3>1, <3>2 DEF CallOK
  <2>3. CASE ~more
    <3>1. d.pc = "relate" /\ d.i = c.i
      BY <1>3, <2>3
    <3> QED
      BY <1>1, <1>2, <1>3, <3>1 DEF CallOK, Fed
  <2> QED
    BY <2>2, <2>3
<1>7. ASSUME ~overlapped PROVE HoldsOn(graph, docs', d) /\ EdgesEndIn(graph', docs')
  <2>1. \A p \in todo : {p[1], p[2]} \subseteq Keys(graph)
    BY <1>2, <1>7, PairsEnd DEF todo, SaidAlone, HoldsOn
  <2>2. HoldsOn(graph, docs', d)
    BY <1>1, <1>2, <1>3, <1>7, <2>1 DEF HoldsOn
  <2>3. \A l \in links : l[1] \in docs.episodes /\ l[2] \in Keys(graph)
    <3> SUFFICES ASSUME NEW l \in links
                 PROVE  l[1] \in docs.episodes /\ l[2] \in Keys(graph)
      OBVIOUS
    <3>1. l[1] \in Range(c.ms) /\ \E e \in AtHand(c) : l[2] = c.keyOf[e]
      BY LinksEnd DEF links
    <3> QED
      BY <3>1, <1>1, <1>2, <1>7 DEF HoldsOn
  <2>4. \A l \in produced : l[2] \in docs.episodes /\ l[1] \in Keys(graph)
    BY <1>2, <1>7, <2>3 DEF EdgesEndIn
  <2>5. EdgesEndIn(graph', docs')
    BY <1>1, <1>2, <1>4, <1>7, <2>4 DEF EdgesEndIn, Keys
  <2> QED
    BY <2>2, <2>5
<1>8. d.pc \notin {"write", "increment", "upsert"}
  BY <1>3
<1> QED
  BY <1>1, <1>2, <1>3, <1>4, <1>5, <1>6, <1>7, <1>8, WriterKeepsRows

LEMMA RelateOneKeeps ==
  ASSUME EntityInv, NEW w \in Writers, RelateOne(w)
  PROVE  EntityInv'
<1> DEFINE c == calls[w]
<1>1. PICK p \in c.todo : /\ graph' = Relate(graph, c.ms, <<Restrict(SaidAlone(c), {p})>>)
                          /\ Go(w, [c EXCEPT !.todo = @ \ {p}])
  BY DEF RelateOne
<1> DEFINE said == <<Restrict(SaidAlone(c), {p})>>
           d == [c EXCEPT !.todo = @ \ {p}]
<1>2. /\ c.pc = "relate" /\ graph' = Relate(graph, c.ms, said)
      /\ calls' = [calls EXCEPT ![w] = d] /\ UNCHANGED <<docs, purge, known, overlapped>>
  BY <1>1 DEF RelateOne, Go
<1>3. /\ WellFormed(graph) /\ CallOK(graph, c) /\ DOMAIN c = DOMAIN Idle
      /\ c.scanned => Shows(graph, c.cache, c.before)
      /\ DOMAIN docs = {"memories", "episodes"}
      /\ ~overlapped => HoldsOn(graph, docs, c) /\ EdgesEndIn(graph, docs) /\ ~Purging
  BY <1>2, CallFacts DEF Active
<1>4. /\ DOMAIN d = DOMAIN Idle /\ d.pc = "relate" /\ d.keyOf = c.keyOf
      /\ d.pool = c.pool /\ d.before = c.before /\ d.many = c.many /\ d.ms = c.ms /\ d.i = c.i
      /\ d.scanned = c.scanned /\ d.cache = c.cache /\ d.todo = c.todo \ {p}
  BY <1>2, <1>3 DEF Idle
<1>5. UNION {DOMAIN said[i] : i \in DOMAIN said} \subseteq {p}
  <2>1. DOMAIN said = {1} /\ said[1] = Restrict(SaidAlone(c), {p})
    OBVIOUS
  <2>2. DOMAIN Restrict(SaidAlone(c), {p}) = {p}
    BY DEF Restrict
  <2> QED
    BY <2>1, <2>2
<1> HIDE DEF d, said
<1>6. /\ WellFormed(graph') /\ graph'.rows = graph.rows /\ graph'.next = graph.next
      /\ graph'.mentions = graph.mentions /\ graph'.produced = graph.produced
      /\ DOMAIN graph'.relates \subseteq DOMAIN graph.relates \cup {p}
  BY <1>2, <1>3, <1>5, RelateAdds
<1>7. CallOK(graph, d)
  BY <1>2, <1>3, <1>4 DEF CallOK, Fed
<1>8. ASSUME ~overlapped PROVE HoldsOn(graph, docs', d) /\ EdgesEndIn(graph', docs')
  <2>1. {p[1], p[2]} \subseteq Keys(graph)
    BY <1>1, <1>3, <1>8 DEF HoldsOn
  <2> QED
    BY <1>2, <1>3, <1>4, <1>6, <1>8, <2>1 DEF HoldsOn, EdgesEndIn, Keys
<1> QED
  BY <1>2, <1>3, <1>4, <1>6, <1>7, <1>8, WriterKeepsRows

LEMMA RelateManyKeeps ==
  ASSUME EntityInv, NEW w \in Writers, RelateMany(w)
  PROVE  EntityInv'
<1> DEFINE c == calls[w]
           standing == Standing(c.ms, Merged(c.pool, EntitiesOf(c.ms)))
           said == [i \in DOMAIN c.ms |-> PairsOf(c.ms[i], standing, c.keyOf)]
           d == [c EXCEPT !.pc = "return"]
<1>2. /\ c.pc = "relate" /\ graph' = Relate(graph, c.ms, said)
      /\ calls' = [calls EXCEPT ![w] = d] /\ UNCHANGED <<docs, purge, known, overlapped>>
  BY DEF RelateMany, RelateBatch, Go
<1>3. /\ WellFormed(graph) /\ CallOK(graph, c) /\ DOMAIN c = DOMAIN Idle
      /\ c.scanned => Shows(graph, c.cache, c.before)
      /\ DOMAIN docs = {"memories", "episodes"}
      /\ ~overlapped => HoldsOn(graph, docs, c) /\ EdgesEndIn(graph, docs) /\ ~Purging
  BY <1>2, CallFacts DEF Active
<1>4. /\ DOMAIN d = DOMAIN Idle /\ d.pc = "return" /\ d.keyOf = c.keyOf
      /\ d.pool = c.pool /\ d.before = c.before /\ d.many = c.many /\ d.ms = c.ms /\ d.i = c.i
      /\ d.scanned = c.scanned /\ d.cache = c.cache /\ d.todo = c.todo
  BY <1>3 DEF Idle
<1> DEFINE pairs == UNION {DOMAIN said[i] : i \in DOMAIN said}
<1>5. \A p \in pairs : \E m : p \in DOMAIN PairsOf(m, standing, c.keyOf)
  OBVIOUS
<1> HIDE DEF d, said, standing
<1>6. /\ WellFormed(graph') /\ graph'.rows = graph.rows /\ graph'.next = graph.next
      /\ graph'.mentions = graph.mentions /\ graph'.produced = graph.produced
      /\ DOMAIN graph'.relates = DOMAIN graph.relates \cup pairs
  BY <1>2, <1>3, RelateAdds
<1> HIDE DEF pairs
<1>7. CallOK(graph, d)
  BY <1>2, <1>3, <1>4 DEF CallOK, Fed
<1>8. ASSUME ~overlapped PROVE HoldsOn(graph, docs', d) /\ EdgesEndIn(graph', docs')
  <2>1. \A e \in DOMAIN c.keyOf : c.keyOf[e] \in Keys(graph)
    BY <1>3, <1>8 DEF HoldsOn
  <2>2. \A p \in pairs : {p[1], p[2]} \subseteq Keys(graph)
    BY <1>3, <1>5, <2>1, PairsEnd
  <2> QED
    BY <1>2, <1>3, <1>4, <1>6, <1>8, <2>2 DEF HoldsOn, EdgesEndIn, Keys
<1> QED
  BY <1>2, <1>3, <1>4, <1>6, <1>7, <1>8, WriterKeepsRows

(* A call that returns or dies leaves an idle writer.                        *)
LEMMA LeavesKeep ==
  ASSUME EntityInv, NEW w \in Writers, Return(w) \/ Crash(w)
  PROVE  EntityInv'
<1>1. /\ Active(w) /\ calls' = [calls EXCEPT ![w] = Idle]
      /\ UNCHANGED <<graph, docs, purge, known, overlapped>>
  BY DEF Return, Crash, Go, Active
<1>2. /\ WellFormed(graph) /\ DOMAIN docs = {"memories", "episodes"}
      /\ ~overlapped => EdgesEndIn(graph, docs) /\ ~Purging
  BY <1>1, CallFacts
<1>3. /\ DOMAIN Idle.ms = {} /\ Range(Idle.ms) = {} /\ DOMAIN Idle.pool = {}
      /\ DOMAIN Idle.cache = {} /\ DOMAIN Idle.keyOf = {} /\ Idle.todo = {} /\ Idle.before = {}
      /\ Idle.pc = "idle" /\ ~Idle.scanned
  BY DEF Idle, Range
<1>4. CallOK(graph, Idle) /\ HoldsOn(graph, docs, Idle)
  BY <1>3 DEF CallOK, PoolOK, HoldsOn, Fed
<1> QED
  BY <1>1, <1>2, <1>3, <1>4, WriterKeepsRows

-----------------------------------------------------------------------------
(* Seeds and purges: the writers stay where they are.                        *)

LEMMA SeedStepKeeps ==
  ASSUME EntityInv, NEW s \in Seeds, Seed(s[1], s[2])
  PROVE  EntityInv'
<1>1. /\ graph' = SeedUpsert(graph, s[1], s[2]) /\ Learn({})
      /\ overlapped' = (overlapped \/ Purging) /\ UNCHANGED <<docs, calls, purge>>
  BY DEF Seed
<1>2. s[1] \in Entities
  BY MemoriesAssumption
<1>3. /\ GraphTypes /\ RivalsInSight /\ KnownRivalsResolved /\ WritersHold /\ NoDanglingEdges
      /\ WellFormed(graph) /\ DOMAIN known = Keys(graph)
      /\ \A w \in Writers : CallOK(graph, calls[w]) /\ calls[w].before \in SUBSET (1..(graph.next - 1))
  BY DEF EntityInv, GraphTypes, CallOK
<1>4. Grows(graph, graph') /\ SameEdges(graph, graph')
  BY <1>1, <1>2, <1>3, SeedKeeps DEF Grows
<1>5. /\ DOMAIN known' = Keys(graph')
      /\ \A k \in Keys(graph') : known'[k] = IF k \in DOMAIN known THEN known[k] ELSE {}
  BY <1>1 DEF Learn
<1>6. /\ KnownRivalsResolved'
      /\ \A k \in Keys(graph') : known'[k] \subseteq 1..(graph'.next - 1)
  <2>1. \A k \in Keys(graph) : known'[k] = known[k]
    BY <1>3, <1>4, <1>5 DEF Grows
  <2>2. \A k \in Keys(graph') \ Keys(graph) : known'[k] = {}
    BY <1>3, <1>5
  <2>3. {} \in SUBSET (1..(graph.next - 1))
    OBVIOUS
  <2>4. NewOnesSettled(graph, graph', known', {})
    BY <2>2 DEF NewOnesSettled
  <2> QED
    BY <2>1, <2>3, <2>4, <1>3, <1>4, <1>5, KnownGrows
<1>7. GraphTypes'
  <2>1. \A w \in Writers : CallOK(graph', calls[w])
    BY <1>3, <1>4, CallGrows
  <2> QED
    BY <2>1, <1>1, <1>3, <1>4, <1>5, <1>6 DEF GraphTypes, Grows
<1>8. RivalsInSight'
  BY <1>1, <1>3, <1>4, ShowsGrows DEF RivalsInSight
<1>9. WritersHold'
  BY <1>1, <1>3, <1>4, HoldsGrows DEF WritersHold
<1>10. PurgeAlone'
  BY <1>1 DEF PurgeAlone, Purging
<1>11. NoDanglingEdges'
  BY <1>1, <1>3, <1>4, EdgesGrow DEF NoDanglingEdges
<1> QED
  BY <1>6, <1>7, <1>8, <1>9, <1>10, <1>11 DEF EntityInv

LEMMA PlanLength == Len(PurgePlan) = 9
BY DEF PurgePlan

LEMMA PlanSteps ==
  /\ PurgePlan[1] = "collect memories" /\ PurgePlan[2] = "collect entities"
  /\ PurgePlan[3] = "collect episodes" /\ PurgePlan[4] = "mentions"
  /\ PurgePlan[5] = "relates_to" /\ PurgePlan[6] = "produced_by"
  /\ PurgePlan[7] = "memories" /\ PurgePlan[8] = "entities" /\ PurgePlan[9] = "episodes"
BY DEF PurgePlan

LEMMA PurgeTurnsKeep ==
  ASSUME EntityInv, (\E scope \in PurgeScopes : PurgeStart(scope)) \/ PurgeCrash
  PROVE  EntityInv'
<1>1. /\ UNCHANGED <<graph, docs, calls, known>> /\ (overlapped => overlapped')
      /\ DOMAIN purge' = {"step", "scope", "ids", "keys", "count"}
      /\ \/ purge'.step = 0
         \/ purge'.step = 1 /\ (~overlapped' => \A w \in Writers : ~Active(w))
  <2>1. DOMAIN purge = {"step", "scope", "ids", "keys", "count"}
    BY DEF EntityInv, GraphTypes
  <2>2. CASE PurgeCrash
    BY <2>1, <2>2 DEF PurgeCrash
  <2>3. CASE \E scope \in PurgeScopes : PurgeStart(scope)
    <3>1. PICK scope \in PurgeScopes : PurgeStart(scope)
      BY <2>3
    <3>2. /\ UNCHANGED <<graph, docs, calls, known>>
          /\ purge' = [step |-> 1, scope |-> scope, ids |-> {}, keys |-> {},
                       count |-> purge.count + 1]
      BY <3>1 DEF PurgeStart
    <3>3. overlapped' = (overlapped \/ \E w \in Writers : Active(w))
      BY <3>1 DEF PurgeStart
    <3>4. DOMAIN purge' = {"step", "scope", "ids", "keys", "count"} /\ purge'.step = 1
      BY <3>2
    <3> QED
      BY <3>2, <3>3, <3>4
  <2> QED
    BY <2>2, <2>3
<1>2. GraphTypes'
  <2>1. GraphTypes /\ purge'.step \in 0..Len(PurgePlan)
    BY <1>1, PlanLength DEF EntityInv
  <2> QED
    BY <2>1, <1>1 DEF GraphTypes
<1>3. RivalsInSight' /\ KnownRivalsResolved' /\ WritersHold' /\ NoDanglingEdges'
  BY <1>1 DEF EntityInv, RivalsInSight, KnownRivalsResolved, WritersHold, NoDanglingEdges
<1>4. PurgeAlone'
  BY <1>1 DEF PurgeAlone, Purging, Active, ScopeCollected, EdgesRemoved, DocsRemoved
<1> QED
  BY <1>2, <1>3, <1>4 DEF EntityInv

(* What a purge removes disturbs no writer's record.                         *)
LEMMA PurgeShrinks ==
  ASSUME EntityInv, Purging, calls' = calls, overlapped' = overlapped,
         WellFormed(graph'), graph'.next = graph.next, Keys(graph') \subseteq Keys(graph),
         \A k \in Keys(graph') : graph'.rows[k] = graph.rows[k],
         DOMAIN docs' = {"memories", "episodes"},
         DOMAIN known' = Keys(graph'), \A k \in Keys(graph') : known'[k] = known[k],
         DOMAIN purge' = DOMAIN purge, purge'.step \in 0..Len(PurgePlan)
  PROVE  /\ GraphTypes' /\ RivalsInSight' /\ KnownRivalsResolved' /\ WritersHold'
         /\ ~overlapped' => \A w \in Writers : ~Active(w)'
<1>1. /\ GraphTypes /\ RivalsInSight /\ KnownRivalsResolved /\ PurgeAlone
  BY DEF EntityInv
<1>2. \A w \in Writers : CallOK(graph', calls'[w])
  BY <1>1 DEF GraphTypes, CallOK, PoolOK
<1>3. GraphTypes'
  BY <1>1, <1>2 DEF GraphTypes
<1>4. RivalsInSight'
  BY <1>1 DEF RivalsInSight, Shows
<1>5. KnownRivalsResolved'
  BY <1>1 DEF KnownRivalsResolved
<1>6. ~overlapped' => \A w \in Writers : ~Active(w)' /\ calls'[w] = Idle
  BY <1>1 DEF PurgeAlone, Active, GraphTypes, CallOK
<1>7. WritersHold'
  <2>1. /\ DOMAIN Idle.pool = {} /\ DOMAIN Idle.cache = {} /\ DOMAIN Idle.keyOf = {}
        /\ Idle.todo = {} /\ Idle.pc = "idle"
    BY DEF Idle
  <2> QED
    BY <1>6, <2>1 DEF WritersHold, HoldsOn
<1> QED
  BY <1>3, <1>4, <1>5, <1>6, <1>7

LEMMA CollectKeeps ==
  ASSUME EntityInv, Purging, purge.step \in 1..3, PurgeStep
  PROVE  EntityInv'
<1>1. /\ UNCHANGED <<graph, docs, known, calls, overlapped>> /\ Collect(PurgePlan[purge.step])
  <2>1. PurgePlan[purge.step] \in {"collect memories", "collect entities", "collect episodes"}
    <3>1. purge.step = 1 \/ purge.step = 2 \/ purge.step = 3
      OBVIOUS
    <3> QED
      BY <3>1, PlanSteps
  <2>2. UNCHANGED <<calls, overlapped>> /\ Collect(PurgePlan[purge.step])
    BY <2>1 DEF PurgeStep
  <2> QED
    BY <2>2 DEF Collect
<1>2. /\ GraphTypes /\ WellFormed(graph) /\ NoDanglingEdges
      /\ ~overlapped => \A w \in Writers : ~Active(w)
      /\ ~overlapped => ScopeCollected
  BY DEF EntityInv, GraphTypes, PurgeAlone
<1>3. /\ DOMAIN purge' = DOMAIN purge /\ purge'.step = purge.step + 1 /\ purge'.scope = purge.scope
      /\ purge.step = 1 => purge'.ids = DocsInScope("memories")
      /\ purge.step = 2 => purge'.ids = purge.ids /\ purge'.keys = EntitiesInScope
      /\ purge.step = 3 => /\ purge'.ids = purge.ids \cup DocsInScope("episodes")
                           /\ purge'.keys = purge.keys
  <2>1. DOMAIN purge = {"step", "scope", "ids", "keys", "count"} /\ purge.step \in Nat
    BY <1>2, PlanLength DEF GraphTypes
  <2>2. CASE purge.step = 1
    <3>1. purge' = [purge EXCEPT !.step = @ + 1, !.ids = DocsInScope("memories")]
      BY <1>1, <2>2, PlanSteps DEF Collect
    <3> QED
      BY <2>1, <2>2, <3>1
  <2>3. CASE purge.step = 2
    <3>1. purge' = [purge EXCEPT !.step = @ + 1, !.keys = EntitiesInScope]
      BY <1>1, <2>3, PlanSteps DEF Collect
    <3> QED
      BY <2>1, <2>3, <3>1
  <2>4. CASE purge.step = 3
    <3>1. purge' = [purge EXCEPT !.step = @ + 1, !.ids = @ \cup DocsInScope("episodes")]
      BY <1>1, <2>4, PlanSteps DEF Collect
    <3> QED
      BY <2>1, <2>4, <3>1
  <2> QED
    BY <2>2, <2>3, <2>4
<1>4. /\ GraphTypes' /\ RivalsInSight' /\ KnownRivalsResolved' /\ WritersHold'
      /\ ~overlapped' => \A w \in Writers : ~Active(w)'
  <2>1. purge'.step \in 0..Len(PurgePlan)
    BY <1>3, PlanLength
  <2>2. /\ DOMAIN docs = {"memories", "episodes"} /\ DOMAIN known = Keys(graph)
    BY <1>2 DEF GraphTypes
  <2> QED
    BY <1>1, <1>2, <1>3, <2>1, <2>2, PurgeShrinks
<1>5. /\ DocsInScope("memories")' = DocsInScope("memories")
      /\ DocsInScope("episodes")' = DocsInScope("episodes")
      /\ EntitiesInScope' = EntitiesInScope
  BY <1>1, <1>3 DEF DocsInScope, EntitiesInScope, MemoriesOf, InScope
<1>6. ~overlapped' => ScopeCollected' /\ EdgesRemoved' /\ DocsRemoved'
  BY <1>1, <1>2, <1>3, <1>5 DEF ScopeCollected, EdgesRemoved, DocsRemoved
<1>7. NoDanglingEdges'
  BY <1>1, <1>2 DEF NoDanglingEdges
<1> QED
  BY <1>4, <1>6, <1>7 DEF EntityInv, PurgeAlone

(* What an undisturbed purge knows before each of its steps.                 *)
LEMMA PurgeFacts ==
  ASSUME EntityInv, Purging
  PROVE  /\ GraphTypes /\ WellFormed(graph) /\ DOMAIN docs = {"memories", "episodes"}
         /\ DOMAIN known = Keys(graph)
         /\ DOMAIN purge = {"step", "scope", "ids", "keys", "count"} /\ purge.step \in 1..9
         /\ ~overlapped => /\ \A w \in Writers : ~Active(w)
                           /\ ScopeCollected /\ EdgesRemoved /\ DocsRemoved
                           /\ EdgesEndIn(graph, docs)
BY PlanLength DEF EntityInv, GraphTypes, PurgeAlone, NoDanglingEdges, Purging

LEMMA RemoveEdgesKeeps ==
  ASSUME EntityInv, Purging, purge.step \in 4..6, PurgeStep
  PROVE  EntityInv'
<1> DEFINE mentions == {l \in graph.mentions : <<"memories", l[1]>> \notin purge.ids
                                                /\ l[2] \notin purge.keys}
           relates == [p \in {q \in DOMAIN graph.relates : {q[1], q[2]} \cap purge.keys = {}}
                         |-> graph.relates[p]]
           produced == {l \in graph.produced : <<"episodes", l[2]>> \notin purge.ids
                                                /\ l[1] \notin purge.keys}
<1>0. purge.step = 4 \/ purge.step = 5 \/ purge.step = 6
  OBVIOUS
<1>1. /\ UNCHANGED <<calls, overlapped, docs, known>> /\ RemoveEdges(PurgePlan[purge.step])
  <2>1. PurgePlan[purge.step] \in {"mentions", "relates_to", "produced_by"}
    BY <1>0, PlanSteps
  <2>2. UNCHANGED <<calls, overlapped>> /\ RemoveEdges(PurgePlan[purge.step])
    BY <2>1 DEF PurgeStep
  <2> QED
    BY <2>2 DEF RemoveEdges
<1>2. /\ WellFormed(graph) /\ DOMAIN docs = {"memories", "episodes"} /\ DOMAIN known = Keys(graph)
      /\ DOMAIN purge = {"step", "scope", "ids", "keys", "count"}
      /\ ~overlapped => /\ ScopeCollected /\ EdgesRemoved /\ DocsRemoved /\ EdgesEndIn(graph, docs)
  BY PurgeFacts
<1>3. /\ DOMAIN purge' = DOMAIN purge /\ purge'.step = purge.step + 1 /\ purge'.scope = purge.scope
      /\ purge'.ids = purge.ids /\ purge'.keys = purge.keys
  BY <1>1, <1>2 DEF RemoveEdges
<1>4. /\ purge.step = 4 => graph' = [graph EXCEPT !.mentions = mentions]
      /\ purge.step = 5 => graph' = [graph EXCEPT !.relates = relates]
      /\ purge.step = 6 => graph' = [graph EXCEPT !.produced = produced]
  BY <1>1, PlanSteps DEF RemoveEdges
<1>5. /\ \A l \in mentions : l \in graph.mentions /\ <<"memories", l[1]>> \notin purge.ids
                             /\ l[2] \notin purge.keys
      /\ DOMAIN relates \subseteq DOMAIN graph.relates
      /\ \A p \in DOMAIN relates : {p[1], p[2]} \cap purge.keys = {}
      /\ \A l \in produced : l \in graph.produced /\ <<"episodes", l[2]>> \notin purge.ids
                             /\ l[1] \notin purge.keys
  OBVIOUS
<1> HIDE DEF mentions, relates, produced
<1>6. /\ DOMAIN graph' = DOMAIN EmptyGraph /\ graph'.rows = graph.rows /\ graph'.next = graph.next
      /\ graph'.mentions = IF purge.step = 4 THEN mentions ELSE graph.mentions
      /\ graph'.relates = IF purge.step = 5 THEN relates ELSE graph.relates
      /\ graph'.produced = IF purge.step = 6 THEN produced ELSE graph.produced
  <2>1. DOMAIN graph = DOMAIN EmptyGraph
    BY <1>2 DEF WellFormed
  <2>2. CASE purge.step = 4
    <3>1. graph' = [graph EXCEPT !.mentions = mentions]
      BY <1>4, <2>2
    <3>2. /\ DOMAIN graph' = DOMAIN EmptyGraph /\ graph'.rows = graph.rows /\ graph'.next = graph.next
          /\ graph'.mentions = mentions /\ graph'.produced = graph.produced
          /\ graph'.relates = graph.relates
      BY <2>1, <3>1, GraphFields
    <3> QED
      BY <2>2, <3>2
  <2>3. CASE purge.step = 5
    <3>1. graph' = [graph EXCEPT !.relates = relates]
      BY <1>4, <2>3
    <3>2. /\ DOMAIN graph' = DOMAIN EmptyGraph /\ graph'.rows = graph.rows /\ graph'.next = graph.next
          /\ graph'.mentions = graph.mentions /\ graph'.produced = graph.produced
          /\ graph'.relates = relates
      BY <2>1, <3>1, GraphFields
    <3> QED
      BY <2>3, <3>2
  <2>4. CASE purge.step = 6
    <3>1. graph' = [graph EXCEPT !.produced = produced]
      BY <1>4, <2>4
    <3>2. /\ DOMAIN graph' = DOMAIN EmptyGraph /\ graph'.rows = graph.rows /\ graph'.next = graph.next
          /\ graph'.mentions = graph.mentions /\ graph'.produced = produced
          /\ graph'.relates = graph.relates
      BY <2>1, <3>1, GraphFields
    <3> QED
      BY <2>4, <3>2
  <2> QED
    BY <1>0, <2>2, <2>3, <2>4
<1>7. WellFormed(graph') /\ Keys(graph') = Keys(graph)
  BY <1>2, <1>6 DEF WellFormed, Keys
<1>8. /\ GraphTypes' /\ RivalsInSight' /\ KnownRivalsResolved' /\ WritersHold'
      /\ ~overlapped' => \A w \in Writers : ~Active(w)'
  <2>1. purge'.step \in 0..Len(PurgePlan)
    BY <1>0, <1>3, PlanLength
  <2> QED
    BY <1>1, <1>2, <1>3, <1>6, <1>7, <2>1, PurgeShrinks
<1>9. /\ DocsInScope("memories")' = DocsInScope("memories")
      /\ DocsInScope("episodes")' = DocsInScope("episodes")
      /\ EntitiesInScope' = EntitiesInScope
  BY <1>1, <1>3, <1>6, <1>7 DEF DocsInScope, EntitiesInScope, MemoriesOf, InScope
<1>10. ASSUME ~overlapped PROVE ScopeCollected' /\ EdgesRemoved' /\ DocsRemoved'
  <2>1. ScopeCollected'
    BY <1>0, <1>2, <1>3, <1>9, <1>10 DEF ScopeCollected
  <2>2. EdgesRemoved'
    BY <1>0, <1>2, <1>3, <1>5, <1>6, <1>10 DEF EdgesRemoved
  <2>3. DocsRemoved'
    BY <1>0, <1>3 DEF DocsRemoved
  <2> QED
    BY <2>1, <2>2, <2>3
<1>11. NoDanglingEdges'
  BY <1>1, <1>2, <1>5, <1>6, <1>7 DEF NoDanglingEdges, EdgesEndIn
<1> QED
  BY <1>1, <1>8, <1>10, <1>11 DEF EntityInv, PurgeAlone

(* Documents of the scope go when no edge touches them.                       *)
LEMMA RemoveDocsKeeps ==
  ASSUME EntityInv, Purging, purge.step \in {7, 9}, PurgeStep
  PROVE  EntityInv'
<1> DEFINE what == IF purge.step = 7 THEN "memories" ELSE "episodes"
           next == IF purge.step = 7 THEN 8 ELSE 0
<1>1. /\ UNCHANGED <<calls, overlapped>> /\ RemoveDocuments(what) /\ PurgePlan[purge.step] = what
  <2>1. PurgePlan[purge.step] = what
    BY PlanSteps
  <2> QED
    BY <2>1 DEF PurgeStep
<1>2. /\ WellFormed(graph) /\ DOMAIN docs = {"memories", "episodes"} /\ DOMAIN known = Keys(graph)
      /\ DOMAIN purge = {"step", "scope", "ids", "keys", "count"}
      /\ ~overlapped => /\ ScopeCollected /\ EdgesRemoved /\ DocsRemoved /\ EdgesEndIn(graph, docs)
  BY PurgeFacts
<1>3. /\ docs' = [docs EXCEPT ![what] = @ \ MemoriesOf(@)] /\ UNCHANGED <<graph, known>>
      /\ purge' = [purge EXCEPT !.step = next]
  BY <1>1, PlanLength DEF RemoveDocuments
<1>4. /\ DOMAIN docs' = {"memories", "episodes"}
      /\ docs'.memories = IF what = "memories" THEN docs.memories \ MemoriesOf(docs.memories)
                          ELSE docs.memories
      /\ docs'.episodes = IF what = "episodes" THEN docs.episodes \ MemoriesOf(docs.episodes)
                          ELSE docs.episodes
      /\ DOMAIN purge' = DOMAIN purge /\ purge'.step = next
      /\ purge'.scope = purge.scope /\ purge'.ids = purge.ids /\ purge'.keys = purge.keys
  BY <1>2, <1>3
<1>5. /\ GraphTypes' /\ RivalsInSight' /\ KnownRivalsResolved' /\ WritersHold'
      /\ ~overlapped' => \A w \in Writers : ~Active(w)'
  <2>1. purge'.step \in 0..Len(PurgePlan)
    BY <1>4, PlanLength
  <2> QED
    BY <1>1, <1>2, <1>3, <1>4, <2>1, PurgeShrinks
<1>6. /\ DocsInScope("memories")' \subseteq DocsInScope("memories")
      /\ DocsInScope("episodes")' \subseteq DocsInScope("episodes")
      /\ EntitiesInScope' = EntitiesInScope
      /\ what = "memories" => DocsInScope("memories")' = {}
  BY <1>3, <1>4 DEF DocsInScope, EntitiesInScope, MemoriesOf, InScope
<1>7. ASSUME ~overlapped, purge'.step > 0 PROVE ScopeCollected' /\ EdgesRemoved' /\ DocsRemoved'
  BY <1>2, <1>3, <1>4, <1>6, <1>7 DEF ScopeCollected, EdgesRemoved, DocsRemoved
<1>8. ASSUME ~overlapped PROVE EdgesEndIn(graph', docs')
  <2>1. \A l \in graph.mentions : l[1] \in docs'.memories
    <3> SUFFICES ASSUME NEW l \in graph.mentions, what = "memories", l[1] \in MemoriesOf(docs.memories)
                 PROVE  FALSE
      BY <1>2, <1>4, <1>8 DEF EdgesEndIn
    <3>1. <<"memories", l[1]>> \in DocsInScope("memories")
      BY DEF DocsInScope
    <3> QED
      BY <3>1, <1>2, <1>8 DEF ScopeCollected, EdgesRemoved
  <2>2. \A l \in graph.produced : l[2] \in docs'.episodes
    <3> SUFFICES ASSUME NEW l \in graph.produced, what = "episodes", l[2] \in MemoriesOf(docs.episodes)
                 PROVE  FALSE
      BY <1>2, <1>4, <1>8 DEF EdgesEndIn
    <3>1. <<"episodes", l[2]>> \in DocsInScope("episodes")
      BY DEF DocsInScope
    <3> QED
      BY <3>1, <1>2, <1>8 DEF ScopeCollected, EdgesRemoved
  <2> QED
    BY <1>2, <1>3, <1>8, <2>1, <2>2 DEF EdgesEndIn
<1> QED
  BY <1>1, <1>5, <1>7, <1>8 DEF EntityInv, PurgeAlone, NoDanglingEdges, Purging

LEMMA RemoveEntitiesKeeps ==
  ASSUME EntityInv, Purging, purge.step = 8, PurgeStep
  PROVE  EntityInv'
<1> DEFINE kept == Keys(graph) \ EntitiesInScope
           rows == [k \in kept |-> graph.rows[k]]
<1>1. /\ UNCHANGED <<calls, overlapped>> /\ RemoveDocuments("entities")
  BY PlanSteps DEF PurgeStep
<1>2. /\ WellFormed(graph) /\ DOMAIN docs = {"memories", "episodes"} /\ DOMAIN known = Keys(graph)
      /\ DOMAIN purge = {"step", "scope", "ids", "keys", "count"}
      /\ ~overlapped => /\ ScopeCollected /\ EdgesRemoved /\ DocsRemoved /\ EdgesEndIn(graph, docs)
  BY PurgeFacts
<1>3. /\ graph' = [graph EXCEPT !.rows = rows] /\ docs' = docs
      /\ known' = [k \in kept |-> known[k]] /\ purge' = [purge EXCEPT !.step = 9]
  BY <1>1, PlanLength DEF RemoveDocuments
<1>4. DOMAIN rows = kept /\ \A k \in kept : rows[k] = graph.rows[k]
  OBVIOUS
<1> HIDE DEF rows
<1>5. /\ DOMAIN graph' = DOMAIN EmptyGraph /\ graph'.rows = rows /\ graph'.next = graph.next
      /\ graph'.mentions = graph.mentions /\ graph'.produced = graph.produced
      /\ graph'.relates = graph.relates
  BY <1>2, <1>3, GraphFields DEF WellFormed
<1>6. /\ DOMAIN purge' = DOMAIN purge /\ purge'.step = 9
      /\ purge'.scope = purge.scope /\ purge'.ids = purge.ids /\ purge'.keys = purge.keys
  BY <1>2, <1>3
<1>7. WellFormed(graph') /\ Keys(graph') = kept /\ \A k \in kept : graph'.rows[k] = graph.rows[k]
  BY <1>2, <1>4, <1>5 DEF WellFormed, Keys
<1>8. /\ GraphTypes' /\ RivalsInSight' /\ KnownRivalsResolved' /\ WritersHold'
      /\ ~overlapped' => \A w \in Writers : ~Active(w)'
  <2>1. purge'.step \in 0..Len(PurgePlan)
    BY <1>6, PlanLength
  <2> QED
    BY <1>1, <1>2, <1>3, <1>5, <1>6, <1>7, <2>1, PurgeShrinks
<1>9. /\ DocsInScope("memories")' = DocsInScope("memories")
      /\ DocsInScope("episodes")' = DocsInScope("episodes")
      /\ EntitiesInScope' = {}
  BY <1>3, <1>6, <1>7 DEF DocsInScope, EntitiesInScope, MemoriesOf, InScope
<1>10. ASSUME ~overlapped PROVE ScopeCollected' /\ EdgesRemoved' /\ DocsRemoved'
  BY <1>2, <1>5, <1>6, <1>9, <1>10 DEF ScopeCollected, EdgesRemoved, DocsRemoved
<1>11. ASSUME ~overlapped PROVE EdgesEndIn(graph', docs')
  <2>1. EntitiesInScope \subseteq purge.keys
    BY <1>2, <1>11 DEF ScopeCollected
  <2>0. EdgesRemoved /\ purge.step > 4 /\ purge.step > 5 /\ purge.step > 6
    BY <1>2, <1>11
  <2>2. \A l \in graph.mentions : l[2] \notin purge.keys
    BY <2>0 DEF EdgesRemoved
  <2>3. \A l \in graph.produced : l[1] \notin purge.keys
    BY <2>0 DEF EdgesRemoved
  <2>4. \A p \in DOMAIN graph.relates : {p[1], p[2]} \cap purge.keys = {}
    BY <2>0 DEF EdgesRemoved
  <2> QED
    BY <1>2, <1>3, <1>5, <1>7, <1>11, <2>1, <2>2, <2>3, <2>4 DEF EdgesEndIn
<1> QED
  BY <1>1, <1>8, <1>10, <1>11 DEF EntityInv, PurgeAlone, NoDanglingEdges

-----------------------------------------------------------------------------
(* The invariant, and what it says.                                          *)

LEMMA InitInv == Init => EntityInv
<1> SUFFICES ASSUME Init PROVE EntityInv
  OBVIOUS
<1>1. /\ graph = Stored /\ WellFormed(graph) /\ docs = [memories |-> Earlier, episodes |-> Earlier]
      /\ EdgesEndIn(graph, docs) /\ DOMAIN calls = Writers /\ \A w \in Writers : calls[w] = Idle
      /\ purge.step = 0 /\ DOMAIN purge = {"step", "scope", "ids", "keys", "count"}
      /\ DOMAIN known = Keys(graph) /\ \A k \in Keys(graph) : known[k] = {}
  BY StoredAssumption DEF Init
<1>2. /\ DOMAIN Idle.ms = {} /\ Range(Idle.ms) = {} /\ DOMAIN Idle.pool = {}
      /\ DOMAIN Idle.cache = {} /\ DOMAIN Idle.keyOf = {} /\ Idle.todo = {} /\ Idle.before = {}
      /\ Idle.pc = "idle" /\ ~Idle.scanned
  BY DEF Idle, Range
<1>3. CallOK(graph, Idle) /\ HoldsOn(graph, docs, Idle)
  BY <1>2 DEF CallOK, PoolOK, HoldsOn, Fed
<1>4. GraphTypes
  BY <1>1, <1>3, PlanLength DEF GraphTypes
<1>5. RivalsInSight
  BY <1>1, <1>2 DEF RivalsInSight
<1>6. KnownRivalsResolved
  BY <1>1 DEF KnownRivalsResolved
<1>7. WritersHold /\ PurgeAlone /\ NoDanglingEdges
  BY <1>1, <1>3 DEF WritersHold, PurgeAlone, Purging, NoDanglingEdges
<1> QED
  BY <1>4, <1>5, <1>6, <1>7 DEF EntityInv

LEMMA PurgeStepKeeps ==
  ASSUME EntityInv, PurgeStep
  PROVE  EntityInv'
<1>1. Purging /\ purge.step \in 1..9
  BY PurgeFacts DEF PurgeStep
<1>2. purge.step \in 1..3 \/ purge.step \in 4..6 \/ purge.step \in {7, 9} \/ purge.step = 8
  BY <1>1
<1> QED
  BY <1>1, <1>2, CollectKeeps, RemoveEdgesKeeps, RemoveDocsKeeps, RemoveEntitiesKeeps

LEMMA WriterStepKeeps ==
  ASSUME EntityInv, NEW w \in Writers,
         \/ \E m \in Singles : Check(w, <<m>>, FALSE)
         \/ \E ms \in Batches : Check(w, ms, TRUE)
         \/ Record(w) \/ LookUpIndex(w) \/ Scan(w) \/ Write(w) \/ IncrementMany(w) \/ UpsertMany(w)
         \/ AddMentions(w) \/ AddProducedBy(w) \/ RelateOne(w) \/ RelateMany(w)
         \/ Return(w) \/ Crash(w)
  PROVE  EntityInv'
<1>1. CASE \E m \in Singles : Check(w, <<m>>, FALSE)
  <2>1. PICK m \in Singles : Check(w, <<m>>, FALSE)
    BY <1>1
  <2>2. <<m>> \in Seq(Memories) /\ Len(<<m>>) = 1
    BY MemoriesAssumption
  <2> QED
    BY <2>1, <2>2, CheckKeeps
<1>2. CASE \E ms \in Batches : Check(w, ms, TRUE)
  BY <1>2, CheckKeeps, MemoriesAssumption
<1>3. CASE Record(w) \/ LookUpIndex(w) \/ Scan(w)
  BY <1>3, RecordKeeps, LookUpIndexKeeps, ScanKeeps
<1>4. CASE Write(w) \/ IncrementMany(w) \/ UpsertMany(w)
  BY <1>4, WriteKeeps, IncrementManyKeeps, UpsertManyKeeps
<1>5. CASE AddMentions(w) \/ AddProducedBy(w)
  BY <1>5, AddMentionsKeeps, AddProducedByKeeps
<1>6. CASE RelateOne(w) \/ RelateMany(w)
  BY <1>6, RelateOneKeeps, RelateManyKeeps
<1>7. CASE Return(w) \/ Crash(w)
  BY <1>7, LeavesKeep
<1> QED
  BY <1>1, <1>2, <1>3, <1>4, <1>5, <1>6, <1>7

LEMMA NextInv == EntityInv /\ [Next]_graphVars => EntityInv'
<1> SUFFICES ASSUME EntityInv, [Next]_graphVars PROVE EntityInv'
  OBVIOUS
<1>1. CASE UNCHANGED graphVars
  <2>1. /\ graph' = graph /\ docs' = docs /\ calls' = calls /\ purge' = purge /\ known' = known
        /\ overlapped' = overlapped
    BY <1>1 DEF graphVars
  <2>2. GraphTypes'
    BY <2>1 DEF EntityInv, GraphTypes
  <2>3. RivalsInSight'
    BY <2>1 DEF EntityInv, RivalsInSight
  <2>4. KnownRivalsResolved'
    BY <2>1 DEF EntityInv, KnownRivalsResolved
  <2>5. WritersHold' /\ NoDanglingEdges'
    BY <2>1 DEF EntityInv, WritersHold, NoDanglingEdges
  <2>6. PurgeAlone'
    <3>1. Purging' = Purging /\ \A w \in Writers : Active(w)' = Active(w)
      BY <2>1 DEF Purging, Active
    <3>2. ScopeCollected => ScopeCollected'
      BY <2>1 DEF ScopeCollected, DocsInScope, EntitiesInScope, MemoriesOf, InScope
    <3>3. EdgesRemoved => EdgesRemoved'
      BY <2>1 DEF EdgesRemoved
    <3>4. DocsRemoved => DocsRemoved'
      BY <2>1 DEF DocsRemoved, DocsInScope, EntitiesInScope, MemoriesOf, InScope
    <3> QED
      BY <2>1, <3>1, <3>2, <3>3, <3>4 DEF EntityInv, PurgeAlone
  <2> QED
    BY <2>2, <2>3, <2>4, <2>5, <2>6 DEF EntityInv
<1>2. CASE \E s \in Seeds : Seed(s[1], s[2])
  BY <1>2, SeedStepKeeps
<1>3. CASE (\E scope \in PurgeScopes : PurgeStart(scope)) \/ PurgeCrash
  BY <1>3, PurgeTurnsKeep
<1>4. CASE PurgeStep
  BY <1>4, PurgeStepKeeps
<1>5. ASSUME NEW w \in Writers,
             \/ \E m \in Singles : Check(w, <<m>>, FALSE)
             \/ \E ms \in Batches : Check(w, ms, TRUE)
             \/ Record(w) \/ LookUpIndex(w) \/ Scan(w) \/ Write(w) \/ IncrementMany(w) \/ UpsertMany(w)
             \/ AddMentions(w) \/ AddProducedBy(w) \/ RelateOne(w) \/ RelateMany(w)
             \/ Return(w) \/ Crash(w)
      PROVE  EntityInv'
  BY <1>5, WriterStepKeeps
<1> QED
  BY <1>1, <1>2, <1>3, <1>4, <1>5 DEF Next

LEMMA EntityInvariant == Spec => []EntityInv
BY InitInv, NextInv, PTL DEF Spec

(* Under every interleaving of calls, crashes, seeds and purges of which no    *)
(* call ran beside a purge, each mention, produced_by and relates_to edge ends *)
(* at documents that exist: while a purge runs, and after one that stopped     *)
(* half way (ingest/entities.py, security/forget.py purge).                    *)
THEOREM EdgesEndAtDocuments == Spec => []NoDanglingEdges
<1>1. EntityInv => NoDanglingEdges
  BY DEF EntityInv
<1> QED
  BY <1>1, EntityInvariant, PTL

(* No row duplicates an entity its writer's scan could have shown it, and a    *)
(* row near one of them carries a conflict flag: for every similarity,         *)
(* threshold, batch and interleaving (ingest/entities.py _best_match,          *)
(* write_entities, write_entities_many).                                       *)
THEOREM KnownRivalsAreResolved == Spec => []KnownRivalsResolved
<1>1. EntityInv => KnownRivalsResolved
  BY DEF EntityInv
<1> QED
  BY <1>1, EntityInvariant, PTL

(* A purge that no call ran beside ends with no memory, episode or entity of   *)
(* its scope left, however the steps before it went (security/forget.py        *)
(* purge).                                                                     *)
THEOREM PurgeLeavesNoneOfScope == Spec => PurgeLeavesNothing
<1>1. ASSUME EntityInv, Purging, purge.step = Len(PurgePlan), ~overlapped, PurgeStep
      PROVE  /\ \A m \in docs'.memories \cup docs'.episodes :
                  purge.scope \notin {Everyone, AgentOf[m]}
             /\ \A k \in Keys(graph') : purge.scope \notin {Everyone, graph'.rows[k].agent}
  <2>1. /\ purge.step = 9 /\ DOMAIN docs = {"memories", "episodes"}
        /\ DocsInScope("memories") = {} /\ EntitiesInScope = {}
    BY <1>1, PlanLength, PurgeFacts DEF DocsRemoved
  <2>2. RemoveDocuments("episodes")
    BY <1>1, <2>1, PlanSteps DEF PurgeStep
  <2>3. graph' = graph /\ docs' = [docs EXCEPT !["episodes"] = @ \ MemoriesOf(@)]
    BY <2>2 DEF RemoveDocuments
  <2>4. docs'.memories = docs.memories /\ docs'.episodes = docs.episodes \ MemoriesOf(docs.episodes)
    BY <2>1, <2>3
  <2>5. MemoriesOf(docs.memories) = {}
    BY <2>1 DEF DocsInScope
  <2>6. \A m \in docs'.memories \cup docs'.episodes : ~InScope(AgentOf[m])
    BY <2>4, <2>5 DEF MemoriesOf
  <2>7. \A k \in Keys(graph) : ~InScope(graph.rows[k].agent)
    BY <2>1 DEF EntitiesInScope
  <2> QED
    BY <2>3, <2>6, <2>7 DEF InScope
<1>2. EntityInv => [Purging /\ purge.step = Len(PurgePlan) /\ ~overlapped /\ PurgeStep =>
       /\ \A m \in docs'.memories \cup docs'.episodes : purge.scope \notin {Everyone, AgentOf[m]}
       /\ \A k \in Keys(graph') : purge.scope \notin {Everyone, graph'.rows[k].agent}]_graphVars
  BY <1>1
<1> QED
  BY <1>2, EntityInvariant, PTL DEF PurgeLeavesNothing

-----------------------------------------------------------------------------
(* Corroboration.  A writer that has recorded a memory owes it to a pair      *)
(* until it has related the pair; the rest of what was fed is paid.           *)

Ones == [m \in Memories |-> 1]
Owes(c, p, m) ==
  /\ m \in Range(c.ms)
  /\ \/ c.pc \in {"look", "write", "increment", "upsert", "mention", "produce"}
     \/ c.pc = "relate" /\ (c.many \/ p \in c.todo)
Owing(cs, p, m) == {w \in Writers : Owes(cs[w], p, m)}
Paid(cs, times, p, weight) ==
  [m \in Memories |-> (times[m] - Cardinality(Owing(cs, p, m))) * weight[m]]
Both(g, p) == Mentioners(g, p[1]) \cap Mentioners(g, p[2])

Affordable(cs, times) ==
  /\ times \in [Memories -> Nat]
  /\ \A m \in Memories : \A p : Cardinality(Owing(cs, p, m)) <= times[m]
Covered(g, cs, times) ==
  \A p \in DOMAIN g.relates :
    /\ g.relates[p].corroboration <= SumFunctionOnSet(Paid(cs, times, p, Ones), Both(g, p))
    /\ g.relates[p].evidence <= SumFunctionOnSet(Paid(cs, times, p, Reliability), Both(g, p))

(* What a call has said of its memories so far is in the mentions.            *)
MemoriesOnce(c) == \A i, j \in DOMAIN c.ms : c.ms[i] = c.ms[j] => i = j
Linked(g, c) ==
  \A i \in DOMAIN c.ms : \A e \in DOMAIN c.keyOf \cap Range(Says[c.ms[i]]) :
    (c.pc = "mention" /\ e \in AtHand(c)) \/ <<c.ms[i], c.keyOf[e]>> \in g.mentions
TodoSaid(c) == c.pc = "relate" /\ ~c.many => c.todo \subseteq DOMAIN SaidAlone(c)

PairsCounted(g) ==
  \A p \in DOMAIN g.relates : {g.relates[p].corroboration, g.relates[p].evidence} \subseteq Nat

CorroborationInv ==
  /\ PairsCounted(graph) /\ Affordable(calls, fed)
  /\ \A w \in Writers : MemoriesOnce(calls[w]) /\ TodoSaid(calls[w])
  /\ purge.count \in Nat /\ (Purging => purge.count > 0)
  /\ purge.count = 0 /\ AllRelateOwn =>
       Covered(graph, calls, fed) /\ \A w \in Writers : Linked(graph, calls[w])

LEMMA OwingFinite ==
  ASSUME NEW cs, NEW p, NEW m
  PROVE  IsFiniteSet(Owing(cs, p, m)) /\ Cardinality(Owing(cs, p, m)) \in Nat
<1>1. Owing(cs, p, m) \subseteq Writers
  BY DEF Owing
<1> QED
  BY <1>1, MemoriesAssumption, FS_Subset, FS_CardinalityType

LEMMA TimesGrows ==
  ASSUME NEW a \in Nat, NEW b \in Nat, a <= b, NEW x \in Nat
  PROVE  a * x \in Nat /\ b * x \in Nat /\ a * x <= b * x
<1>1. b * x = a * x + (b - a) * x
  OBVIOUS
<1>2. (b - a) \in Nat
  OBVIOUS
<1>3. (b - a) * x \in Nat /\ a * x \in Nat /\ b * x \in Nat
  BY <1>2
<1> QED
  BY <1>1, <1>3

LEMMA TimesMore ==
  ASSUME NEW a \in Nat, NEW b \in Nat, a + 1 <= b, NEW x \in Nat
  PROVE  a * x + x <= b * x
<1>1. (a + 1) * x <= b * x
  BY TimesGrows
<1>2. (a + 1) * x = a * x + x
  OBVIOUS
<1> QED
  BY <1>1, <1>2

LEMMA PaidIsNat ==
  ASSUME NEW cs, NEW times, Affordable(cs, times), NEW p, NEW weight \in [Memories -> Nat],
         NEW S \in SUBSET Memories
  PROVE  AllNat(Paid(cs, times, p, weight), S)
<1>1. IsFiniteSet(S)
  BY MemoriesAssumption, FS_Subset
<1>2. ASSUME NEW m \in S PROVE Paid(cs, times, p, weight)[m] \in Nat
  <2>1. times[m] \in Nat /\ Cardinality(Owing(cs, p, m)) \in Nat
        /\ Cardinality(Owing(cs, p, m)) <= times[m] /\ weight[m] \in Nat
    BY OwingFinite DEF Affordable
  <2>2. times[m] - Cardinality(Owing(cs, p, m)) \in Nat
    BY <2>1
  <2>3. (times[m] - Cardinality(Owing(cs, p, m))) * weight[m] \in Nat
    BY <2>1, <2>2, TimesGrows
  <2> QED
    BY <2>3 DEF Paid
<1> QED
  BY <1>1, <1>2 DEF AllNat

LEMMA BothAreMemories == ASSUME NEW g, NEW p PROVE Both(g, p) \in SUBSET Memories
BY DEF Both, Mentioners

(* What one writer's step changes in what is owed.                            *)
LEMMA OwingMoves ==
  ASSUME NEW cs, DOMAIN cs = Writers, NEW w \in Writers, NEW d, NEW ds, ds = [cs EXCEPT ![w] = d],
         NEW p, NEW m
  PROVE  /\ Cardinality(Owing(ds, p, m)) <= Cardinality(Owing(cs, p, m)) + 1
         /\ (Owes(d, p, m) => Owes(cs[w], p, m)) =>
              Cardinality(Owing(ds, p, m)) <= Cardinality(Owing(cs, p, m))
         /\ ~Owes(d, p, m) /\ Owes(cs[w], p, m) =>
              Cardinality(Owing(ds, p, m)) + 1 <= Cardinality(Owing(cs, p, m))
<1> DEFINE A == Owing(cs, p, m)
           B == Owing(ds, p, m)
<1>1. IsFiniteSet(A) /\ IsFiniteSet(B) /\ Cardinality(A) \in Nat /\ Cardinality(B) \in Nat
  BY OwingFinite
<1>2. B \subseteq A \cup {w} /\ (Owes(d, p, m) <=> w \in B) /\ (Owes(cs[w], p, m) <=> w \in A)
  BY DEF Owing
<1> HIDE DEF A, B
<1>3. IsFiniteSet(A \cup {w}) /\ Cardinality(A \cup {w}) <= Cardinality(A) + 1
      /\ Cardinality(A \cup {w}) \in Nat
  <2>1. IsFiniteSet(A \cup {w}) /\ Cardinality(A \cup {w}) \in Nat
    BY <1>1, FS_AddElement, FS_CardinalityType
  <2>2. CASE w \in A
    <3>1. A \cup {w} = A
      BY <2>2
    <3>2. Cardinality(A \cup {w}) = Cardinality(A)
      BY <3>1
    <3> QED
      BY <1>1, <2>1, <3>2
  <2>3. CASE w \notin A
    BY <1>1, <2>1, <2>3, FS_AddElement
  <2> QED
    BY <2>2, <2>3
<1>4. Cardinality(B) <= Cardinality(A \cup {w})
  BY <1>2, <1>3, FS_Subset
<1>5. ASSUME Owes(d, p, m) => Owes(cs[w], p, m) PROVE Cardinality(B) <= Cardinality(A)
  <2>1. B \subseteq A
    BY <1>2, <1>5
  <2> QED
    BY <1>1, <2>1, FS_Subset
<1>6. ASSUME ~Owes(d, p, m), Owes(cs[w], p, m) PROVE Cardinality(B) + 1 <= Cardinality(A)
  <2>1. B \subseteq A \ {w} /\ w \in A
    BY <1>2, <1>6
  <2>2. IsFiniteSet(A \ {w}) /\ Cardinality(A \ {w}) = Cardinality(A) - 1
    BY <1>1, <2>1, FS_RemoveElement
  <2>3. Cardinality(B) <= Cardinality(A \ {w})
    BY <2>1, <2>2, FS_Subset
  <2> QED
    BY <1>1, <2>2, <2>3
<1>7. Cardinality(B) <= Cardinality(A) + 1
  BY <1>1, <1>3, <1>4
<1> QED
  BY <1>5, <1>6, <1>7 DEF A, B

(* More fed, less owed, more mentions: what was covered stays so.             *)
LEMMA StaysCovered ==
  ASSUME NEW g, PairsCounted(g), NEW cs, NEW times, Affordable(cs, times), Covered(g, cs, times),
         NEW h, h.relates = g.relates, g.mentions \subseteq h.mentions,
         NEW ds, NEW more, Affordable(ds, more),
         \A m \in Memories : \A p : times[m] + Cardinality(Owing(ds, p, m))
                                      <= more[m] + Cardinality(Owing(cs, p, m))
  PROVE  Covered(h, ds, more)
<1> SUFFICES ASSUME NEW p \in DOMAIN g.relates
             PROVE  /\ g.relates[p].corroboration <= SumFunctionOnSet(Paid(ds, more, p, Ones), Both(h, p))
                    /\ g.relates[p].evidence <= SumFunctionOnSet(Paid(ds, more, p, Reliability), Both(h, p))
  BY DEF Covered
<1>1. Both(g, p) \subseteq Both(h, p)
  BY DEF Both, Mentioners
<1>2. Ones \in [Memories -> Nat] /\ Reliability \in [Memories -> Nat]
  BY MemoriesAssumption DEF Ones
<1>3. ASSUME NEW weight \in [Memories -> Nat]
      PROVE  /\ SumFunctionOnSet(Paid(cs, times, p, weight), Both(g, p))
                  <= SumFunctionOnSet(Paid(ds, more, p, weight), Both(h, p))
             /\ SumFunctionOnSet(Paid(cs, times, p, weight), Both(g, p)) \in Nat
             /\ SumFunctionOnSet(Paid(ds, more, p, weight), Both(h, p)) \in Nat
  <2>1. AllNat(Paid(cs, times, p, weight), Both(g, p)) /\ AllNat(Paid(ds, more, p, weight), Both(h, p))
    BY PaidIsNat, BothAreMemories
  <2>2. ASSUME NEW m \in Memories PROVE Paid(cs, times, p, weight)[m] <= Paid(ds, more, p, weight)[m]
    <3> PICK a \in Nat, b \in Nat : a = times[m] - Cardinality(Owing(cs, p, m))
                                    /\ b = more[m] - Cardinality(Owing(ds, p, m))
      <4>1. times[m] - Cardinality(Owing(cs, p, m)) \in Nat /\ more[m] - Cardinality(Owing(ds, p, m)) \in Nat
        BY OwingFinite DEF Affordable
      <4> QED
        BY <4>1
    <3>1. a <= b
      BY OwingFinite DEF Affordable
    <3>2. a * weight[m] <= b * weight[m]
      BY <3>1, TimesGrows
    <3>3. Paid(cs, times, p, weight)[m] = a * weight[m] /\ Paid(ds, more, p, weight)[m] = b * weight[m]
      BY DEF Paid
    <3> QED
      BY <3>2, <3>3
  <2>3. \A m \in Both(g, p) : Paid(cs, times, p, weight)[m] <= Paid(ds, more, p, weight)[m]
    BY <2>2, BothAreMemories
  <2> QED
    BY <1>1, <2>1, <2>3, SumGrows, SumIsNat
<1>4. /\ g.relates[p].corroboration <= SumFunctionOnSet(Paid(cs, times, p, Ones), Both(g, p))
      /\ g.relates[p].evidence <= SumFunctionOnSet(Paid(cs, times, p, Reliability), Both(g, p))
      /\ g.relates[p].corroboration \in Nat /\ g.relates[p].evidence \in Nat
  BY DEF Covered, PairsCounted
<1>5. g.relates[p].corroboration <= SumFunctionOnSet(Paid(ds, more, p, Ones), Both(h, p))
  BY <1>2, <1>3, <1>4
<1>6. g.relates[p].evidence <= SumFunctionOnSet(Paid(ds, more, p, Reliability), Both(h, p))
  BY <1>2, <1>3, <1>4
<1> QED
  BY <1>5, <1>6

(* A step that relates nothing and owes nothing new.                          *)
LEMMA QuietStep ==
  ASSUME EntityInv, CorroborationInv, NEW w \in Writers, NEW d, calls' = [calls EXCEPT ![w] = d],
         fed' = fed, purge' = purge, graph'.relates = graph.relates,
         graph.mentions \subseteq graph'.mentions,
         \A p : \A m \in Memories : Owes(d, p, m) => Owes(calls[w], p, m),
         MemoriesOnce(d), TodoSaid(d), Linked(graph, calls[w]) => Linked(graph', d)
  PROVE  CorroborationInv'
<1>1. DOMAIN calls = Writers
  BY DEF EntityInv, GraphTypes
<1>2. calls'[w] = d /\ \A v \in Writers : v # w => calls'[v] = calls[v]
  BY <1>1
<1>3. ASSUME NEW m \in Memories, NEW p
      PROVE  /\ Cardinality(Owing(calls', p, m)) <= Cardinality(Owing(calls, p, m))
             /\ Cardinality(Owing(calls', p, m)) \in Nat
             /\ Cardinality(Owing(calls, p, m)) \in Nat
  BY <1>1, OwingMoves, OwingFinite
<1>4. Affordable(calls, fed) /\ PairsCounted(graph) /\ PairsCounted(graph')
  BY DEF CorroborationInv, PairsCounted
<1>10. ASSUME NEW m \in Memories, NEW p
       PROVE  /\ Cardinality(Owing(calls', p, m)) <= fed'[m]
              /\ fed[m] + Cardinality(Owing(calls', p, m)) <= fed'[m] + Cardinality(Owing(calls, p, m))
  <2>1. fed[m] \in Nat /\ Cardinality(Owing(calls, p, m)) <= fed[m]
    BY <1>4 DEF Affordable
  <2>2. PICK a, b : a = Cardinality(Owing(calls', p, m)) /\ b = Cardinality(Owing(calls, p, m))
    OBVIOUS
  <2>3. a <= b /\ a \in Nat /\ b \in Nat
    BY <1>3, <2>2
  <2>4. a <= fed[m] /\ fed[m] + a <= fed[m] + b
    BY <2>1, <2>2, <2>3
  <2> QED
    BY <2>2, <2>4
<1>5. Affordable(calls', fed')
  BY <1>4, <1>10 DEF Affordable
<1>6. \A m \in Memories : \A p : fed[m] + Cardinality(Owing(calls', p, m))
                                  <= fed'[m] + Cardinality(Owing(calls, p, m))
  BY <1>10
<1>7. Covered(graph, calls, fed) => Covered(graph', calls', fed')
  BY <1>4, <1>5, <1>6, StaysCovered
<1>8. \A v \in Writers : Linked(graph, calls[v]) => Linked(graph', calls'[v])
  <2> SUFFICES ASSUME NEW v \in Writers, v # w PROVE Linked(graph, calls[v]) => Linked(graph', calls[v])
    BY <1>2
  <2> QED
    BY DEF Linked
<1>9. (Purging' <=> Purging)
  BY DEF Purging
<1> QED
  BY <1>2, <1>4, <1>5, <1>7, <1>8, <1>9 DEF CorroborationInv

(* The steps that relate nothing.                                            *)
LEMMA CheckOwes ==
  ASSUME EntityInv, CorroborationInv, NEW w \in Writers, NEW ms \in Seq(Memories),
         NEW many \in BOOLEAN, Check(w, ms, many)
  PROVE  CorroborationInv'
<1> DEFINE new == NewAmong(ms)
           d == [Idle EXCEPT !.pc = "record", !.many = many, !.ms = Restrict(ms, new),
                             !.agent = AgentOf[ms[1]], !.i = 1]
<1>1. calls' = [calls EXCEPT ![w] = d] /\ UNCHANGED <<graph, purge, fed>>
  BY DEF Check, Go
<1>2. d.pc = "record" /\ d.ms = Restrict(ms, new) /\ d.keyOf = <<>> /\ DOMAIN d.keyOf = {}
  BY DEF Idle
<1>3. ASSUME NEW i \in new, NEW j \in new, ms[i] = ms[j] PROVE i = j
  <2>1. i \in Nat /\ j \in Nat
    BY DEF NewAmong
  <2>2. ~(i < j) /\ ~(j < i)
    BY <1>3, <2>1 DEF NewAmong
  <2> QED
    BY <2>1, <2>2
<1> HIDE DEF d, new
<1>4. MemoriesOnce(d)
  BY <1>2, <1>3 DEF MemoriesOnce, Restrict
<1>5. TodoSaid(d) /\ Linked(graph', d) /\ \A p : \A m \in Memories : ~Owes(d, p, m)
  BY <1>2 DEF TodoSaid, Linked, Owes
<1> QED
  BY <1>1, <1>4, <1>5, QuietStep

LEMMA LooksOn ==
  ASSUME EntityInv, CorroborationInv, NEW w \in Writers, NEW d, calls' = [calls EXCEPT ![w] = d],
         calls[w].pc = "look", d.pc \in {"increment", "write"}, d.ms = calls[w].ms,
         d.keyOf = calls[w].keyOf, UNCHANGED <<graph, purge, fed>>
  PROVE  CorroborationInv'
<1>1. MemoriesOnce(calls[w])
  BY DEF CorroborationInv
<1>2. MemoriesOnce(d) /\ TodoSaid(d) /\ (Linked(graph, calls[w]) => Linked(graph', d))
  BY <1>1 DEF MemoriesOnce, TodoSaid, Linked
<1>3. \A p : \A m \in Memories : Owes(d, p, m) => Owes(calls[w], p, m)
  BY DEF Owes
<1> QED
  BY <1>2, <1>3, QuietStep

LEMMA LookOwes ==
  ASSUME EntityInv, CorroborationInv, NEW w \in Writers, LookUpIndex(w) \/ Scan(w)
  PROVE  CorroborationInv'
<1> DEFINE c == calls[w]
           to == IF c.many THEN "increment" ELSE "write"
<1>1. DOMAIN c = DOMAIN Idle /\ to \in {"increment", "write"}
  BY CallFacts
<1> HIDE DEF to
<1>2. CASE LookUpIndex(w)
  <2>1. c.pc = "look" /\ UNCHANGED <<graph, purge, fed>>
    BY <1>2 DEF LookUpIndex
  <2>2. PICK pool : calls' = [calls EXCEPT ![w] = [c EXCEPT !.pc = to, !.pool = pool, !.before = {}]]
    BY <1>2 DEF LookUpIndex, Go, to
  <2> DEFINE d == [c EXCEPT !.pc = to, !.pool = pool, !.before = {}]
  <2>3. d.pc = to /\ d.ms = c.ms /\ d.keyOf = c.keyOf
    BY <1>1 DEF Idle
  <2> HIDE DEF d
  <2> QED
    BY <1>1, <2>1, <2>2, <2>3, LooksOn DEF d
<1>3. CASE Scan(w)
  <2>1. c.pc = "look" /\ UNCHANGED <<graph, purge, fed>>
    BY <1>3 DEF Scan
  <2> DEFINE rows == IF c.scanned THEN c.cache ELSE Snapshot(graph, Keys(graph))
             d == [c EXCEPT !.pc = to, !.scanned = TRUE, !.cache = rows, !.pool = rows]
  <2>2. calls' = [calls EXCEPT ![w] = d]
    BY <1>3 DEF Scan, Go, to
  <2>3. d.pc = to /\ d.ms = c.ms /\ d.keyOf = c.keyOf
    <3> HIDE DEF rows
    <3> QED
      BY <1>1 DEF Idle
  <2> HIDE DEF d
  <2> QED
    BY <1>1, <2>1, <2>2, <2>3, LooksOn
<1> QED
  BY <1>2, <1>3

(* Settling keys leaves the edges alone; what it settled is not mentioned yet. *)
LEMMA SettleOwes ==
  ASSUME EntityInv, CorroborationInv, NEW w \in Writers, NEW g, Settle(w, g),
         calls[w].pc \in {"write", "upsert"}, WellFormed(g), SameEdges(graph, g)
  PROVE  CorroborationInv'
<1> DEFINE c == calls[w]
           keyOf == KeysFor(g, c.pool, c.ms, AtHand(c))
           keys == [e \in DOMAIN c.keyOf \cup AtHand(c) |->
                      IF e \in AtHand(c) THEN keyOf[e] ELSE c.keyOf[e]]
           d == [c EXCEPT !.pc = "mention", !.keyOf = keys]
<1>1. /\ graph' = Upsert(g, c.pool, c.ms, AtHand(c), c.agent)
      /\ calls' = [calls EXCEPT ![w] = d] /\ UNCHANGED <<purge, fed>>
  BY DEF Settle, Go
<1>2. CallOK(graph, c) /\ DOMAIN c = DOMAIN Idle /\ MemoriesOnce(c)
  BY CallFacts DEF CorroborationInv
<1>3. d.pc = "mention" /\ d.keyOf = keys /\ d.many = c.many /\ d.ms = c.ms /\ AtHand(d) = AtHand(c)
  BY <1>2 DEF Idle, AtHand
<1>4. DOMAIN c.ms \subseteq Nat /\ Range(c.ms) \subseteq Memories /\ AtHand(c) \in SUBSET EntitiesOf(c.ms)
  BY <1>2, AtHandSaid DEF CallOK, Fed
<1>5. \A e \in DOMAIN keys : e \notin AtHand(c) => e \in DOMAIN c.keyOf /\ keys[e] = c.keyOf[e]
  OBVIOUS
<1> HIDE DEF d, keys, keyOf
<1>6. SameEdges(g, graph')
  BY <1>1, <1>4, UpsertMakes
<1>7. graph'.relates = graph.relates /\ graph'.mentions = graph.mentions
  BY <1>6 DEF SameEdges
<1>8. MemoriesOnce(d) /\ TodoSaid(d) /\ (Linked(graph, c) => Linked(graph', d))
  BY <1>2, <1>3, <1>5, <1>7 DEF MemoriesOnce, TodoSaid, Linked
<1>9. \A p : \A m \in Memories : Owes(d, p, m) => Owes(c, p, m)
  BY <1>3 DEF Owes
<1> QED
  BY <1>1, <1>7, <1>8, <1>9, QuietStep

LEMMA WriteOwes ==
  ASSUME EntityInv, CorroborationInv, NEW w \in Writers, Write(w) \/ UpsertMany(w)
  PROVE  CorroborationInv'
<1>1. WellFormed(graph)
  BY CallFacts
<1>2. CASE Write(w)
  BY <1>1, <1>2, IncrementKeeps, SettleOwes DEF Write
<1>3. CASE UpsertMany(w)
  BY <1>1, <1>3, SettleOwes DEF UpsertMany, SameEdges
<1> QED
  BY <1>2, <1>3

LEMMA IncrementOwes ==
  ASSUME EntityInv, CorroborationInv, NEW w \in Writers, IncrementMany(w)
  PROVE  CorroborationInv'
<1> DEFINE c == calls[w]
           d == [c EXCEPT !.pc = "upsert"]
<1>1. /\ graph' = Increment(graph, c.pool, c.ms, AtHand(c)) /\ c.pc = "increment"
      /\ calls' = [calls EXCEPT ![w] = d] /\ UNCHANGED <<purge, fed>>
  BY DEF IncrementMany, Go
<1>2. WellFormed(graph) /\ DOMAIN c = DOMAIN Idle /\ MemoriesOnce(c)
  BY CallFacts DEF CorroborationInv
<1>3. d.pc = "upsert" /\ d.keyOf = c.keyOf /\ d.ms = c.ms
  BY <1>2 DEF Idle
<1> HIDE DEF d
<1>4. SameEdges(graph, graph')
  BY <1>1, <1>2, IncrementKeeps
<1>5. MemoriesOnce(d) /\ TodoSaid(d) /\ (Linked(graph, c) => Linked(graph', d))
  BY <1>1, <1>2, <1>3, <1>4 DEF MemoriesOnce, TodoSaid, Linked, SameEdges
<1>6. \A p : \A m \in Memories : Owes(d, p, m) => Owes(c, p, m)
  BY <1>1, <1>3 DEF Owes
<1> QED
  BY <1>1, <1>4, <1>5, <1>6, QuietStep DEF SameEdges

LEMMA MentionOwes ==
  ASSUME EntityInv, CorroborationInv, NEW w \in Writers, AddMentions(w)
  PROVE  CorroborationInv'
<1> DEFINE c == calls[w]
           links == Links(c.ms, AtHand(c), c.keyOf)
           d == [c EXCEPT !.pc = "produce"]
<1>1. /\ c.pc = "mention" /\ graph' = [graph EXCEPT !.mentions = graph.mentions \cup links]
      /\ calls' = [calls EXCEPT ![w] = d] /\ UNCHANGED <<purge, fed>>
  BY DEF AddMentions, Go, Mention
<1>2. WellFormed(graph) /\ DOMAIN c = DOMAIN Idle /\ MemoriesOnce(c)
  BY CallFacts DEF CorroborationInv
<1>3. d.pc = "produce" /\ d.keyOf = c.keyOf /\ d.ms = c.ms
  BY <1>2 DEF Idle
<1>4. ASSUME NEW i \in DOMAIN c.ms, NEW e \in AtHand(c), e \in Range(Says[c.ms[i]])
      PROVE  <<c.ms[i], c.keyOf[e]>> \in links
  <2> DEFINE q == <<i, e>>
  <2>1. q \in (DOMAIN c.ms) \X AtHand(c) /\ q[1] = i /\ q[2] = e
    OBVIOUS
  <2> HIDE DEF q
  <2> QED
    BY <1>4, <2>1 DEF Links
<1> HIDE DEF d, links
<1>5. graph'.relates = graph.relates /\ graph'.mentions = graph.mentions \cup links
  BY <1>1, <1>2, GraphFields DEF WellFormed
<1>6. Linked(graph, c) => Linked(graph', d)
  BY <1>1, <1>3, <1>4, <1>5 DEF Linked
<1>7. MemoriesOnce(d) /\ TodoSaid(d)
  BY <1>2, <1>3 DEF MemoriesOnce, TodoSaid
<1>8. \A p : \A m \in Memories : Owes(d, p, m) => Owes(c, p, m)
  BY <1>1, <1>3 DEF Owes
<1> QED
  BY <1>1, <1>5, <1>6, <1>7, <1>8, QuietStep

LEMMA ProduceOwes ==
  ASSUME EntityInv, CorroborationInv, NEW w \in Writers, AddProducedBy(w)
  PROVE  CorroborationInv'
<1> DEFINE c == calls[w]
           more == ~c.many /\ c.i < Len(Says[c.ms[1]])
           links == Links(c.ms, AtHand(c), c.keyOf)
           produced == graph.produced \cup {<<l[2], l[1]>> : l \in links}
           todo == IF c.many THEN {} ELSE DOMAIN SaidAlone(c)
           onward == [c EXCEPT !.pc = "look", !.i = @ + 1]
           done == [c EXCEPT !.pc = "relate", !.todo = todo]
           d == IF more THEN onward ELSE done
<1>1. /\ c.pc = "produce" /\ graph' = [graph EXCEPT !.produced = produced]
      /\ calls' = [calls EXCEPT ![w] = d] /\ UNCHANGED <<purge, fed>>
  BY DEF AddProducedBy, Go, Produce
<1>2. WellFormed(graph) /\ DOMAIN c = DOMAIN Idle /\ MemoriesOnce(c)
  BY CallFacts DEF CorroborationInv
<1>3. /\ d.pc \in {"look", "relate"} /\ d.keyOf = c.keyOf /\ d.ms = c.ms /\ d.many = c.many
      /\ d.pc = "relate" => d.todo = todo
  <2> HIDE DEF todo, more
  <2> QED
    BY <1>2 DEF Idle
<1> HIDE DEF d, onward, done, links
<1>4. graph'.mentions = graph.mentions /\ graph'.relates = graph.relates
  <2> HIDE DEF produced
  <2> QED
    BY <1>1, <1>2, GraphFields DEF WellFormed
<1>5. SaidAlone(d) = SaidAlone(c)
  BY <1>3 DEF SaidAlone
<1>6. MemoriesOnce(d) /\ TodoSaid(d) /\ (Linked(graph, c) => Linked(graph', d))
  BY <1>1, <1>2, <1>3, <1>4, <1>5 DEF MemoriesOnce, TodoSaid, Linked
<1>7. \A p : \A m \in Memories : Owes(d, p, m) => Owes(c, p, m)
  BY <1>1, <1>3 DEF Owes
<1> QED
  BY <1>1, <1>4, <1>6, <1>7, QuietStep

LEMMA LeaveOwes ==
  ASSUME EntityInv, CorroborationInv, NEW w \in Writers, Return(w) \/ Crash(w)
  PROVE  CorroborationInv'
<1>1. calls' = [calls EXCEPT ![w] = Idle] /\ UNCHANGED <<graph, purge, fed>>
  BY DEF Return, Crash, Go
<1>2. Idle.pc = "idle" /\ DOMAIN Idle.ms = {} /\ DOMAIN Idle.keyOf = {}
  BY DEF Idle
<1>3. MemoriesOnce(Idle) /\ TodoSaid(Idle) /\ Linked(graph', Idle)
      /\ \A p : \A m \in Memories : ~Owes(Idle, p, m)
  BY <1>2 DEF MemoriesOnce, TodoSaid, Linked, Owes
<1> QED
  BY <1>1, <1>3, QuietStep

-----------------------------------------------------------------------------
(* Recording feeds a memory once, and owes it at most once.                   *)
LEMMA RecordOwes ==
  ASSUME EntityInv, CorroborationInv, NEW w \in Writers, Record(w)
  PROVE  CorroborationInv'
<1> DEFINE c == calls[w]
<1>1. PICK extracted \in SUBSET DOMAIN c.ms, warm \in BOOLEAN :
        LET ms == Restrict(c.ms, extracted)
        IN Go(w, [c EXCEPT !.pc = IF EntitiesOf(ms) = {} THEN "return" ELSE "look", !.ms = ms,
                           !.ann = warm /\ Cardinality(Keys(graph)) > ScanMax,
                           !.before = Keys(graph)])
  BY DEF Record
<1> DEFINE ms == Restrict(c.ms, extracted)
           d == [c EXCEPT !.pc = IF EntitiesOf(ms) = {} THEN "return" ELSE "look", !.ms = ms,
                          !.ann = warm /\ Cardinality(Keys(graph)) > ScanMax,
                          !.before = Keys(graph)]
<1>2. /\ c.pc = "record" /\ calls' = [calls EXCEPT ![w] = d] /\ UNCHANGED <<graph, purge>>
      /\ fed' = [m \in Memories |-> fed[m] + IF m \in Range(c.ms) THEN 1 ELSE 0]
  BY <1>1 DEF Record, Go
<1>3. DOMAIN c = DOMAIN Idle /\ DOMAIN calls = Writers /\ MemoriesOnce(c)
      /\ Affordable(calls, fed) /\ PairsCounted(graph)
  BY CallFacts DEF CorroborationInv, EntityInv, GraphTypes
<1>4. /\ d.pc = (IF EntitiesOf(ms) = {} THEN "return" ELSE "look") /\ d.ms = ms
      /\ d.keyOf = c.keyOf
  BY <1>3 DEF Idle
<1>5. DOMAIN ms \subseteq DOMAIN c.ms /\ Range(ms) \subseteq Range(c.ms)
      /\ \A i \in DOMAIN ms : ms[i] = c.ms[i]
  BY DEF Restrict, Range
<1>6. d.pc \in {"return", "look"}
  BY <1>4
<1> HIDE DEF d, ms
<1>7. MemoriesOnce(d) /\ TodoSaid(d) /\ (Linked(graph, c) => Linked(graph', d))
  BY <1>2, <1>3, <1>4, <1>5, <1>6 DEF MemoriesOnce, TodoSaid, Linked
<1>8. ASSUME NEW m \in Memories, NEW p
      PROVE  /\ fed'[m] \in Nat /\ Cardinality(Owing(calls', p, m)) <= fed'[m]
             /\ fed[m] + Cardinality(Owing(calls', p, m)) <= fed'[m] + Cardinality(Owing(calls, p, m))
  <2> PICK a, b : a = Cardinality(Owing(calls, p, m)) /\ b = Cardinality(Owing(calls', p, m))
    OBVIOUS
  <2>1. a \in Nat /\ b \in Nat /\ fed[m] \in Nat /\ a <= fed[m]
    BY <1>3, OwingFinite DEF Affordable
  <2>2. b <= a + 1 /\ (m \notin Range(c.ms) => b <= a)
    <3>1. m \notin Range(c.ms) => ~Owes(d, p, m)
      BY <1>4, <1>5 DEF Owes
    <3> QED
      BY <1>2, <1>3, <3>1, OwingMoves
  <2>3. fed'[m] = IF m \in Range(c.ms) THEN fed[m] + 1 ELSE fed[m]
    BY <1>2, <2>1
  <2>4. fed'[m] \in Nat /\ b <= fed'[m] /\ fed[m] + b <= fed'[m] + a
    BY <2>1, <2>2, <2>3
  <2> QED
    BY <2>4
<1>9. fed' \in [Memories -> Nat]
  BY <1>2, <1>3 DEF Affordable
<1>10. Affordable(calls', fed')
  BY <1>8, <1>9 DEF Affordable
<1>11. Covered(graph, calls, fed) => Covered(graph', calls', fed')
  BY <1>2, <1>3, <1>8, <1>10, StaysCovered
<1>12. \A v \in Writers : v # w => calls'[v] = calls[v]
  BY <1>2, <1>3
<1>13. calls'[w] = d
  BY <1>2, <1>3
<1>14. \A v \in Writers : Linked(graph, calls[v]) => Linked(graph', calls'[v])
  BY <1>2, <1>7, <1>12, <1>13
<1>15. \A v \in Writers : MemoriesOnce(calls'[v]) /\ TodoSaid(calls'[v])
  BY <1>7, <1>12, <1>13 DEF CorroborationInv
<1>16. (Purging' <=> Purging) /\ purge'.count = purge.count /\ PairsCounted(graph')
  BY <1>2, <1>3 DEF Purging
<1> QED
  BY <1>10, <1>11, <1>14, <1>15, <1>16 DEF CorroborationInv

-----------------------------------------------------------------------------
(* Relating: each memory that says a pair pays what it owed to it.            *)

LEMMA EndsOfPair == ASSUME NEW j, NEW k PROVE {Pair(j, k)[1], Pair(j, k)[2]} = {j, k}
BY DEF Pair

\* The ends of pair q are the keys of entities that memory m says.
SaysPair(m, keyOf, q) ==
  \E e, f \in DOMAIN keyOf \cap Range(Says[m]) : {q[1], q[2]} = {keyOf[e], keyOf[f]}

LEMMA PairsAreSaid ==
  ASSUME NEW m, RelatesOwn(m), NEW standing \in SUBSET Entities,
         NEW keyOf, NEW q \in DOMAIN PairsOf(m, standing, keyOf)
  PROVE  SaysPair(m, keyOf, q)
<1> DEFINE found == {p \in (DOMAIN keyOf) \X (DOMAIN keyOf) : keyOf[p[1]] # keyOf[p[2]]}
           pairOf(p) == Pair(keyOf[p[1]], keyOf[p[2]])
           asserted(r) == {p \in found : /\ {p[1], p[2]} \subseteq standing
                                         /\ NameOf[p[1]] = r[1] /\ NameOf[p[2]] = r[2]}
           together == {p \in found : \E x \in Cooccurring(Says[m]) :
                                        p = <<Says[m][x[1]], Says[m][x[2]]>>}
           typed == {pairOf(p) : p \in UNION {asserted(r) : r \in Range(Relations[m])}}
<1>1. DOMAIN PairsOf(m, standing, keyOf) = typed \cup {pairOf(p) : p \in together}
  BY DEF PairsOf
<1>2. PICK p \in found : /\ q = pairOf(p)
                         /\ \/ p \in together
                            \/ \E r \in Range(Relations[m]) : p \in asserted(r)
  BY <1>1
<1>3. p[1] \in Range(Says[m]) /\ p[2] \in Range(Says[m])
  <2>1. CASE p \in together
    <3>1. PICK x \in Cooccurring(Says[m]) : p = <<Says[m][x[1]], Says[m][x[2]]>>
      BY <2>1
    <3>2. x[1] \in DOMAIN Says[m] /\ x[2] \in DOMAIN Says[m]
      BY DEF Cooccurring
    <3> QED
      BY <3>1, <3>2 DEF Range
  <2>2. CASE \E r \in Range(Relations[m]) : p \in asserted(r)
    <3>1. PICK j \in DOMAIN Relations[m] : p \in asserted(Relations[m][j])
      BY <2>2 DEF Range
    <3>2. p[1] \in Entities /\ p[2] \in Entities /\ NameOf[p[1]] = Relations[m][j][1]
          /\ NameOf[p[2]] = Relations[m][j][2]
      BY <3>1
    <3> QED
      BY <3>2 DEF RelatesOwn
  <2> QED
    BY <1>2, <2>1, <2>2
<1>4. p[1] \in DOMAIN keyOf /\ p[2] \in DOMAIN keyOf
  BY <1>2
<1>5. {q[1], q[2]} = {keyOf[p[1]], keyOf[p[2]]}
  BY <1>2, EndsOfPair
<1> QED
  BY <1>3, <1>4, <1>5 DEF SaysPair

SaidPairs(said) == UNION {DOMAIN said[i] : i \in DOMAIN said}
Saying(said, p) == {i \in DOMAIN said : p \in DOMAIN said[i]}

LEMMA RelateCounts ==
  ASSUME NEW g, WellFormed(g), NEW ms, NEW said, NEW h, h = Relate(g, ms, said)
  PROVE  /\ \A p \in DOMAIN g.relates \ SaidPairs(said) : h.relates[p] = g.relates[p]
         /\ \A p \in SaidPairs(said) :
              /\ h.relates[p].corroboration = Cardinality(Saying(said, p))
                   + (IF p \in DOMAIN g.relates THEN g.relates[p].corroboration ELSE 0)
              /\ h.relates[p].evidence = SumFunctionOnSet(Weights(ms), Saying(said, p))
                   + (IF p \in DOMAIN g.relates THEN g.relates[p].evidence ELSE 0)
<1> DEFINE old == g.relates
           pairs == UNION {DOMAIN said[i] : i \in DOMAIN said}
           by(p) == {i \in DOMAIN said : p \in DOMAIN said[i]}
           had(p) == p \in DOMAIN old
           corroboration(p) == Cardinality(by(p)) + (IF had(p) THEN old[p].corroboration ELSE 0)
           evidence(p) == SumFunctionOnSet(Weights(ms), by(p))
                            + (IF had(p) THEN old[p].evidence ELSE 0)
           relates ==
             [p \in DOMAIN old \cup pairs |->
                IF p \notin pairs THEN old[p]
                ELSE [kind |-> said[Max(by(p))][p],
                      corroboration |-> corroboration(p), evidence |-> evidence(p)]]
<1>1. h = [g EXCEPT !.relates = relates]
  BY DEF Relate
<1>2. ASSUME NEW p \in DOMAIN old \ pairs PROVE relates[p] = old[p]
  OBVIOUS
<1>3. ASSUME NEW p \in pairs
      PROVE  relates[p].corroboration = corroboration(p) /\ relates[p].evidence = evidence(p)
  <2> HIDE DEF corroboration, evidence
  <2> QED
    OBVIOUS
<1> HIDE DEF relates
<1>4. h.relates = relates
  BY <1>1, GraphFields DEF WellFormed
<1> QED
  BY <1>2, <1>3, <1>4 DEF SaidPairs, Saying

(* A call's memories are finitely many.                                       *)
LEMMA CallFinite ==
  ASSUME EntityInv, CorroborationInv, NEW w \in Writers
  PROVE  IsFiniteSet(DOMAIN calls[w].ms) /\ \A i \in DOMAIN calls[w].ms : calls[w].ms[i] \in Memories
<1> DEFINE ms == calls[w].ms
           f == [i \in DOMAIN ms |-> ms[i]]
<1>1. \A i \in DOMAIN ms : ms[i] \in Memories
  BY CallFacts DEF CallOK, Range
<1>2. f \in Injection(DOMAIN ms, Memories)
  BY <1>1 DEF CorroborationInv, MemoriesOnce, Injection, IsInjective
<1>3. IsFiniteSet(DOMAIN ms)
  BY <1>2, MemoriesAssumption, FS_Injection
<1> QED
  BY <1>1, <1>3

(* What the memories at some places pay for a pair they all mention.          *)
PlacesOweNoMore(cs, ds, p, ms, B, S) ==
  \A m \in S : Cardinality(Owing(ds, p, m)) + (IF m \in AtPlaces(ms, B) THEN 1 ELSE 0)
                 <= Cardinality(Owing(cs, p, m))

LEMMA PlacesPay ==
  ASSUME NEW cs, NEW times, Affordable(cs, times), NEW ds, Affordable(ds, times),
         NEW p, NEW S \in SUBSET Memories, NEW weight \in [Memories -> Nat],
         NEW ms, NEW B, NEW terms, PlacesWeigh(terms, ms, B, S, weight),
         PlacesOweNoMore(cs, ds, p, ms, B, S)
  PROVE  /\ SumFunctionOnSet(terms, B) \in Nat
         /\ SumFunctionOnSet(Paid(cs, times, p, weight), S) \in Nat
         /\ SumFunctionOnSet(Paid(cs, times, p, weight), S) + SumFunctionOnSet(terms, B)
              <= SumFunctionOnSet(Paid(ds, times, p, weight), S)
<1> DEFINE x == Paid(cs, times, p, weight)
           y == Paid(ds, times, p, weight)
           at == AtPlaces(ms, B)
<1>1. AllNat(x, S) /\ AllNat(y, S)
  BY PaidIsNat
<1>2. ASSUME NEW m \in S PROVE x[m] + (IF m \in at THEN weight[m] ELSE 0) <= y[m]
  <2> DEFINE one == IF m \in at THEN 1 ELSE 0
  <2> PICK a \in Nat, b \in Nat : a = times[m] - Cardinality(Owing(cs, p, m))
                                  /\ b = times[m] - Cardinality(Owing(ds, p, m))
    <3>1. times[m] - Cardinality(Owing(cs, p, m)) \in Nat /\ times[m] - Cardinality(Owing(ds, p, m)) \in Nat
      BY OwingFinite DEF Affordable
    <3> QED
      BY <3>1
  <2>1. a + one <= b
    <3>1. Cardinality(Owing(ds, p, m)) + one <= Cardinality(Owing(cs, p, m)) /\ one \in Nat
      BY DEF PlacesOweNoMore
    <3>2. times[m] \in Nat
      BY DEF Affordable
    <3> HIDE DEF one
    <3> QED
      BY <3>1, <3>2, OwingFinite
  <2>2. weight[m] \in Nat
    OBVIOUS
  <2>3. x[m] = a * weight[m] /\ y[m] = b * weight[m]
    BY DEF Paid
  <2> HIDE DEF x, y, at
  <2>4. CASE m \in at
    BY <2>1, <2>2, <2>3, <2>4, TimesMore
  <2>5. CASE m \notin at
    <3>1. a * weight[m] \in Nat /\ a * weight[m] <= b * weight[m]
      BY <2>1, <2>2, <2>5, TimesGrows
    <3> QED
      BY <2>3, <2>5, <3>1
  <2> QED
    BY <2>4, <2>5
<1>3. Outweighs(y, x, S, at, weight)
  <2>1. \A m \in S : weight[m] \in Nat
    OBVIOUS
  <2> HIDE DEF x, y, at
  <2> QED
    BY <1>2, <2>1 DEF Outweighs
<1> HIDE DEF x, y
<1>4. AllNat(terms, B) /\ SumFunctionOnSet(x, S) + SumFunctionOnSet(terms, B) <= SumFunctionOnSet(y, S)
  BY <1>1, <1>3, SumOfPlaces
<1> QED
  BY <1>1, <1>4, SumIsNat DEF x, y

(* A pair that some memories said, and one that none said.                    *)
LEMMA SaidCovered ==
  ASSUME NEW g, PairsCounted(g), NEW cs, NEW times, Affordable(cs, times), Covered(g, cs, times),
         NEW ds, Affordable(ds, times), NEW p, NEW ms, NEW B, IsFiniteSet(B),
         \A i, j \in B : ms[i] = ms[j] => i = j, \A i \in B : ms[i] \in Both(g, p),
         \A i \in B : Weights(ms)[i] = Reliability[ms[i]],
         \A m \in Memories : Cardinality(Owing(ds, p, m)) + (IF m \in AtPlaces(ms, B) THEN 1 ELSE 0)
                               <= Cardinality(Owing(cs, p, m)),
         NEW n, n = Cardinality(B) + (IF p \in DOMAIN g.relates THEN g.relates[p].corroboration ELSE 0),
         NEW v, v = SumFunctionOnSet(Weights(ms), B)
                      + (IF p \in DOMAIN g.relates THEN g.relates[p].evidence ELSE 0)
  PROVE  /\ n <= SumFunctionOnSet(Paid(ds, times, p, Ones), Both(g, p))
         /\ v <= SumFunctionOnSet(Paid(ds, times, p, Reliability), Both(g, p))
<1> DEFINE S == Both(g, p)
           ones == [i \in B |-> 1]
           x(weight) == SumFunctionOnSet(Paid(cs, times, p, weight), S)
           y(weight) == SumFunctionOnSet(Paid(ds, times, p, weight), S)
<1>1. S \in SUBSET Memories
  BY BothAreMemories
<1>2. Ones \in [Memories -> Nat] /\ Reliability \in [Memories -> Nat]
  BY MemoriesAssumption DEF Ones
<1>3. PlacesOweNoMore(cs, ds, p, ms, B, S)
  <2>1. \A m \in S : m \in Memories
    BY <1>1
  <2> HIDE DEF S
  <2> QED
    BY <2>1 DEF PlacesOweNoMore
<1>4. PlacesWeigh(ones, ms, B, S, Ones) /\ PlacesWeigh(Weights(ms), ms, B, S, Reliability)
  <2>1. \A i \in B : ms[i] \in S
    OBVIOUS
  <2>2. \A i \in B : ones[i] = Ones[ms[i]]
    BY <1>1, <2>1 DEF Ones
  <2> HIDE DEF S, ones
  <2> QED
    BY <2>1, <2>2 DEF PlacesWeigh
<1>5. SumFunctionOnSet(ones, B) = Cardinality(B)
  BY SumOfOnes
<1> HIDE DEF ones
<1>6. x(Ones) \in Nat /\ Cardinality(B) \in Nat /\ x(Ones) + Cardinality(B) <= y(Ones)
  <2>1. /\ SumFunctionOnSet(ones, B) \in Nat /\ x(Ones) \in Nat
        /\ x(Ones) + SumFunctionOnSet(ones, B) <= y(Ones)
    <3> HIDE DEF S
    <3> QED
      BY <1>1, <1>2, <1>3, <1>4, PlacesPay
  <2> QED
    BY <1>5, <2>1
<1>7. /\ SumFunctionOnSet(Weights(ms), B) \in Nat /\ x(Reliability) \in Nat
      /\ x(Reliability) + SumFunctionOnSet(Weights(ms), B) <= y(Reliability)
  <2> HIDE DEF S
  <2> QED
    BY <1>1, <1>2, <1>3, <1>4, PlacesPay
<1>8. y(Ones) \in Nat /\ y(Reliability) \in Nat
  BY <1>1, <1>2, PaidIsNat, SumIsNat
<1>9. CASE p \in DOMAIN g.relates
  <2>1. /\ g.relates[p].corroboration \in Nat /\ g.relates[p].evidence \in Nat
        /\ g.relates[p].corroboration <= x(Ones) /\ g.relates[p].evidence <= x(Reliability)
    BY <1>9 DEF PairsCounted, Covered
  <2>2. n = Cardinality(B) + g.relates[p].corroboration
        /\ v = SumFunctionOnSet(Weights(ms), B) + g.relates[p].evidence
    BY <1>9
  <2> HIDE DEF x, y
  <2>3. n <= y(Ones) /\ v <= y(Reliability)
    BY <1>6, <1>7, <1>8, <2>1, <2>2
  <2> QED
    BY <2>3 DEF y
<1>10. CASE p \notin DOMAIN g.relates
  <2>1. n = Cardinality(B) + 0 /\ v = SumFunctionOnSet(Weights(ms), B) + 0
    BY <1>10
  <2> HIDE DEF x, y
  <2>2. n <= y(Ones) /\ v <= y(Reliability)
    BY <1>6, <1>7, <1>8, <2>1
  <2> QED
    BY <2>2 DEF y
<1> QED
  BY <1>9, <1>10

(* A step of a call that relates what some places said and then owes it no more. *)
LEMMA RelateOwes ==
  ASSUME EntityInv, CorroborationInv, NEW w \in Writers, NEW said, NEW d,
         calls[w].pc = "relate", graph' = Relate(graph, calls[w].ms, said),
         calls' = [calls EXCEPT ![w] = d], UNCHANGED <<purge, fed>>,
         DOMAIN said \subseteq DOMAIN calls[w].ms, d.ms = calls[w].ms, d.keyOf = calls[w].keyOf,
         d.pc # "mention", TodoSaid(d),
         \A p : \A m \in Memories : Owes(d, p, m) => Owes(calls[w], p, m),
         \A i \in DOMAIN said : \A p \in DOMAIN said[i] : \A j \in DOMAIN calls[w].ms :
           Owes(calls[w], p, calls[w].ms[j]) /\ ~Owes(d, p, calls[w].ms[j]),
         AllRelateOwn => \A i \in DOMAIN said : \A p \in DOMAIN said[i] :
                           SaysPair(calls[w].ms[i], calls[w].keyOf, p)
  PROVE  CorroborationInv'
<1> DEFINE c == calls[w]
           pairs == SaidPairs(said)
           by(p) == Saying(said, p)
<1>1. /\ WellFormed(graph) /\ DOMAIN calls = Writers /\ MemoriesOnce(c) /\ IsFiniteSet(DOMAIN c.ms)
      /\ Affordable(calls, fed) /\ PairsCounted(graph) /\ \A i \in DOMAIN c.ms : c.ms[i] \in Memories
  BY CallFacts, CallFinite DEF CorroborationInv, EntityInv, GraphTypes
<1>2. /\ graph'.mentions = graph.mentions
      /\ DOMAIN graph'.relates = DOMAIN graph.relates \cup pairs
  BY <1>1, RelateAdds DEF SaidPairs
<1>3. /\ \A p \in DOMAIN graph.relates \ pairs : graph'.relates[p] = graph.relates[p]
      /\ \A p \in pairs :
           /\ graph'.relates[p].corroboration = Cardinality(by(p))
                + (IF p \in DOMAIN graph.relates THEN graph.relates[p].corroboration ELSE 0)
           /\ graph'.relates[p].evidence = SumFunctionOnSet(Weights(c.ms), by(p))
                + (IF p \in DOMAIN graph.relates THEN graph.relates[p].evidence ELSE 0)
  BY <1>1, RelateCounts
<1>4. \A p : by(p) \in SUBSET DOMAIN c.ms /\ IsFiniteSet(by(p))
  BY <1>1, FS_Subset DEF Saying
<1>6. \A p : \A i \in by(p) : i \in DOMAIN said /\ p \in DOMAIN said[i] /\ i \in DOMAIN c.ms
  BY DEF Saying
<1> HIDE DEF pairs, by
<1>7. \A i \in DOMAIN c.ms : Weights(c.ms)[i] = Reliability[c.ms[i]] /\ Reliability[c.ms[i]] \in Nat
  BY <1>1, MemoriesAssumption DEF Weights
<1>8. ASSUME NEW p PROVE AllNat(Weights(c.ms), by(p)) /\ Cardinality(by(p)) \in Nat
  BY <1>4, <1>7, FS_CardinalityType DEF AllNat
<1>9. PairsCounted(graph')
  <2> SUFFICES ASSUME NEW p \in DOMAIN graph'.relates
               PROVE  graph'.relates[p].corroboration \in Nat /\ graph'.relates[p].evidence \in Nat
    BY DEF PairsCounted
  <2>1. p \in DOMAIN graph.relates =>
          graph.relates[p].corroboration \in Nat /\ graph.relates[p].evidence \in Nat
    BY <1>1 DEF PairsCounted
  <2>2. SumFunctionOnSet(Weights(c.ms), by(p)) \in Nat /\ Cardinality(by(p)) \in Nat
    BY <1>8, SumIsNat
  <2>3. CASE p \in pairs
    BY <1>3, <2>1, <2>2, <2>3
  <2>4. CASE p \notin pairs
    BY <1>2, <1>3, <2>1, <2>4
  <2> QED
    BY <2>3, <2>4
<1>10. ASSUME NEW m \in Memories, NEW p
       PROVE  /\ Cardinality(Owing(calls', p, m)) <= Cardinality(Owing(calls, p, m))
              /\ Cardinality(Owing(calls', p, m)) \in Nat /\ Cardinality(Owing(calls, p, m)) \in Nat
              /\ fed[m] \in Nat /\ Cardinality(Owing(calls, p, m)) <= fed[m]
  BY <1>1, OwingMoves, OwingFinite DEF Affordable
<1>11. Affordable(calls', fed')
  <2>1. \A m \in Memories : \A p : Cardinality(Owing(calls', p, m)) <= fed[m]
    <3> SUFFICES ASSUME NEW m \in Memories, NEW p PROVE Cardinality(Owing(calls', p, m)) <= fed[m]
      OBVIOUS
    <3> PICK a, b : a = Cardinality(Owing(calls', p, m)) /\ b = Cardinality(Owing(calls, p, m))
      OBVIOUS
    <3>1. a \in Nat /\ b \in Nat /\ fed[m] \in Nat /\ a <= b /\ b <= fed[m]
      BY <1>10
    <3> QED
      BY <3>1
  <2> QED
    BY <1>1, <2>1 DEF Affordable
<1>12. \A v \in Writers : v # w => calls'[v] = calls[v]
  BY <1>1
<1>13. calls'[w] = d
  BY <1>1
<1>14. MemoriesOnce(d) /\ (Linked(graph, c) => Linked(graph', d))
  BY <1>1, <1>2 DEF MemoriesOnce, Linked
<1>15. \A v \in Writers : Linked(graph, calls[v]) => Linked(graph', calls'[v])
  <2> SUFFICES ASSUME NEW v \in Writers, v # w PROVE Linked(graph, calls[v]) => Linked(graph', calls[v])
    BY <1>12, <1>13, <1>14
  <2> QED
    BY <1>2 DEF Linked
<1>16. ASSUME Covered(graph, calls, fed), Linked(graph, c), AllRelateOwn
       PROVE  Covered(graph', calls', fed')
  <2> SUFFICES ASSUME NEW p \in DOMAIN graph'.relates
               PROVE  /\ graph'.relates[p].corroboration
                           <= SumFunctionOnSet(Paid(calls', fed, p, Ones), Both(graph', p))
                      /\ graph'.relates[p].evidence
                           <= SumFunctionOnSet(Paid(calls', fed, p, Reliability), Both(graph', p))
    BY DEF Covered
  <2>1. Both(graph', p) = Both(graph, p)
    BY <1>2 DEF Both, Mentioners
  <2>2. CASE p \in pairs
    <3>1. \A i \in by(p) : c.ms[i] \in Both(graph, p)
      <4> SUFFICES ASSUME NEW i \in by(p) PROVE c.ms[i] \in Both(graph, p)
        OBVIOUS
      <4>1. i \in DOMAIN said /\ p \in DOMAIN said[i] /\ i \in DOMAIN c.ms
        BY <1>6
      <4>2. PICK e, f \in DOMAIN c.keyOf \cap Range(Says[c.ms[i]]) :
                   {p[1], p[2]} = {c.keyOf[e], c.keyOf[f]}
        BY <1>16, <4>1 DEF SaysPair
      <4>3. <<c.ms[i], c.keyOf[e]>> \in graph.mentions /\ <<c.ms[i], c.keyOf[f]>> \in graph.mentions
        BY <1>16, <4>1, <4>2 DEF Linked
      <4>4. <<c.ms[i], p[1]>> \in graph.mentions /\ <<c.ms[i], p[2]>> \in graph.mentions
        BY <4>2, <4>3
      <4> QED
        BY <1>1, <4>1, <4>4 DEF Both, Mentioners
    <3>2. \A m \in Memories : Cardinality(Owing(calls', p, m))
             + (IF m \in AtPlaces(c.ms, by(p)) THEN 1 ELSE 0) <= Cardinality(Owing(calls, p, m))
      <4> SUFFICES ASSUME NEW m \in Memories
                   PROVE  Cardinality(Owing(calls', p, m))
                            + (IF m \in AtPlaces(c.ms, by(p)) THEN 1 ELSE 0)
                            <= Cardinality(Owing(calls, p, m))
        OBVIOUS
      <4>1. CASE m \in AtPlaces(c.ms, by(p))
        <5>1. PICK i \in by(p) : m = c.ms[i]
          BY <4>1 DEF AtPlaces
        <5>2. Owes(c, p, m) /\ ~Owes(d, p, m)
          BY <1>6, <5>1
        <5>3. Cardinality(Owing(calls', p, m)) + 1 <= Cardinality(Owing(calls, p, m))
          BY <1>1, <5>2, OwingMoves
        <5> QED
          BY <4>1, <5>3
      <4>2. CASE m \notin AtPlaces(c.ms, by(p))
        <5> PICK a : a = Cardinality(Owing(calls', p, m))
          OBVIOUS
        <5>1. a \in Nat /\ a <= Cardinality(Owing(calls, p, m))
          BY <1>10
        <5>2. a + 0 = a
          BY <5>1
        <5> QED
          BY <4>2, <5>1, <5>2
      <4> QED
        BY <4>1, <4>2
    <3>3. \A i, j \in by(p) : c.ms[i] = c.ms[j] => i = j
      BY <1>1, <1>6 DEF MemoriesOnce
    <3>4. \A i \in by(p) : Weights(c.ms)[i] = Reliability[c.ms[i]]
      BY <1>6, <1>7
    <3>5. PICK n, v : n = graph'.relates[p].corroboration /\ v = graph'.relates[p].evidence
      OBVIOUS
    <3>6. /\ n = Cardinality(by(p))
                   + (IF p \in DOMAIN graph.relates THEN graph.relates[p].corroboration ELSE 0)
          /\ v = SumFunctionOnSet(Weights(c.ms), by(p))
                   + (IF p \in DOMAIN graph.relates THEN graph.relates[p].evidence ELSE 0)
      BY <1>3, <2>2, <3>5
    <3> PICK B, ms, ds : B = by(p) /\ ms = c.ms /\ ds = calls'
      OBVIOUS
    <3>7. IsFiniteSet(B) /\ Affordable(ds, fed)
      BY <1>4, <1>11
    <3>8. /\ n <= SumFunctionOnSet(Paid(ds, fed, p, Ones), Both(graph, p))
          /\ v <= SumFunctionOnSet(Paid(ds, fed, p, Reliability), Both(graph, p))
      BY <1>1, <1>16, <3>1, <3>2, <3>3, <3>4, <3>6, <3>7, SaidCovered
    <3> QED
      BY <2>1, <3>5, <3>8
  <2>3. CASE p \notin pairs
    <3>1. p \in DOMAIN graph.relates /\ graph'.relates[p] = graph.relates[p]
      BY <1>2, <1>3, <2>3
    <3> DEFINE g == [graph EXCEPT !.relates = [q \in {p} |-> graph.relates[p]]]
    <3>2. g.relates = [q \in {p} |-> graph.relates[p]] /\ g.mentions = graph.mentions
      <4> PICK r : r = [q \in {p} |-> graph.relates[p]]
        OBVIOUS
      <4> QED
        BY <1>1, GraphFields DEF WellFormed
    <3> HIDE DEF g
    <3>3. DOMAIN g.relates = {p} /\ g.relates[p] = graph.relates[p] /\ Both(g, p) = Both(graph, p)
      BY <3>2 DEF Both, Mentioners
    <3>4. PairsCounted(g) /\ Covered(g, calls, fed)
      BY <1>1, <1>16, <3>1, <3>3 DEF PairsCounted, Covered
    <3>5. \A m \in Memories : \A q : fed[m] + Cardinality(Owing(calls', q, m))
                                       <= fed[m] + Cardinality(Owing(calls, q, m))
      <4> SUFFICES ASSUME NEW m \in Memories, NEW q
                   PROVE  fed[m] + Cardinality(Owing(calls', q, m))
                            <= fed[m] + Cardinality(Owing(calls, q, m))
        OBVIOUS
      <4> PICK a, b : a = Cardinality(Owing(calls', q, m)) /\ b = Cardinality(Owing(calls, q, m))
        OBVIOUS
      <4>1. a \in Nat /\ b \in Nat /\ fed[m] \in Nat /\ a <= b
        BY <1>10
      <4> QED
        BY <4>1
    <3>6. Covered(g, calls', fed)
      BY <1>1, <1>11, <3>4, <3>5, StaysCovered
    <3> QED
      BY <2>1, <3>1, <3>3, <3>6 DEF Covered
  <2> QED
    BY <2>2, <2>3
<1>17. \A v \in Writers : MemoriesOnce(calls'[v]) /\ TodoSaid(calls'[v])
  BY <1>12, <1>13, <1>14 DEF CorroborationInv
<1>18. (Purging' <=> Purging)
  BY DEF Purging
<1> QED
  BY <1>9, <1>11, <1>15, <1>16, <1>17, <1>18 DEF CorroborationInv

LEMMA RelateOneOwes ==
  ASSUME EntityInv, CorroborationInv, NEW w \in Writers, RelateOne(w)
  PROVE  CorroborationInv'
<1> DEFINE c == calls[w]
<1>1. PICK p \in c.todo : /\ graph' = Relate(graph, c.ms, <<Restrict(SaidAlone(c), {p})>>)
                          /\ Go(w, [c EXCEPT !.todo = @ \ {p}])
  BY DEF RelateOne
<1> DEFINE said == <<Restrict(SaidAlone(c), {p})>>
           d == [c EXCEPT !.todo = @ \ {p}]
<1>2. /\ c.pc = "relate" /\ ~c.many /\ graph' = Relate(graph, c.ms, said)
      /\ calls' = [calls EXCEPT ![w] = d] /\ UNCHANGED <<purge, fed>>
  BY <1>1 DEF RelateOne, Go
<1>3. /\ DOMAIN c = DOMAIN Idle /\ DOMAIN c.ms = {1} /\ TodoSaid(c)
      /\ Range(c.ms) \subseteq Memories /\ \A i \in DOMAIN c.ms : c.ms[i] \in Memories
  BY <1>2, CallFacts, CallFinite DEF CallOK, CorroborationInv
<1>4. /\ d.pc = "relate" /\ d.keyOf = c.keyOf /\ d.many = c.many /\ d.ms = c.ms
      /\ d.todo = c.todo \ {p}
  BY <1>2, <1>3 DEF Idle
<1>5. DOMAIN said = {1} /\ DOMAIN said[1] = {p}
  <2>1. DOMAIN said = {1} /\ said[1] = Restrict(SaidAlone(c), {p})
    OBVIOUS
  <2> QED
    BY <2>1 DEF Restrict
<1>6. p \in DOMAIN SaidAlone(c)
  BY <1>1, <1>2, <1>3 DEF TodoSaid
<1> HIDE DEF d, said
<1>7. SaidAlone(d) = SaidAlone(c)
  BY <1>4 DEF SaidAlone
<1>8. TodoSaid(d)
  BY <1>2, <1>3, <1>4, <1>7 DEF TodoSaid
<1>9. \A q : \A m \in Memories : Owes(d, q, m) => Owes(c, q, m)
  BY <1>2, <1>4 DEF Owes
<1>10. \A i \in DOMAIN said : \A q \in DOMAIN said[i] : \A j \in DOMAIN c.ms :
         Owes(c, q, c.ms[j]) /\ ~Owes(d, q, c.ms[j])
  BY <1>1, <1>2, <1>4, <1>5 DEF Owes, Range
<1>11. ASSUME AllRelateOwn
       PROVE  \A i \in DOMAIN said : \A q \in DOMAIN said[i] :
                SaysPair(c.ms[i], c.keyOf, q)
  <2>1. Standing(c.ms, {}) \in SUBSET Entities
    BY <1>3, EntitiesOfTyped DEF Standing
  <2>2. RelatesOwn(c.ms[1]) /\ 1 \in DOMAIN c.ms
    BY <1>3, <1>11 DEF AllRelateOwn
  <2>3. p \in DOMAIN PairsOf(c.ms[1], Standing(c.ms, {}), c.keyOf)
    BY <1>6 DEF SaidAlone
  <2>4. SaysPair(c.ms[1], c.keyOf, p)
    BY <2>1, <2>2, <2>3, PairsAreSaid
  <2> QED
    BY <1>5, <2>4
<1>12. DOMAIN said \subseteq DOMAIN c.ms /\ d.pc # "mention"
  BY <1>3, <1>4, <1>5
<1> QED
  BY <1>2, <1>4, <1>8, <1>9, <1>10, <1>11, <1>12, RelateOwes

LEMMA RelateManyOwes ==
  ASSUME EntityInv, CorroborationInv, NEW w \in Writers, RelateMany(w)
  PROVE  CorroborationInv'
<1> DEFINE c == calls[w]
           standing == Standing(c.ms, Merged(c.pool, EntitiesOf(c.ms)))
           said == [i \in DOMAIN c.ms |-> PairsOf(c.ms[i], standing, c.keyOf)]
           d == [c EXCEPT !.pc = "return"]
<1>1. /\ c.pc = "relate" /\ c.many /\ graph' = Relate(graph, c.ms, said)
      /\ calls' = [calls EXCEPT ![w] = d] /\ UNCHANGED <<purge, fed>>
  BY DEF RelateMany, RelateBatch, Go
<1>2. /\ DOMAIN c = DOMAIN Idle /\ Range(c.ms) \subseteq Memories
      /\ \A i \in DOMAIN c.ms : c.ms[i] \in Memories
  BY CallFacts, CallFinite DEF CallOK
<1>3. d.pc = "return" /\ d.keyOf = c.keyOf /\ d.ms = c.ms
  BY <1>2 DEF Idle
<1>4. standing \in SUBSET Entities
  BY <1>2, EntitiesOfTyped DEF Standing
<1> HIDE DEF standing
<1>5. DOMAIN said = DOMAIN c.ms /\ \A i \in DOMAIN said : said[i] = PairsOf(c.ms[i], standing, c.keyOf)
  OBVIOUS
<1> HIDE DEF d, said
<1>6. TodoSaid(d) /\ \A q : \A m \in Memories : ~Owes(d, q, m)
  BY <1>3 DEF TodoSaid, Owes
<1>7. \A i \in DOMAIN said : \A q \in DOMAIN said[i] : \A j \in DOMAIN c.ms :
         Owes(c, q, c.ms[j]) /\ ~Owes(d, q, c.ms[j])
  BY <1>1, <1>3 DEF Owes, Range
<1>8. ASSUME AllRelateOwn
      PROVE  \A i \in DOMAIN said : \A q \in DOMAIN said[i] :
                SaysPair(c.ms[i], c.keyOf, q)
  <2> SUFFICES ASSUME NEW i \in DOMAIN said, NEW q \in DOMAIN said[i]
               PROVE  SaysPair(c.ms[i], c.keyOf, q)
    OBVIOUS
  <2>1. i \in DOMAIN c.ms /\ RelatesOwn(c.ms[i]) /\ q \in DOMAIN PairsOf(c.ms[i], standing, c.keyOf)
    BY <1>2, <1>5, <1>8 DEF AllRelateOwn
  <2> QED
    BY <1>4, <2>1, PairsAreSaid
<1> QED
  BY <1>1, <1>3, <1>5, <1>6, <1>7, <1>8, RelateOwes

-----------------------------------------------------------------------------
(* Seeds and purges owe nothing.                                              *)

LEMMA SeedOwes ==
  ASSUME EntityInv, CorroborationInv, NEW s \in Seeds, Seed(s[1], s[2])
  PROVE  CorroborationInv'
<1>1. graph' = SeedUpsert(graph, s[1], s[2]) /\ UNCHANGED <<calls, purge, fed>>
  BY DEF Seed
<1>2. WellFormed(graph) /\ s[1] \in Entities
  BY MemoriesAssumption DEF EntityInv, GraphTypes
<1>3. SameEdges(graph, graph')
  BY <1>1, <1>2, SeedKeeps
<1>4. graph'.relates = graph.relates /\ graph'.mentions = graph.mentions
  BY <1>3 DEF SameEdges
<1> QED
  BY <1>1, <1>4 DEF CorroborationInv, PairsCounted, Covered, Both, Mentioners, Linked, Purging

LEMMA PurgeOwes ==
  ASSUME EntityInv, CorroborationInv,
         (\E scope \in PurgeScopes : PurgeStart(scope)) \/ PurgeCrash \/ PurgeStep
  PROVE  CorroborationInv'
<1>1. /\ PairsCounted(graph) /\ Affordable(calls, fed) /\ purge.count \in Nat
      /\ \A w \in Writers : MemoriesOnce(calls[w]) /\ TodoSaid(calls[w])
      /\ DOMAIN purge = {"step", "scope", "ids", "keys", "count"} /\ WellFormed(graph)
      /\ Purging => purge.count > 0
  BY DEF CorroborationInv, EntityInv, GraphTypes
<1>2. UNCHANGED <<calls, fed>> /\ purge'.count \in Nat /\ purge'.count > 0 /\ PairsCounted(graph')
  <2>1. CASE \E scope \in PurgeScopes : PurgeStart(scope)
    <3>1. PICK scope \in PurgeScopes : PurgeStart(scope)
      BY <2>1
    <3>2. /\ UNCHANGED <<graph, calls, fed>>
          /\ purge' = [step |-> 1, scope |-> scope, ids |-> {}, keys |-> {},
                       count |-> purge.count + 1]
      BY <3>1 DEF PurgeStart
    <3>3. purge'.count = purge.count + 1
      BY <3>2
    <3> QED
      BY <1>1, <3>2, <3>3
  <2>2. CASE PurgeCrash
    <3>1. Purging /\ UNCHANGED <<graph, calls, fed>> /\ purge' = [purge EXCEPT !.step = 0]
      BY <2>2 DEF PurgeCrash
    <3>2. purge'.count = purge.count
      BY <1>1, <3>1
    <3> QED
      BY <1>1, <3>1, <3>2
  <2>3. CASE PurgeStep
    <3>1. Purging /\ UNCHANGED <<calls, fed>> /\ purge.step \in 1..9
      BY <2>3, PurgeFacts DEF PurgeStep
    <3>2. purge'.count = purge.count /\ DOMAIN graph'.relates \subseteq DOMAIN graph.relates
          /\ \A p \in DOMAIN graph'.relates : graph'.relates[p] = graph.relates[p]
      <4>1. CASE purge.step \in 1..3
        <5>1. purge.step = 1 \/ purge.step = 2 \/ purge.step = 3
          BY <4>1
        <5>2. PurgePlan[purge.step] \in {"collect memories", "collect entities", "collect episodes"}
          BY <5>1, PlanSteps
        <5>3. Collect(PurgePlan[purge.step])
          BY <2>3, <5>2 DEF PurgeStep
        <5>4. graph' = graph
          BY <5>3 DEF Collect
        <5>5. purge'.count = purge.count
          <6>1. CASE purge.step = 1
            <7>1. purge' = [purge EXCEPT !.step = @ + 1, !.ids = DocsInScope("memories")]
              BY <5>3, <6>1, PlanSteps DEF Collect
            <7> QED
              BY <1>1, <7>1
          <6>2. CASE purge.step = 2
            <7>1. purge' = [purge EXCEPT !.step = @ + 1, !.keys = EntitiesInScope]
              BY <5>3, <6>2, PlanSteps DEF Collect
            <7> QED
              BY <1>1, <7>1
          <6>3. CASE purge.step = 3
            <7>1. purge' = [purge EXCEPT !.step = @ + 1, !.ids = @ \cup DocsInScope("episodes")]
              BY <5>3, <6>3, PlanSteps DEF Collect
            <7> QED
              BY <1>1, <7>1
          <6> QED
            BY <5>1, <6>1, <6>2, <6>3
        <5> QED
          BY <5>4, <5>5
      <4>2. CASE purge.step \in 4..6
        <5>1. purge.step = 4 \/ purge.step = 5 \/ purge.step = 6
          BY <4>2
        <5>2. PurgePlan[purge.step] \in {"mentions", "relates_to", "produced_by"}
          BY <5>1, PlanSteps
        <5>3. RemoveEdges(PurgePlan[purge.step])
          BY <2>3, <5>2 DEF PurgeStep
        <5>4. purge' = [purge EXCEPT !.step = @ + 1]
          BY <5>3 DEF RemoveEdges
        <5>5. purge'.count = purge.count
          BY <1>1, <5>4
        <5>6. CASE purge.step = 4
          <6>1. \E x : graph' = [graph EXCEPT !.mentions = x]
            BY <5>3, <5>6, PlanSteps DEF RemoveEdges
          <6>2. graph'.relates = graph.relates
            BY <1>1, <6>1, GraphFields DEF WellFormed
          <6> QED
            BY <5>5, <6>2
        <5>7. CASE purge.step = 6
          <6>1. \E x : graph' = [graph EXCEPT !.produced = x]
            BY <5>3, <5>7, PlanSteps DEF RemoveEdges
          <6>2. graph'.relates = graph.relates
            BY <1>1, <6>1, GraphFields DEF WellFormed
          <6> QED
            BY <5>5, <6>2
        <5>8. CASE purge.step = 5
          <6> DEFINE kept == {q \in DOMAIN graph.relates : {q[1], q[2]} \cap purge.keys = {}}
                     relates == [p \in kept |-> graph.relates[p]]
          <6>1. graph' = [graph EXCEPT !.relates = relates]
            BY <5>3, <5>8, PlanSteps DEF RemoveEdges
          <6>2. DOMAIN relates \subseteq DOMAIN graph.relates
                /\ \A p \in DOMAIN relates : relates[p] = graph.relates[p]
            OBVIOUS
          <6> HIDE DEF relates
          <6>3. graph'.relates = relates
            BY <1>1, <6>1, GraphFields DEF WellFormed
          <6> QED
            BY <5>5, <6>2, <6>3
        <5> QED
          BY <5>1, <5>6, <5>7, <5>8
      <4>3. CASE purge.step \in 7..9
        <5>1. purge.step = 7 \/ purge.step = 8 \/ purge.step = 9
          BY <4>3
        <5>2. PurgePlan[purge.step] \in {"memories", "entities", "episodes"}
          BY <5>1, PlanSteps
        <5>3. RemoveDocuments(PurgePlan[purge.step])
          BY <2>3, <5>2 DEF PurgeStep
        <5>4. purge' = [purge EXCEPT !.step = IF @ = Len(PurgePlan) THEN 0 ELSE @ + 1]
          BY <5>3 DEF RemoveDocuments
        <5>5. purge'.count = purge.count
          BY <1>1, <5>4
        <5>6. graph' = graph \/ \E x : graph' = [graph EXCEPT !.rows = x]
          BY <5>3 DEF RemoveDocuments
        <5>7. ASSUME NEW x, graph' = [graph EXCEPT !.rows = x]
              PROVE  graph'.relates = graph.relates
          BY <1>1, <5>7, GraphFields DEF WellFormed
        <5>8. graph'.relates = graph.relates
          BY <5>6, <5>7
        <5> QED
          BY <5>5, <5>8
      <4> QED
        BY <3>1, <4>1, <4>2, <4>3
    <3>3. PairsCounted(graph')
      BY <1>1, <3>2 DEF PairsCounted
    <3> QED
      BY <1>1, <3>1, <3>2, <3>3
  <2> QED
    BY <2>1, <2>2, <2>3
<1>3. purge'.count # 0
  BY <1>2
<1> QED
  BY <1>1, <1>2, <1>3 DEF CorroborationInv

-----------------------------------------------------------------------------
LEMMA InitOwes == Init => CorroborationInv
<1> SUFFICES ASSUME Init PROVE CorroborationInv
  OBVIOUS
<1>1. /\ graph = Stored /\ \A w \in Writers : calls[w] = Idle
      /\ purge.step = 0 /\ purge.count = 0 /\ fed = Once
  BY DEF Init
<1>2. Idle.pc = "idle" /\ DOMAIN Idle.ms = {} /\ DOMAIN Idle.keyOf = {}
  BY DEF Idle
<1>3. \A p : \A m : Owing(calls, p, m) = {}
  BY <1>1, <1>2 DEF Owing, Owes
<1>4. \A p : \A m : Cardinality(Owing(calls, p, m)) = 0
  BY <1>3, FS_EmptySet
<1>5. fed \in [Memories -> Nat]
  BY <1>1 DEF Once
<1>6. Affordable(calls, fed)
  BY <1>4, <1>5 DEF Affordable
<1>7. PairsCounted(graph)
  BY <1>1, StoredAssumption DEF Counted, PairsCounted
<1>8. \A w \in Writers : MemoriesOnce(calls[w]) /\ TodoSaid(calls[w]) /\ Linked(graph, calls[w])
  BY <1>1, <1>2 DEF MemoriesOnce, TodoSaid, Linked
<1>9. ASSUME AllRelateOwn PROVE Covered(graph, calls, fed)
  <2> SUFFICES ASSUME NEW p \in DOMAIN graph.relates
               PROVE  /\ graph.relates[p].corroboration
                           <= SumFunctionOnSet(Paid(calls, fed, p, Ones), Both(graph, p))
                      /\ graph.relates[p].evidence
                           <= SumFunctionOnSet(Paid(calls, fed, p, Reliability), Both(graph, p))
    BY DEF Covered
  <2> DEFINE weighed == [m \in Memories |-> fed[m] * Reliability[m]]
  <2>1. /\ graph.relates[p].corroboration <= SumFunctionOnSet(fed, Both(graph, p))
        /\ graph.relates[p].evidence <= SumFunctionOnSet(weighed, Both(graph, p))
    BY <1>1, <1>9, StoredAssumption DEF Backed, Both
  <2>2. \A m \in Both(graph, p) : m \in Memories
    BY BothAreMemories
  <2>3. \A m \in Memories : Paid(calls, fed, p, Ones)[m] = fed[m]
    <3> SUFFICES ASSUME NEW m \in Memories PROVE Paid(calls, fed, p, Ones)[m] = fed[m]
      OBVIOUS
    <3>1. Paid(calls, fed, p, Ones)[m] = (fed[m] - 0) * 1
      BY <1>4 DEF Paid, Ones
    <3> QED
      BY <1>5, <3>1
  <2>4. \A m \in Memories : Paid(calls, fed, p, Reliability)[m] = weighed[m]
    <3> SUFFICES ASSUME NEW m \in Memories PROVE Paid(calls, fed, p, Reliability)[m] = weighed[m]
      OBVIOUS
    <3>1. Paid(calls, fed, p, Reliability)[m] = (fed[m] - 0) * Reliability[m]
      BY <1>4 DEF Paid
    <3>2. fed[m] - 0 = fed[m]
      BY <1>5
    <3> QED
      BY <3>1, <3>2
  <2>5. Ones \in [Memories -> Nat] /\ Reliability \in [Memories -> Nat]
    BY MemoriesAssumption DEF Ones
  <2>6. AllNat(Paid(calls, fed, p, Ones), Both(graph, p))
        /\ AllNat(Paid(calls, fed, p, Reliability), Both(graph, p))
    BY <1>6, <2>5, PaidIsNat, BothAreMemories
  <2> HIDE DEF weighed
  <2>7. SumFunctionOnSet(fed, Both(graph, p)) = SumFunctionOnSet(Paid(calls, fed, p, Ones), Both(graph, p))
    BY <2>2, <2>3, <2>6, SumSame
  <2>8. SumFunctionOnSet(weighed, Both(graph, p))
          = SumFunctionOnSet(Paid(calls, fed, p, Reliability), Both(graph, p))
    BY <2>2, <2>4, <2>6, SumSame
  <2> QED
    BY <2>1, <2>7, <2>8
<1> QED
  BY <1>1, <1>6, <1>7, <1>8, <1>9 DEF CorroborationInv, Purging

LEMMA WriterOwes ==
  ASSUME EntityInv, CorroborationInv, NEW w \in Writers,
         \/ \E m \in Singles : Check(w, <<m>>, FALSE)
         \/ \E ms \in Batches : Check(w, ms, TRUE)
         \/ Record(w) \/ LookUpIndex(w) \/ Scan(w) \/ Write(w) \/ IncrementMany(w) \/ UpsertMany(w)
         \/ AddMentions(w) \/ AddProducedBy(w) \/ RelateOne(w) \/ RelateMany(w)
         \/ Return(w) \/ Crash(w)
  PROVE  CorroborationInv'
<1>1. CASE \E m \in Singles : Check(w, <<m>>, FALSE)
  <2>1. PICK m \in Singles : Check(w, <<m>>, FALSE)
    BY <1>1
  <2>2. <<m>> \in Seq(Memories)
    BY MemoriesAssumption
  <2> QED
    BY <2>1, <2>2, CheckOwes
<1>2. CASE \E ms \in Batches : Check(w, ms, TRUE)
  BY <1>2, CheckOwes, MemoriesAssumption
<1>3. CASE Record(w) \/ LookUpIndex(w) \/ Scan(w)
  BY <1>3, RecordOwes, LookOwes
<1>4. CASE Write(w) \/ IncrementMany(w) \/ UpsertMany(w)
  BY <1>4, WriteOwes, IncrementOwes
<1>5. CASE AddMentions(w) \/ AddProducedBy(w)
  BY <1>5, MentionOwes, ProduceOwes
<1>6. CASE RelateOne(w) \/ RelateMany(w)
  BY <1>6, RelateOneOwes, RelateManyOwes
<1>7. CASE Return(w) \/ Crash(w)
  BY <1>7, LeaveOwes
<1> QED
  BY <1>1, <1>2, <1>3, <1>4, <1>5, <1>6, <1>7

LEMMA NextOwes == EntityInv /\ CorroborationInv /\ [Next]_graphVars => CorroborationInv'
<1> SUFFICES ASSUME EntityInv, CorroborationInv, [Next]_graphVars PROVE CorroborationInv'
  OBVIOUS
<1>1. CASE UNCHANGED graphVars
  <2>1. graph' = graph /\ calls' = calls /\ fed' = fed /\ purge' = purge
    BY <1>1 DEF graphVars
  <2>2. PairsCounted(graph') /\ Affordable(calls', fed')
    BY <2>1 DEF CorroborationInv
  <2>3. \A w \in Writers : MemoriesOnce(calls'[w]) /\ TodoSaid(calls'[w])
    BY <2>1 DEF CorroborationInv
  <2>4. purge'.count \in Nat /\ (Purging' => purge'.count > 0)
    BY <2>1 DEF CorroborationInv, Purging
  <2>5. purge'.count = 0 /\ AllRelateOwn =>
          Covered(graph', calls', fed') /\ \A w \in Writers : Linked(graph', calls'[w])
    BY <2>1 DEF CorroborationInv
  <2> QED
    BY <2>2, <2>3, <2>4, <2>5 DEF CorroborationInv
<1>2. CASE \E s \in Seeds : Seed(s[1], s[2])
  BY <1>2, SeedOwes
<1>3. CASE (\E scope \in PurgeScopes : PurgeStart(scope)) \/ PurgeCrash \/ PurgeStep
  BY <1>3, PurgeOwes
<1>4. ASSUME NEW w \in Writers,
             \/ \E m \in Singles : Check(w, <<m>>, FALSE)
             \/ \E ms \in Batches : Check(w, ms, TRUE)
             \/ Record(w) \/ LookUpIndex(w) \/ Scan(w) \/ Write(w) \/ IncrementMany(w) \/ UpsertMany(w)
             \/ AddMentions(w) \/ AddProducedBy(w) \/ RelateOne(w) \/ RelateMany(w)
             \/ Return(w) \/ Crash(w)
      PROVE  CorroborationInv'
  BY <1>4, WriterOwes
<1> QED
  BY <1>1, <1>2, <1>3, <1>4 DEF Next

(* As long as memories relate only what they say, and before any purge, a       *)
(* relation has counted only memories that mention both of its ends, each at    *)
(* most once per time it was fed, under every interleaving, merge and crash     *)
(* (ingest/entities.py, the comment at 399 and the corroboration it describes). *)
THEOREM CorroborationIsBacked == Spec => []CorroborationBacked
<1>1. CorroborationInv => CorroborationBacked
  <2> SUFFICES ASSUME CorroborationInv, purge.count = 0, AllRelateOwn,
                      NEW p \in DOMAIN graph.relates
               PROVE  /\ graph.relates[p].corroboration <= SumFunctionOnSet(fed, Both(graph, p))
                      /\ graph.relates[p].evidence
                           <= SumFunctionOnSet([m \in Memories |-> fed[m] * Reliability[m]], Both(graph, p))
    BY DEF CorroborationBacked, Backed, Both
  <2> DEFINE weighed == [m \in Memories |-> fed[m] * Reliability[m]]
             both == Both(graph, p)
  <2>1. /\ Affordable(calls, fed) /\ Covered(graph, calls, fed) /\ PairsCounted(graph)
        /\ both \in SUBSET Memories /\ IsFiniteSet(both)
    BY BothAreMemories, MemoriesAssumption, FS_Subset DEF CorroborationInv
  <2>2. Ones \in [Memories -> Nat] /\ Reliability \in [Memories -> Nat] /\ fed \in [Memories -> Nat]
    BY <2>1, MemoriesAssumption DEF Ones, Affordable
  <2>3. ASSUME NEW weight \in [Memories -> Nat], NEW m \in Memories
        PROVE  /\ fed[m] * weight[m] \in Nat
               /\ Paid(calls, fed, p, weight)[m] <= fed[m] * weight[m]
    <3> PICK a : a = fed[m] - Cardinality(Owing(calls, p, m))
      OBVIOUS
    <3>1. a \in Nat /\ fed[m] \in Nat /\ weight[m] \in Nat /\ a <= fed[m]
      BY <2>1, OwingFinite DEF Affordable
    <3>2. Paid(calls, fed, p, weight)[m] = a * weight[m]
      BY DEF Paid
    <3> QED
      BY <3>1, <3>2, TimesGrows
  <2>4. \A m \in Memories : weighed[m] \in Nat /\ Paid(calls, fed, p, Reliability)[m] <= weighed[m]
    BY <2>2, <2>3
  <2>5. \A m \in Memories : fed[m] \in Nat /\ Paid(calls, fed, p, Ones)[m] <= fed[m]
    <3> SUFFICES ASSUME NEW m \in Memories
                 PROVE  fed[m] \in Nat /\ Paid(calls, fed, p, Ones)[m] <= fed[m]
      OBVIOUS
    <3>1. fed[m] * Ones[m] = fed[m] /\ fed[m] \in Nat
      BY <2>2 DEF Ones
    <3> QED
      BY <2>2, <2>3, <3>1
  <2> HIDE DEF weighed, both
  <2>6. /\ AllNat(fed, both) /\ AllNat(weighed, both)
        /\ AllNat(Paid(calls, fed, p, Ones), both) /\ AllNat(Paid(calls, fed, p, Reliability), both)
    <3>1. AllNat(fed, both) /\ AllNat(weighed, both)
      BY <2>1, <2>4, <2>5 DEF AllNat
    <3> QED
      BY <2>1, <2>2, <3>1, PaidIsNat
  <2>7. /\ SumFunctionOnSet(Paid(calls, fed, p, Ones), both) <= SumFunctionOnSet(fed, both)
        /\ SumFunctionOnSet(Paid(calls, fed, p, Reliability), both) <= SumFunctionOnSet(weighed, both)
    BY <2>1, <2>4, <2>5, <2>6, SumGrows
  <2>8. /\ graph.relates[p].corroboration \in Nat /\ graph.relates[p].evidence \in Nat
        /\ graph.relates[p].corroboration <= SumFunctionOnSet(Paid(calls, fed, p, Ones), both)
        /\ graph.relates[p].evidence <= SumFunctionOnSet(Paid(calls, fed, p, Reliability), both)
    BY <2>1 DEF PairsCounted, Covered, both
  <2>9. /\ SumFunctionOnSet(Paid(calls, fed, p, Ones), both) \in Nat
        /\ SumFunctionOnSet(Paid(calls, fed, p, Reliability), both) \in Nat
        /\ SumFunctionOnSet(fed, both) \in Nat /\ SumFunctionOnSet(weighed, both) \in Nat
    BY <2>6, SumIsNat
  <2>10. graph.relates[p].corroboration <= SumFunctionOnSet(fed, both)
    BY <2>7, <2>8, <2>9
  <2>11. graph.relates[p].evidence <= SumFunctionOnSet(weighed, both)
    BY <2>7, <2>8, <2>9
  <2> QED
    BY <2>10, <2>11 DEF weighed, both
<1> QED
  BY <1>1, EntityInvariant, InitOwes, NextOwes, PTL DEF Spec
-----------------------------------------------------------------------------
(* The counters of the rows.  What is counted is a set of tuples that have a  *)
(* memory for their second part, and weighs what its memories weigh: what a   *)
(* call says of its entities, what it has yet to count, what was fed, and the *)
(* mentions that a call has counted and not drawn yet.                        *)

ByMemory(weight, T) == SumFunctionOnSet([t \in T |-> weight[t[2]]], T)

Heard(m, f) == {e \in Range(Says[m]) : e = f \/ Similarity[e][f] >= MergeThreshold}
Later(c) ==
  IF c.many THEN {} ELSE {Says[c.ms[1]][j] : j \in {n \in DOMAIN Says[c.ms[1]] : n > c.i}}
IsLeft(c, e) ==
  \/ c.pc \in {"look", "write", "increment"} /\ e \in AtHand(c)
  \/ c.pc = "upsert" /\ e \in AtHand(c) /\ MergeTarget(c.pool, e) = NoKey
  \/ c.pc \in {"look", "write", "increment", "upsert", "mention", "produce"} /\ e \in Later(c)

Tellings(ms, X) ==
  {t \in (DOMAIN ms) \X Memories \X X : t[2] = ms[t[1]] /\ t[3] \in Range(Says[t[2]])}
ToCount(cs, f) ==
  {t \in Writers \X Memories \X Entities :
     t[2] \in Range(cs[t[1]].ms) /\ IsLeft(cs[t[1]], t[3]) /\ t[3] \in Heard(t[2], f)}
Fedings(times, f) == UNION {(1..times[m]) \X {m} \X Heard(m, f) : m \in Memories}

Promises(c, k, m) ==
  \E i \in DOMAIN c.ms : \E e \in AtHand(c) :
    /\ c.ms[i] = m /\ e \in Range(Says[m])
    /\ \/ c.pc = "upsert" /\ MergeTarget(c.pool, e) = k
       \/ c.pc = "mention" /\ c.keyOf[e] = k
Promised(cs, k) == {p \in Writers \X Memories : Promises(cs[p[1]], k, p[2])}
Mentionings(g, k) == {k} \X Mentioners(g, k)

RowsCounted(g) == \A k \in Keys(g) : {g.rows[k].mentions, g.rows[k].evidence} \subseteq Nat
(* What a call goes by is true, if it is still there; no key is handed out twice. *)
CallTrue(g, c) ==
  /\ \A k \in DOMAIN c.pool \cap Keys(g) : c.pool[k] = g.rows[k].entity
  /\ \A k \in DOMAIN c.cache \cap Keys(g) : c.cache[k] = g.rows[k].entity
  /\ \A e \in DOMAIN c.keyOf : c.keyOf[e] \in 1..(g.next - 1)
  /\ c.pc \in {"mention", "produce"} => AtHand(c) \subseteq DOMAIN c.keyOf
MentionsOld(g) == \A l \in g.mentions : l[2] \in 1..(g.next - 1)

WithinFed(g, cs, times) ==
  /\ \A f \in Entities : ByMemory(Reliability, ToCount(cs, f)) <= ByMemory(Reliability, Fedings(times, f))
  /\ \A k \in Keys(g) :
       g.rows[k].evidence + ByMemory(Reliability, ToCount(cs, g.rows[k].entity))
         <= ByMemory(Reliability, Fedings(times, g.rows[k].entity))
MentionsCounted(g, cs) ==
  \A k \in Keys(g) :
    /\ ByMemory(Ones, Mentionings(g, k)) + ByMemory(Ones, Promised(cs, k)) <= g.rows[k].mentions
    /\ ByMemory(Reliability, Mentionings(g, k)) + ByMemory(Reliability, Promised(cs, k))
         <= g.rows[k].evidence

CountersInv ==
  /\ RowsCounted(graph) /\ MentionsOld(graph)
  /\ \A w \in Writers : CallTrue(graph, calls[w])
  /\ WithinFed(graph, calls, fed) /\ MentionsCounted(graph, calls)

Tuples(T) == IsFiniteSet(T) /\ \A t \in T : t[2] \in Memories

LEMMA ByMemoryIsNat ==
  ASSUME NEW weight \in [Memories -> Nat], NEW T, Tuples(T)
  PROVE  AllNat([t \in T |-> weight[t[2]]], T) /\ ByMemory(weight, T) \in Nat
<1>1. AllNat([t \in T |-> weight[t[2]]], T)
  BY DEF Tuples, AllNat
<1> QED
  BY <1>1, SumIsNat DEF ByMemory

LEMMA ByMemoryFits ==
  ASSUME NEW weight \in [Memories -> Nat], NEW T, Tuples(T), NEW U, Tuples(U), NEW phi,
         \A t \in T : phi[t] \in U /\ phi[t][2] = t[2],
         \A t, u \in T : phi[t] = phi[u] => t = u
  PROVE  ByMemory(weight, T) <= ByMemory(weight, U)
<1> DEFINE f == [t \in T |-> weight[t[2]]]
           g == [t \in U |-> weight[t[2]]]
<1>1. AllNat(f, T) /\ AllNat(g, U)
  BY ByMemoryIsNat
<1>2. \A t \in T : phi[t] \in U /\ f[t] <= g[phi[t]]
  <2> SUFFICES ASSUME NEW t \in T PROVE phi[t] \in U /\ f[t] <= g[phi[t]]
    OBVIOUS
  <2>1. f[t] \in Nat
    BY <1>1 DEF AllNat
  <2>2. phi[t] \in U /\ f[t] = g[phi[t]]
    OBVIOUS
  <2> HIDE DEF f, g
  <2> QED
    BY <2>1, <2>2
<1> HIDE DEF f, g
<1>3. SumFunctionOnSet(f, T) <= SumFunctionOnSet(g, U)
  BY <1>1, <1>2, SumInjects
<1> QED
  BY <1>3 DEF ByMemory, f, g

LEMMA ByMemoryWithin ==
  ASSUME NEW weight \in [Memories -> Nat], NEW U, Tuples(U), NEW T \in SUBSET U
  PROVE  Tuples(T) /\ ByMemory(weight, T) <= ByMemory(weight, U)
<1>1. Tuples(T)
  BY FS_Subset DEF Tuples
<1> DEFINE phi == [t \in T |-> t]
<1>2. \A t \in T : phi[t] = t
  OBVIOUS
<1> HIDE DEF phi
<1>3. /\ \A t \in T : phi[t] \in U /\ phi[t][2] = t[2]
      /\ \A t, u \in T : phi[t] = phi[u] => t = u
  BY <1>2
<1> QED
  BY <1>1, <1>3, ByMemoryFits

LEMMA ByMemoryJoins ==
  ASSUME NEW weight \in [Memories -> Nat], NEW T, Tuples(T), NEW U, Tuples(U), T \cap U = {}
  PROVE  /\ Tuples(T \cup U)
         /\ ByMemory(weight, T \cup U) = ByMemory(weight, T) + ByMemory(weight, U)
<1>1. Tuples(T \cup U)
  BY FS_Union DEF Tuples
<1> DEFINE f == [t \in T |-> weight[t[2]]]
           g == [t \in U |-> weight[t[2]]]
           h == [t \in T \cup U |-> weight[t[2]]]
<1>2. AllNat(f, T) /\ AllNat(g, U) /\ AllNat(h, T \cup U)
  BY <1>1, ByMemoryIsNat
<1>3. (\A t \in T : f[t] = h[t]) /\ (\A t \in U : g[t] = h[t])
  OBVIOUS
<1> HIDE DEF f, g, h
<1>4. /\ AllNat(h, T) /\ SumFunctionOnSet(h, T) = SumFunctionOnSet(f, T)
      /\ AllNat(h, U) /\ SumFunctionOnSet(h, U) = SumFunctionOnSet(g, U)
  BY <1>2, <1>3, SumSame
<1>5. SumFunctionOnSet(h, T \cup U) = SumFunctionOnSet(h, T) + SumFunctionOnSet(h, U)
  BY <1>4, SumJoins
<1> QED
  BY <1>1, <1>4, <1>5 DEF ByMemory, f, g, h

LEMMA ByMemoryUnites ==
  ASSUME NEW weight \in [Memories -> Nat], NEW T, Tuples(T), NEW U, Tuples(U)
  PROVE  Tuples(T \cup U) /\ ByMemory(weight, T \cup U) <= ByMemory(weight, T) + ByMemory(weight, U)
<1>1. Tuples(U \ T) /\ ByMemory(weight, U \ T) <= ByMemory(weight, U)
  BY ByMemoryWithin
<1>2. /\ Tuples(T \cup (U \ T))
      /\ ByMemory(weight, T \cup (U \ T)) = ByMemory(weight, T) + ByMemory(weight, U \ T)
  BY <1>1, ByMemoryJoins
<1>3. T \cup (U \ T) = T \cup U
  OBVIOUS
<1>4. ByMemory(weight, T) \in Nat /\ ByMemory(weight, U) \in Nat /\ ByMemory(weight, U \ T) \in Nat
  BY <1>1, ByMemoryIsNat
<1> PICK a \in Nat, b \in Nat, c \in Nat :
       a = ByMemory(weight, T) /\ b = ByMemory(weight, U) /\ c = ByMemory(weight, U \ T)
  BY <1>4
<1>5. a + c <= a + b
  BY <1>1
<1> QED
  BY <1>2, <1>3, <1>5

LEMMA ByMemoryOfNone == ASSUME NEW weight PROVE Tuples({}) /\ ByMemory(weight, {}) = 0
<1>1. Tuples({})
  BY FS_EmptySet DEF Tuples
<1> QED
  BY <1>1, SumOfNone DEF ByMemory

LEMMA TriplesFinite ==
  ASSUME NEW A, IsFiniteSet(A), NEW B, IsFiniteSet(B), NEW C, IsFiniteSet(C)
  PROVE  IsFiniteSet(A \X B \X C)
<1> DEFINE f == [t \in A \X B \X C |-> << <<t[1], t[2]>>, t[3] >>]
<1>1. \A t \in A \X B \X C : f[t] \in (A \X B) \X C
  OBVIOUS
<1>2. ASSUME NEW t \in A \X B \X C, NEW u \in A \X B \X C, f[t] = f[u] PROVE t = u
  <2>1. t[1] = u[1] /\ t[2] = u[2] /\ t[3] = u[3]
    BY <1>2
  <2>2. t = <<t[1], t[2], t[3]>> /\ u = <<u[1], u[2], u[3]>>
    OBVIOUS
  <2> QED
    BY <2>1, <2>2
<1>3. f \in Injection(A \X B \X C, (A \X B) \X C)
  BY <1>1, <1>2 DEF Injection, IsInjective
<1>4. IsFiniteSet((A \X B) \X C)
  BY FS_Product
<1> QED
  BY <1>3, <1>4, FS_Injection

(* The sets that are counted are finite.                                     *)
LEMMA HeardFinite ==
  ASSUME NEW m \in Memories, NEW f
  PROVE  Heard(m, f) \in SUBSET Entities /\ IsFiniteSet(Heard(m, f)) /\ Cardinality(Heard(m, f)) \in Nat
<1>1. Says[m] \in Seq(Entities)
  BY MemoriesAssumption
<1>2. Heard(m, f) \in SUBSET Entities
  BY <1>1 DEF Heard, Range
<1> QED
  BY <1>2, MemoriesAssumption, FS_Subset, FS_CardinalityType

LEMMA TalliesFinite ==
  ASSUME NEW cs, NEW f
  PROVE  Tuples(ToCount(cs, f)) /\ Tuples(Promised(cs, f))
<1>1. IsFiniteSet(Writers \X Memories \X Entities) /\ IsFiniteSet(Writers \X Memories)
  BY MemoriesAssumption, TriplesFinite, FS_Product
<1>2. /\ ToCount(cs, f) \subseteq Writers \X Memories \X Entities
      /\ Promised(cs, f) \subseteq Writers \X Memories
  BY DEF ToCount, Promised
<1>3. IsFiniteSet(ToCount(cs, f)) /\ IsFiniteSet(Promised(cs, f))
  BY <1>1, <1>2, FS_Subset
<1> QED
  BY <1>2, <1>3 DEF Tuples

LEMMA MentioningsFinite == ASSUME NEW g, NEW k PROVE Tuples(Mentionings(g, k))
<1>1. Mentioners(g, k) \in SUBSET Memories
  BY DEF Mentioners
<1>2. IsFiniteSet(Mentioners(g, k)) /\ IsFiniteSet({k})
  BY <1>1, MemoriesAssumption, FS_Subset, FS_Singleton
<1>3. IsFiniteSet(Mentionings(g, k))
  BY <1>2, FS_Product DEF Mentionings
<1> QED
  BY <1>1, <1>3 DEF Tuples, Mentionings

LEMMA TellingsFinite ==
  ASSUME NEW ms, IsFiniteSet(DOMAIN ms), NEW X \in SUBSET Entities
  PROVE  Tuples(Tellings(ms, X))
<1>1. IsFiniteSet(X)
  BY MemoriesAssumption, FS_Subset
<1>2. IsFiniteSet((DOMAIN ms) \X Memories \X X)
  BY <1>1, MemoriesAssumption, TriplesFinite
<1>3. Tellings(ms, X) \subseteq (DOMAIN ms) \X Memories \X X
  BY DEF Tellings
<1> QED
  BY <1>2, <1>3, FS_Subset DEF Tuples

LEMMA FedingsFinite ==
  ASSUME NEW times \in [Memories -> Nat], NEW f PROVE Tuples(Fedings(times, f))
<1> DEFINE of == [m \in Memories |-> (1..times[m]) \X {m} \X Heard(m, f)]
           parts == {of[m] : m \in Memories}
<1>1. ASSUME NEW m \in Memories PROVE IsFiniteSet(of[m])
  <2>1. 1 \in Int /\ times[m] \in Int
    OBVIOUS
  <2>2. IsFiniteSet(1..times[m])
    BY <2>1, FS_Interval
  <2>3. IsFiniteSet({m}) /\ IsFiniteSet(Heard(m, f))
    BY FS_Singleton, HeardFinite
  <2> QED
    BY <2>2, <2>3, TriplesFinite
<1>2. of \in Surjection(Memories, parts)
  BY DEF Surjection
<1>3. IsFiniteSet(parts)
  <2> HIDE DEF of
  <2> QED
    BY <1>2, MemoriesAssumption, FS_Surjection
<1>4. IsFiniteSet(UNION parts)
  BY <1>1, <1>3, FS_UNION
<1>5. UNION parts = Fedings(times, f)
  BY DEF Fedings
<1>6. \A t \in Fedings(times, f) : t[2] \in Memories
  BY DEF Fedings
<1> QED
  BY <1>4, <1>5, <1>6 DEF Tuples

-----------------------------------------------------------------------------
(* Where an entity is found, and the keys that fresh rows get.               *)
Place(ms, e) == Min(Naming(ms, e))
Spot(ms, e) == FirstIn(Says[ms[Place(ms, e)]], e)

LEMMA FoundAt ==
  ASSUME NEW ms, DOMAIN ms \subseteq Nat, Range(ms) \subseteq Memories, NEW e \in EntitiesOf(ms)
  PROVE  /\ Place(ms, e) \in Nat /\ Spot(ms, e) \in Nat
         /\ Says[ms[Place(ms, e)]][Spot(ms, e)] = e
<1> DEFINE i == Place(ms, e)
<1>1. Naming(ms, e) \in SUBSET Nat /\ Naming(ms, e) # {}
  BY DEF Naming, EntitiesOf
<1>2. i \in Nat /\ i \in DOMAIN ms /\ e \in Range(Says[ms[i]])
  BY <1>1, LeastNumber DEF Naming, Place
<1> DEFINE places == {j \in DOMAIN Says[ms[i]] : Says[ms[i]][j] = e}
<1>3. places \in SUBSET Nat /\ places # {}
  BY <1>2, SaysEntities DEF Range
<1>4. Min(places) \in Nat /\ Min(places) \in places
  BY <1>3, LeastNumber
<1>5. Spot(ms, e) = Min(places)
  BY DEF Spot, FirstIn
<1> QED
  BY <1>2, <1>4, <1>5

LEMMA NewKeysDiffer ==
  ASSUME NEW g, WellFormed(g), NEW ms, DOMAIN ms \subseteq Nat, Range(ms) \subseteq Memories,
         NEW fresh \in SUBSET EntitiesOf(ms), NEW e \in fresh, NEW f \in fresh, e # f
  PROVE  NewKey(g, ms, fresh, e) # NewKey(g, ms, fresh, f)
<1> DEFINE earlier(x) == {y \in fresh : FoundBefore(ms, y, x)}
<1>1. \A x \in fresh : /\ Place(ms, x) \in Nat /\ Spot(ms, x) \in Nat
                       /\ Says[ms[Place(ms, x)]][Spot(ms, x)] = x
  BY FoundAt
<1>2. \A x, y \in fresh : FoundBefore(ms, x, y) <=>
         \/ Place(ms, x) < Place(ms, y)
         \/ Place(ms, x) = Place(ms, y) /\ Spot(ms, x) < Spot(ms, y)
  BY DEF FoundBefore, Place, Spot
<1>3. ASSUME NEW x \in fresh, NEW y \in fresh, FoundBefore(ms, x, y)
      PROVE  NewKey(g, ms, fresh, x) # NewKey(g, ms, fresh, y)
  <2>1. earlier(x) \in SUBSET earlier(y)
    BY <1>1, <1>2, <1>3
  <2>2. x \in earlier(y) /\ x \notin earlier(x)
    BY <1>1, <1>2, <1>3
  <2>3. IsFiniteSet(fresh)
    BY EntitiesOfTyped, MemoriesAssumption, FS_Subset
  <2>4. IsFiniteSet(earlier(y))
    BY <2>3, FS_Subset
  <2>5. IsFiniteSet(earlier(x)) /\ Cardinality(earlier(x)) # Cardinality(earlier(y))
    BY <2>1, <2>2, <2>4, FS_Subset
  <2>6. Cardinality(earlier(x)) \in Nat /\ Cardinality(earlier(y)) \in Nat
    BY <2>4, <2>5, FS_CardinalityType
  <2>7. /\ NewKey(g, ms, fresh, x) = g.next + Cardinality(earlier(x))
        /\ NewKey(g, ms, fresh, y) = g.next + Cardinality(earlier(y))
    BY DEF NewKey
  <2> HIDE DEF earlier
  <2> QED
    BY <2>5, <2>6, <2>7 DEF WellFormed
<1>4. FoundBefore(ms, e, f) \/ FoundBefore(ms, f, e)
  BY <1>1, <1>2
<1> QED
  BY <1>3, <1>4

(* What the statements add to a row is what the call tells of it.            *)
LEMMA TellsOne ==
  ASSUME NEW weight \in [Memories -> Nat],
         NEW ms, IsFiniteSet(DOMAIN ms), Range(ms) \subseteq Memories, NEW e \in Entities,
         NEW terms, \A i \in Naming(ms, e) : terms[i] = weight[ms[i]]
  PROVE  ByMemory(weight, Tellings(ms, {e})) = SumFunctionOnSet(terms, Naming(ms, e))
<1> DEFINE T == Tellings(ms, {e})
           N == Naming(ms, e)
           f == [t \in T |-> weight[t[2]]]
           of == [t \in T |-> t[1]]
           at == [i \in N |-> <<i, ms[i], e>>]
<1>1. Tuples(T) /\ AllNat(f, T)
  BY TellingsFinite, ByMemoryIsNat
<1>2. \A i \in N : i \in DOMAIN ms /\ ms[i] \in Memories /\ e \in Range(Says[ms[i]])
  BY DEF Naming, Range
<1>3. AllNat(terms, N)
  <2>1. IsFiniteSet(N)
    BY FS_Subset DEF Naming
  <2>2. \A i \in N : terms[i] \in Nat
    BY <1>2
  <2> QED
    BY <2>1, <2>2 DEF AllNat
<1>4. \A t \in T : /\ t = <<t[1], ms[t[1]], e>> /\ t[1] \in N /\ t[2] = ms[t[1]]
  BY DEF Tellings, Naming
<1>5. \A i \in N : <<i, ms[i], e>> \in T
  BY <1>2 DEF Tellings
<1>6. SumFunctionOnSet(f, T) <= SumFunctionOnSet(terms, N)
  <2>1. \A t \in T : of[t] \in N /\ f[t] <= terms[of[t]]
    <3> SUFFICES ASSUME NEW t \in T PROVE of[t] \in N /\ f[t] <= terms[of[t]]
      OBVIOUS
    <3>1. f[t] \in Nat
      BY <1>1 DEF AllNat
    <3>2. of[t] \in N /\ f[t] = terms[of[t]]
      BY <1>4
    <3> HIDE DEF f, of
    <3> QED
      BY <3>1, <3>2
  <2>2. \A t, u \in T : of[t] = of[u] => t = u
    BY <1>4
  <2> HIDE DEF f, of, T, N
  <2> QED
    BY <1>1, <1>3, <2>1, <2>2, SumInjects
<1>7. SumFunctionOnSet(terms, N) <= SumFunctionOnSet(f, T)
  <2>1. \A i \in N : at[i] \in T /\ terms[i] <= f[at[i]]
    <3> SUFFICES ASSUME NEW i \in N PROVE at[i] \in T /\ terms[i] <= f[at[i]]
      OBVIOUS
    <3>1. terms[i] \in Nat
      BY <1>3 DEF AllNat
    <3>2. at[i] \in T /\ terms[i] = f[at[i]]
      BY <1>5
    <3> HIDE DEF f, at
    <3> QED
      BY <3>1, <3>2
  <2>2. \A i, j \in N : at[i] = at[j] => i = j
    OBVIOUS
  <2> HIDE DEF f, at, T, N
  <2> QED
    BY <1>1, <1>3, <2>1, <2>2, SumInjects
<1>8. SumFunctionOnSet(f, T) \in Nat /\ SumFunctionOnSet(terms, N) \in Nat
  BY <1>1, <1>3, SumIsNat
<1>9. ByMemory(weight, T) = SumFunctionOnSet(f, T)
  BY DEF ByMemory
<1> HIDE DEF f, T, N
<1> QED
  BY <1>6, <1>7, <1>8, <1>9 DEF T, N

EachTells(sums, weight, ms, X) == \A e \in X : sums[e] = ByMemory(weight, Tellings(ms, {e}))
LEMMA TellsAll ==
  ASSUME NEW weight \in [Memories -> Nat],
         NEW ms, IsFiniteSet(DOMAIN ms), NEW X \in SUBSET Entities,
         NEW sums, EachTells(sums, weight, ms, X)
  PROVE  SumFunctionOnSet(sums, X) = ByMemory(weight, Tellings(ms, X))
<1> DEFINE T == Tellings(ms, X)
           P == [e \in X |-> Tellings(ms, {e})]
           f == [t \in T |-> weight[t[2]]]
<1>1. Tuples(T) /\ AllNat(f, T)
  BY TellingsFinite, ByMemoryIsNat
<1>2. \A t : t \in T <=> \E e \in X : t \in P[e]
  BY DEF Tellings
<1>3. \A x, y \in X : x # y => P[x] \cap P[y] = {}
  BY DEF Tellings
<1>4. ASSUME NEW e \in X PROVE AllNat(f, P[e]) /\ sums[e] = SumFunctionOnSet(f, P[e])
  <2> DEFINE one == [t \in Tellings(ms, {e}) |-> weight[t[2]]]
  <2>1. AllNat(one, Tellings(ms, {e}))
    BY TellingsFinite, ByMemoryIsNat
  <2>2. \A t \in Tellings(ms, {e}) : one[t] = f[t]
    BY DEF Tellings
  <2>3. sums[e] = SumFunctionOnSet(one, P[e])
    BY DEF ByMemory, EachTells
  <2>4. P[e] = Tellings(ms, {e})
    OBVIOUS
  <2> HIDE DEF one, P, f
  <2>5. /\ AllNat(f, Tellings(ms, {e}))
        /\ SumFunctionOnSet(f, Tellings(ms, {e})) = SumFunctionOnSet(one, Tellings(ms, {e}))
    BY <2>1, <2>2, SumSame
  <2> QED
    BY <2>3, <2>4, <2>5
<1>5. IsFiniteSet(X)
  BY MemoriesAssumption, FS_Subset
<1>6. ByMemory(weight, T) = SumFunctionOnSet(f, T)
  BY DEF ByMemory
<1> HIDE DEF P, f, T
<1>7. SumFunctionOnSet(sums, X) = SumFunctionOnSet(f, T)
  <2>1. \A e \in X : AllNat(f, P[e]) /\ sums[e] = SumFunctionOnSet(f, P[e])
    BY <1>4
  <2> QED
    <3>1. Parts(X, P, f, sums, T)
      BY <1>2, <1>3, <1>5, <2>1 DEF Parts
    <3> QED
      BY <3>1, SumOfParts
<1> QED
  BY <1>6, <1>7 DEF T

OfRow(g, k) ==
  IF k \in Keys(g) THEN [mentions |-> g.rows[k].mentions, evidence |-> g.rows[k].evidence]
  ELSE [mentions |-> 0, evidence |-> 0]
(* Each row has counted what the memories ms tell of the entities X[k], and   *)
(* no more.                                                                  *)
Adds(g, h, ms, X) ==
  \A k \in Keys(h) :
    /\ h.rows[k].mentions = OfRow(g, k).mentions + ByMemory(Ones, Tellings(ms, X[k]))
    /\ h.rows[k].evidence = OfRow(g, k).evidence + ByMemory(Reliability, Tellings(ms, X[k]))

LEMMA WeightsTyped == Ones \in [Memories -> Nat] /\ Reliability \in [Memories -> Nat]
BY MemoriesAssumption DEF Ones

LEMMA TellsRepeats ==
  ASSUME NEW ms, IsFiniteSet(DOMAIN ms), Range(ms) \subseteq Memories, NEW e \in Entities
  PROVE  /\ Repeats(ms, e) = ByMemory(Ones, Tellings(ms, {e}))
         /\ EvidenceFor(ms, e) = ByMemory(Reliability, Tellings(ms, {e}))
<1> DEFINE N == Naming(ms, e)
           terms == [i \in N |-> 1]
           weights == Weights(ms)
<1>1. IsFiniteSet(N) /\ \A i \in N : ms[i] \in Memories
  BY FS_Subset DEF Naming, Range
<1>2. \A i \in N : terms[i] = 1 /\ terms[i] = Ones[ms[i]]
  BY <1>1 DEF Ones
<1>3. \A i \in N : weights[i] = Reliability[ms[i]]
  BY DEF Naming, Weights
<1>4. Repeats(ms, e) = Cardinality(N) /\ EvidenceFor(ms, e) = SumFunctionOnSet(weights, N)
  BY DEF Repeats, EvidenceFor
<1> HIDE DEF terms, weights
<1>5. SumFunctionOnSet(terms, N) = Cardinality(N)
  BY <1>1, <1>2, SumOfOnes
<1>6. ByMemory(Ones, Tellings(ms, {e})) = SumFunctionOnSet(terms, N)
  BY <1>2, WeightsTyped, TellsOne
<1>7. ByMemory(Reliability, Tellings(ms, {e})) = SumFunctionOnSet(weights, N)
  BY <1>3, WeightsTyped, TellsOne
<1> QED
  BY <1>4, <1>5, <1>6, <1>7

LEMMA TellsOfNone == ASSUME NEW weight, NEW ms PROVE ByMemory(weight, Tellings(ms, {})) = 0
<1>1. Tellings(ms, {}) = {}
  BY DEF Tellings
<1> QED
  BY <1>1, ByMemoryOfNone

MergedInto(pool, entities, k) == {e \in entities : MergeTarget(pool, e) = k}

LEMMA IncrementAdds ==
  ASSUME NEW g, WellFormed(g), RowsCounted(g), NEW pool,
         NEW ms, IsFiniteSet(DOMAIN ms), Range(ms) \subseteq Memories, NEW entities \in SUBSET Entities,
         NEW X, \A k \in Keys(g) : X[k] = MergedInto(pool, entities, k)
  PROVE  Adds(g, Increment(g, pool, ms, entities), ms, X)
<1> DEFINE repeats == [e \in entities |-> Repeats(ms, e)]
           evidence == [e \in entities |-> EvidenceFor(ms, e)]
           into(k) == {e \in entities : MergeTarget(pool, e) = k}
           rows == [k \in Keys(g) |->
                      IF into(k) = {} THEN g.rows[k]
                      ELSE Bump(g.rows[k], SumFunctionOnSet(repeats, into(k)),
                                           SumFunctionOnSet(evidence, into(k)))]
           h == Increment(g, pool, ms, entities)
<1>1. h = [g EXCEPT !.rows = rows]
  BY DEF Increment
<1>2. \A e \in entities : /\ repeats[e] = ByMemory(Ones, Tellings(ms, {e}))
                          /\ evidence[e] = ByMemory(Reliability, Tellings(ms, {e}))
  BY TellsRepeats
<1>3. ASSUME NEW k \in Keys(g)
      PROVE  /\ rows[k].mentions = g.rows[k].mentions + ByMemory(Ones, Tellings(ms, X[k]))
             /\ rows[k].evidence = g.rows[k].evidence + ByMemory(Reliability, Tellings(ms, X[k]))
  <2>1. X[k] = into(k) /\ into(k) \in SUBSET Entities /\ into(k) \subseteq entities
    BY DEF MergedInto
  <2>2. g.rows[k].mentions \in Nat /\ g.rows[k].evidence \in Nat
    BY DEF RowsCounted
  <2>3. CASE into(k) = {}
    <3>1. rows[k] = g.rows[k]
      BY <2>3
    <3> HIDE DEF rows, into
    <3> QED
      BY <2>1, <2>2, <2>3, <3>1, TellsOfNone
  <2>4. CASE into(k) # {}
    <3>1. /\ rows[k].mentions = g.rows[k].mentions + SumFunctionOnSet(repeats, into(k))
          /\ rows[k].evidence = g.rows[k].evidence + SumFunctionOnSet(evidence, into(k))
      BY <2>4 DEF Bump, EntityDoc
    <3> PICK Y \in SUBSET Entities : Y = into(k)
      BY <2>1
    <3>2. EachTells(repeats, Ones, ms, Y)
      BY <1>2, <2>1 DEF EachTells
    <3>3. EachTells(evidence, Reliability, ms, Y)
      BY <1>2, <2>1 DEF EachTells
    <3> HIDE DEF rows, repeats, evidence, into
    <3>4. SumFunctionOnSet(repeats, Y) = ByMemory(Ones, Tellings(ms, Y))
      BY <3>2, WeightsTyped, TellsAll
    <3>5. SumFunctionOnSet(evidence, Y) = ByMemory(Reliability, Tellings(ms, Y))
      BY <3>3, WeightsTyped, TellsAll
    <3> QED
      BY <2>1, <3>1, <3>4, <3>5
  <2> QED
    BY <2>3, <2>4
<1>4. DOMAIN rows = Keys(g)
  OBVIOUS
<1> HIDE DEF rows
<1>5. h.rows = rows
  BY <1>1, GraphFields DEF WellFormed
<1> HIDE DEF h
<1>6. Keys(h) = Keys(g)
  BY <1>4, <1>5 DEF Keys
<1>7. Adds(g, h, ms, X)
  BY <1>3, <1>5, <1>6 DEF Adds, OfRow
<1> QED
  BY <1>7 DEF h

(* A row of its own for each entity; a fresh one holds the entity it is for.  *)
OwnRows(pool, entities, h) == [k \in Keys(h) |-> Own(pool, entities) \cap {h.rows[k].entity}]
LEMMA UpsertAdds ==
  ASSUME NEW g, WellFormed(g), RowsCounted(g), NEW pool,
         NEW ms, IsFiniteSet(DOMAIN ms), DOMAIN ms \subseteq Nat, Range(ms) \subseteq Memories,
         NEW entities \in SUBSET EntitiesOf(ms), NEW agent
  PROVE  LET h == Upsert(g, pool, ms, entities, agent)
             keyOf == KeysFor(g, pool, ms, entities)
         IN /\ Adds(g, h, ms, OwnRows(pool, entities, h))
            /\ \A e \in Own(pool, entities) : keyOf[e] \in Keys(h) /\ h.rows[keyOf[e]].entity = e
<1> DEFINE own == Own(pool, entities)
           fresh == Fresh(g, pool, entities)
           keyOf == KeysFor(g, pool, ms, entities)
           madeFor(k) == CHOOSE e \in fresh : keyOf[e] = k
           rowOf(e) == EntityDoc(e, agent, Repeats(ms, e), EvidenceFor(ms, e), Rival(pool, e))
           made == {keyOf[e] : e \in fresh}
           rows == [k \in Keys(g) \cup made |->
                      IF k \notin Keys(g) THEN rowOf(madeFor(k))
                      ELSE IF g.rows[k].entity \notin own THEN g.rows[k]
                      ELSE Bump(g.rows[k], Repeats(ms, g.rows[k].entity),
                                EvidenceFor(ms, g.rows[k].entity))]
           h == Upsert(g, pool, ms, entities, agent)
           X == OwnRows(pool, entities, h)
           adds(r, old, k) ==
             /\ r.mentions = old.mentions + ByMemory(Ones, Tellings(ms, X[k]))
             /\ r.evidence = old.evidence + ByMemory(Reliability, Tellings(ms, X[k]))
<1>1. fresh \subseteq own /\ own \subseteq entities /\ fresh \in SUBSET EntitiesOf(ms) /\ own \subseteq Entities
  BY EntitiesOfTyped DEF Fresh, Own
<1>2. \A e \in fresh : keyOf[e] = NewKey(g, ms, fresh, e)
  BY DEF KeysFor, Fresh, Own, Merged
<1>3. \A e, f \in fresh : keyOf[e] = keyOf[f] => e = f
  <2> SUFFICES ASSUME NEW e \in fresh, NEW f \in fresh, e # f PROVE keyOf[e] # keyOf[f]
    OBVIOUS
  <2>1. NewKey(g, ms, fresh, e) # NewKey(g, ms, fresh, f)
    <3> HIDE DEF fresh
    <3> QED
      BY <1>1, NewKeysDiffer
  <2> QED
    BY <1>2, <2>1
<1>4. \A e \in fresh : madeFor(keyOf[e]) = e
  BY <1>3
<1>5. \A e \in fresh : keyOf[e] \notin Keys(g)
  <2> SUFFICES ASSUME NEW e \in fresh PROVE keyOf[e] \notin Keys(g)
    OBVIOUS
  <2>1. /\ Cardinality(fresh) \in Nat
        /\ NewKey(g, ms, fresh, e) \in g.next..(g.next + Cardinality(fresh) - 1)
    <3> HIDE DEF fresh
    <3> QED
      BY <1>1, NewKeyInRange
  <2> QED
    BY <1>2, <2>1 DEF WellFormed
<1>6. \A e \in own : /\ Repeats(ms, e) = ByMemory(Ones, Tellings(ms, {e}))
                     /\ EvidenceFor(ms, e) = ByMemory(Reliability, Tellings(ms, {e}))
  BY <1>1, TellsRepeats
<1>7. \A e \in own : Repeats(ms, e) \in Nat /\ EvidenceFor(ms, e) \in Nat
  <2> SUFFICES ASSUME NEW e \in own PROVE Repeats(ms, e) \in Nat /\ EvidenceFor(ms, e) \in Nat
    OBVIOUS
  <2>1. Tuples(Tellings(ms, {e}))
    BY <1>1, TellingsFinite
  <2> QED
    BY <1>6, <2>1, WeightsTyped, ByMemoryIsNat
<1>8. h = [g EXCEPT !.next = g.next + Cardinality(fresh), !.rows = rows]
  BY DEF Upsert
<1>9. ASSUME NEW e \in fresh
      PROVE  /\ rows[keyOf[e]].entity = e /\ rows[keyOf[e]].mentions = Repeats(ms, e)
             /\ rows[keyOf[e]].evidence = EvidenceFor(ms, e)
  <2>1. rows[keyOf[e]] = rowOf(e)
    <3>1. keyOf[e] \in made /\ keyOf[e] \notin Keys(g) /\ madeFor(keyOf[e]) = e
      BY <1>4, <1>5
    <3> HIDE DEF made, madeFor, keyOf, fresh, rowOf
    <3> QED
      BY <3>1
  <2> HIDE DEF rows, keyOf
  <2> QED
    BY <2>1 DEF EntityDoc
<1>10. ASSUME NEW k \in Keys(g)
       PROVE  /\ rows[k].entity = g.rows[k].entity
              /\ g.rows[k].entity \notin own => rows[k] = g.rows[k]
              /\ g.rows[k].entity \in own =>
                   /\ rows[k].mentions = g.rows[k].mentions + Repeats(ms, g.rows[k].entity)
                   /\ rows[k].evidence = g.rows[k].evidence + EvidenceFor(ms, g.rows[k].entity)
  BY DEF Bump, EntityDoc
<1>11. DOMAIN rows = Keys(g) \cup made
  OBVIOUS
<1>12. \A e \in own : e \notin fresh => keyOf[e] \in Keys(g) /\ g.rows[keyOf[e]].entity = e
  BY DEF KeysFor, Own, Fresh, Merged, KeyNamed
<1>13. \A k \in made : \E e \in fresh : k = keyOf[e]
  OBVIOUS
<1>14. \A e \in fresh : keyOf[e] \in made
  OBVIOUS
<1> HIDE DEF rows, made, madeFor, keyOf, fresh
<1>15. h.rows = rows
  BY <1>8, GraphFields DEF WellFormed
<1>16. \A k \in Keys(h) : X[k] = own \cap {h.rows[k].entity}
  BY DEF OwnRows
<1> HIDE DEF h, own, X
<1>17. Keys(h) = Keys(g) \cup made
  BY <1>11, <1>15 DEF Keys
<1>18. ASSUME NEW k \in Keys(g) PROVE adds(h.rows[k], OfRow(g, k), k)
  <2>1. /\ g.rows[k].mentions \in Nat /\ g.rows[k].evidence \in Nat
        /\ OfRow(g, k).mentions = g.rows[k].mentions /\ OfRow(g, k).evidence = g.rows[k].evidence
    BY DEF RowsCounted, OfRow
  <2> DEFINE e == g.rows[k].entity
  <2>2. X[k] = own \cap {e}
    BY <1>10, <1>15, <1>16, <1>17
  <2>3. CASE e \in own
    <3>1. X[k] = {e}
      BY <2>2, <2>3
    <3> QED
      BY <1>6, <1>10, <1>15, <2>1, <2>3, <3>1
  <2>4. CASE e \notin own
    <3>1. X[k] = {}
      BY <2>2, <2>4
    <3> QED
      BY <1>10, <1>15, <2>1, <2>4, <3>1, TellsOfNone
  <2> QED
    BY <2>3, <2>4
<1>19. ASSUME NEW k \in made PROVE adds(h.rows[k], OfRow(g, k), k)
  <2>1. PICK e \in fresh : k = keyOf[e]
    BY <1>13
  <2>2. OfRow(g, k).mentions = 0 /\ OfRow(g, k).evidence = 0
    BY <1>5, <2>1 DEF OfRow
  <2>3. e \in own /\ h.rows[k].entity = e
    BY <1>1, <1>9, <1>15, <2>1
  <2>4. X[k] = {e}
    BY <1>16, <1>17, <2>3
  <2> QED
    BY <1>6, <1>7, <1>9, <1>15, <2>1, <2>2, <2>3, <2>4
<1>20. Adds(g, h, ms, X)
  BY <1>17, <1>18, <1>19 DEF Adds
<1>21. \A e \in own : keyOf[e] \in Keys(h) /\ h.rows[keyOf[e]].entity = e
  BY <1>9, <1>10, <1>12, <1>14, <1>15, <1>17
<1> QED
  BY <1>20, <1>21 DEF h, own, keyOf, X

-----------------------------------------------------------------------------
(* A statement of writer w that counts, for each row k, the entities X[k] it  *)
(* had left, near the row, and promises to mention only what it counted.      *)
Taken(h, c, d, X) ==
  /\ \A e \in Entities : IsLeft(d, e) => IsLeft(c, e)
  /\ \A k \in Keys(h) : \A e \in X[k] :
       /\ e \in Entities /\ IsLeft(c, e) /\ ~IsLeft(d, e)
       /\ e = h.rows[k].entity \/ Similarity[e][h.rows[k].entity] >= MergeThreshold
Told(ms, X) == {m \in Memories : m \in Range(ms) /\ \E e \in X : e \in Range(Says[m])}
Pledged(h, c, d, X) ==
  \A k \in Keys(h) : \A m \in Memories : Promises(d, k, m) => Promises(c, k, m) \/ m \in Told(c.ms, X[k])
Lists(c, d) ==
  /\ IsFiniteSet(DOMAIN c.ms) /\ Range(c.ms) \subseteq Memories /\ MemoriesOnce(c) /\ d.ms = c.ms
Counting(g, h, cs, w, d, X) ==
  /\ Keys(g) \subseteq Keys(h) /\ \A k \in Keys(g) : h.rows[k].entity = g.rows[k].entity
  /\ h.mentions = g.mentions
  /\ \A k \in Keys(h) \ Keys(g) : Mentioners(g, k) = {} /\ Promised(cs, k) = {}
  /\ Adds(g, h, cs[w].ms, X) /\ Lists(cs[w], d)
  /\ Taken(h, cs[w], d, X) /\ Pledged(h, cs[w], d, X)

LEMMA ToldIsTaken ==
  ASSUME NEW h, NEW cs, DOMAIN cs = Writers, NEW w \in Writers, NEW d, NEW X,
         Lists(cs[w], d), Taken(h, cs[w], d, X), NEW k \in Keys(h)
  PROVE  ByMemory(Reliability, Tellings(cs[w].ms, X[k]))
           + ByMemory(Reliability, ToCount([cs EXCEPT ![w] = d], h.rows[k].entity))
         <= ByMemory(Reliability, ToCount(cs, h.rows[k].entity))
<1> DEFINE c == cs[w]
           ds == [cs EXCEPT ![w] = d]
           f == h.rows[k].entity
           T == Tellings(c.ms, X[k])
           A == ToCount(cs, f)
           B == ToCount(ds, f)
           phi == [t \in T |-> <<w, t[2], t[3]>>]
<1>1. /\ IsFiniteSet(DOMAIN c.ms) /\ Range(c.ms) \subseteq Memories /\ d.ms = c.ms
      /\ \A i, j \in DOMAIN c.ms : c.ms[i] = c.ms[j] => i = j
  BY DEF Lists, MemoriesOnce
<1>2. /\ \A e \in Entities : IsLeft(d, e) => IsLeft(c, e)
      /\ X[k] \subseteq Entities
      /\ \A e \in X[k] : IsLeft(c, e) /\ ~IsLeft(d, e) /\ (e = f \/ Similarity[e][f] >= MergeThreshold)
  BY DEF Taken
<1>3. ds[w] = d /\ \A v \in Writers : v # w => ds[v] = cs[v]
  OBVIOUS
<1>4. Tuples(T) /\ Tuples(A) /\ Tuples(B)
  BY <1>1, <1>2, TellingsFinite, TalliesFinite
<1>5. B \subseteq A
  <2> HIDE DEF ds, f, c
  <2> SUFFICES ASSUME NEW t \in B PROVE t \in A
    OBVIOUS
  <2>1. /\ t \in Writers \X Memories \X Entities /\ t[1] \in Writers /\ t[3] \in Entities
        /\ t[2] \in Range(ds[t[1]].ms) /\ IsLeft(ds[t[1]], t[3]) /\ t[3] \in Heard(t[2], f)
    BY DEF ToCount
  <2>2. t[2] \in Range(cs[t[1]].ms) /\ IsLeft(cs[t[1]], t[3])
    <3>1. CASE t[1] = w
      BY <1>1, <1>2, <1>3, <2>1, <3>1 DEF c
    <3>2. CASE t[1] # w
      BY <1>3, <2>1, <3>2
    <3> QED
      BY <3>1, <3>2
  <2> QED
    BY <2>1, <2>2 DEF ToCount
<1>6. \A t \in T : /\ t = <<t[1], t[2], t[3]>> /\ t[1] \in DOMAIN c.ms /\ t[2] = c.ms[t[1]]
                   /\ t[2] \in Memories /\ t[3] \in X[k] /\ t[3] \in Range(Says[t[2]])
  BY DEF Tellings
<1>7. ASSUME NEW t \in T PROVE <<w, t[2], t[3]>> \in A \ B
  <2> DEFINE u == <<w, t[2], t[3]>>
  <2>1. u \in Writers \X Memories \X Entities /\ t[2] \in Range(c.ms)
    BY <1>2, <1>6 DEF Range
  <2>2. t[3] \in Heard(t[2], f)
    BY <1>2, <1>6 DEF Heard
  <2>3. IsLeft(cs[u[1]], u[3]) /\ ~IsLeft(ds[u[1]], u[3])
    BY <1>2, <1>3, <1>6
  <2> HIDE DEF ds, f
  <2>4. u[2] \in Range(cs[u[1]].ms) /\ u[3] \in Heard(u[2], f)
    BY <2>1, <2>2
  <2> HIDE DEF u, c
  <2>5. u \in A /\ u \notin B
    BY <2>1, <2>3, <2>4 DEF ToCount
  <2> QED
    BY <2>5 DEF u
<1>8. ByMemory(Reliability, T) <= ByMemory(Reliability, A \ B)
  <2>1. \A t \in T : phi[t] \in A \ B /\ phi[t][2] = t[2]
    BY <1>7
  <2>2. \A t, u \in T : phi[t] = phi[u] => t = u
    <3> SUFFICES ASSUME NEW t \in T, NEW u \in T, phi[t] = phi[u] PROVE t = u
      OBVIOUS
    <3>1. t[2] = u[2] /\ t[3] = u[3]
      OBVIOUS
    <3>2. t[1] = u[1]
      BY <1>1, <1>6, <3>1
    <3> QED
      BY <1>6, <3>1, <3>2
  <2>3. Tuples(A \ B)
    BY <1>4, WeightsTyped, ByMemoryWithin
  <2> HIDE DEF T, A, B, phi
  <2> QED
    BY <1>4, <2>1, <2>2, <2>3, WeightsTyped, ByMemoryFits
<1>9. Tuples(A \ B) /\ Tuples(A) /\ Tuples(T)
  BY <1>4, WeightsTyped, ByMemoryWithin
<1> HIDE DEF T, A, B
<1>10. ByMemory(Reliability, (A \ B) \cup B) = ByMemory(Reliability, A \ B) + ByMemory(Reliability, B)
  BY <1>4, <1>9, WeightsTyped, ByMemoryJoins
<1>11. (A \ B) \cup B = A
  BY <1>5
<1>12. /\ ByMemory(Reliability, T) \in Nat /\ ByMemory(Reliability, A \ B) \in Nat
       /\ ByMemory(Reliability, B) \in Nat
  BY <1>4, <1>9, WeightsTyped, ByMemoryIsNat
<1> PICK x \in Nat, y \in Nat, z \in Nat :
       x = ByMemory(Reliability, T) /\ y = ByMemory(Reliability, A \ B) /\ z = ByMemory(Reliability, B)
  BY <1>12
<1>13. ByMemory(Reliability, A) = y + z /\ x <= y
  BY <1>8, <1>10, <1>11
<1>14. x + z <= ByMemory(Reliability, A)
  BY <1>13
<1> QED
  BY <1>14 DEF T, A, B

LEMMA LeftShrinks ==
  ASSUME NEW cs, DOMAIN cs = Writers, NEW w \in Writers, NEW d, Range(d.ms) \subseteq Range(cs[w].ms),
         \A e \in Entities : IsLeft(d, e) => IsLeft(cs[w], e), NEW f
  PROVE  ByMemory(Reliability, ToCount([cs EXCEPT ![w] = d], f)) <= ByMemory(Reliability, ToCount(cs, f))
<1> DEFINE ds == [cs EXCEPT ![w] = d]
           A == ToCount(cs, f)
           B == ToCount(ds, f)
<1>1. ds[w] = d /\ \A v \in Writers : v # w => ds[v] = cs[v]
  OBVIOUS
<1>2. B \subseteq A
  <2> HIDE DEF ds
  <2> SUFFICES ASSUME NEW t \in B PROVE t \in A
    OBVIOUS
  <2>1. /\ t \in Writers \X Memories \X Entities /\ t[1] \in Writers /\ t[3] \in Entities
        /\ t[2] \in Range(ds[t[1]].ms) /\ IsLeft(ds[t[1]], t[3]) /\ t[3] \in Heard(t[2], f)
    BY DEF ToCount
  <2>2. t[2] \in Range(cs[t[1]].ms) /\ IsLeft(cs[t[1]], t[3])
    <3>1. CASE t[1] = w
      BY <1>1, <2>1, <3>1
    <3>2. CASE t[1] # w
      BY <1>1, <2>1, <3>2
    <3> QED
      BY <3>1, <3>2
  <2> QED
    BY <2>1, <2>2 DEF ToCount
<1>3. Tuples(A)
  BY TalliesFinite
<1> HIDE DEF A, B
<1>4. ByMemory(Reliability, B) <= ByMemory(Reliability, A)
  BY <1>2, <1>3, WeightsTyped, ByMemoryWithin
<1> QED
  BY <1>4 DEF A, B

LEMMA PledgesAreTold ==
  ASSUME NEW h, NEW cs, DOMAIN cs = Writers, NEW w \in Writers, NEW d, NEW X,
         Lists(cs[w], d), Taken(h, cs[w], d, X), Pledged(h, cs[w], d, X), NEW k \in Keys(h),
         NEW weight \in [Memories -> Nat]
  PROVE  ByMemory(weight, Promised([cs EXCEPT ![w] = d], k))
           <= ByMemory(weight, Promised(cs, k)) + ByMemory(weight, Tellings(cs[w].ms, X[k]))
<1> DEFINE c == cs[w]
           ds == [cs EXCEPT ![w] = d]
           T == Tellings(c.ms, X[k])
           told == {w} \X Told(c.ms, X[k])
           A == Promised(cs, k)
           B == Promised(ds, k)
           tells(p) == CHOOSE t \in T : t[2] = p[2]
           phi == [p \in told |-> tells(p)]
<1>1. IsFiniteSet(DOMAIN c.ms) /\ Range(c.ms) \subseteq Memories /\ X[k] \in SUBSET Entities
  BY DEF Lists, Taken
<1>2. ds[w] = d /\ \A v \in Writers : v # w => ds[v] = cs[v]
  OBVIOUS
<1>3. Tuples(T) /\ Tuples(A) /\ Tuples(B)
  BY <1>1, TellingsFinite, TalliesFinite
<1>4. Tuples(told)
  <2>1. Told(c.ms, X[k]) \in SUBSET Memories
    BY DEF Told
  <2>2. IsFiniteSet(Told(c.ms, X[k])) /\ IsFiniteSet({w})
    BY <2>1, MemoriesAssumption, FS_Subset, FS_Singleton
  <2>3. IsFiniteSet(told)
    BY <2>2, FS_Product
  <2> QED
    BY <2>1, <2>3 DEF Tuples
<1>5. B \subseteq A \cup told
  <2> HIDE DEF ds
  <2> SUFFICES ASSUME NEW p \in B, p \notin A PROVE p \in told
    OBVIOUS
  <2>1. p \in Writers \X Memories /\ Promises(ds[p[1]], k, p[2]) /\ ~Promises(cs[p[1]], k, p[2])
    BY DEF Promised
  <2>2. p = <<p[1], p[2]>> /\ p[1] \in Writers /\ p[2] \in Memories
    BY <2>1
  <2>3. p[1] = w
    BY <1>2, <2>1, <2>2
  <2>4. Promises(d, k, p[2]) /\ ~Promises(c, k, p[2])
    BY <1>2, <2>1, <2>3
  <2>5. p[2] \in Told(c.ms, X[k])
    BY <2>2, <2>4 DEF Pledged
  <2> QED
    BY <2>2, <2>3, <2>5
<1>6. ASSUME NEW p \in told PROVE tells(p) \in T /\ tells(p)[2] = p[2] /\ p = <<w, p[2]>>
  <2>1. p = <<w, p[2]>> /\ p[2] \in Told(c.ms, X[k])
    OBVIOUS
  <2>2. PICK i \in DOMAIN c.ms : c.ms[i] = p[2]
    BY <2>1 DEF Told, Range
  <2>3. PICK e \in X[k] : e \in Range(Says[p[2]])
    BY <2>1 DEF Told
  <2>4. p[2] \in Memories
    BY <2>1 DEF Told
  <2>5. <<i, p[2], e>> \in T
    BY <2>2, <2>3, <2>4 DEF Tellings
  <2> HIDE DEF T
  <2>6. \E t \in T : t[2] = p[2]
    BY <2>5
  <2> QED
    BY <2>1, <2>6
<1>7. ByMemory(weight, told) <= ByMemory(weight, T)
  <2>1. \A p \in told : phi[p] \in T /\ phi[p][2] = p[2] /\ p = <<w, p[2]>>
    BY <1>6
  <2> HIDE DEF T, told, phi
  <2>2. \A p, q \in told : phi[p] = phi[q] => p = q
    BY <2>1
  <2> QED
    BY <1>3, <1>4, <2>1, <2>2, ByMemoryFits
<1> HIDE DEF A, B, T, told
<1>8. Tuples(A \cup told) /\ ByMemory(weight, A \cup told) <= ByMemory(weight, A) + ByMemory(weight, told)
  BY <1>3, <1>4, ByMemoryUnites
<1>9. ByMemory(weight, B) <= ByMemory(weight, A \cup told)
  BY <1>5, <1>8, ByMemoryWithin
<1>10. /\ ByMemory(weight, A) \in Nat /\ ByMemory(weight, B) \in Nat /\ ByMemory(weight, T) \in Nat
       /\ ByMemory(weight, told) \in Nat /\ ByMemory(weight, A \cup told) \in Nat
  BY <1>3, <1>4, <1>8, ByMemoryIsNat
<1>11. ByMemory(weight, B) <= ByMemory(weight, A) + ByMemory(weight, T)
  BY <1>7, <1>8, <1>9, <1>10
<1> QED
  BY <1>11 DEF A, B, T

(* The counters stay within what was fed, and ahead of the mentions.          *)
LEMMA CountingStep ==
  ASSUME NEW g, NEW h, NEW cs, DOMAIN cs = Writers, NEW w \in Writers, NEW d, NEW X,
         Counting(g, h, cs, w, d, X), RowsCounted(g), \A k \in Keys(h) : h.rows[k].entity \in Entities,
         NEW times \in [Memories -> Nat], WithinFed(g, cs, times), MentionsCounted(g, cs)
  PROVE  /\ RowsCounted(h) /\ WithinFed(h, [cs EXCEPT ![w] = d], times)
         /\ MentionsCounted(h, [cs EXCEPT ![w] = d])
<1> DEFINE ds == [cs EXCEPT ![w] = d]
           ms == cs[w].ms
<1>1. Lists(cs[w], d) /\ Taken(h, cs[w], d, X) /\ Pledged(h, cs[w], d, X) /\ Adds(g, h, ms, X)
  BY DEF Counting
<1>2. ASSUME NEW k \in Keys(h)
      PROVE  /\ Tuples(Tellings(ms, X[k]))
             /\ \A f : ByMemory(Reliability, ToCount(cs, f)) \in Nat /\ ByMemory(Reliability, ToCount(ds, f)) \in Nat
  <2>1. IsFiniteSet(DOMAIN ms) /\ X[k] \in SUBSET Entities
    BY <1>1 DEF Lists, Taken
  <2> HIDE DEF ds, ms
  <2> QED
    BY <2>1, TellingsFinite, TalliesFinite, WeightsTyped, ByMemoryIsNat
<1>3. ASSUME NEW k \in Keys(h)
      PROVE  ByMemory(Ones, Tellings(ms, X[k])) \in Nat /\ ByMemory(Reliability, Tellings(ms, X[k])) \in Nat
  BY <1>2, WeightsTyped, ByMemoryIsNat
<1>4. ASSUME NEW k \in Keys(h)
      PROVE  /\ h.rows[k].mentions = OfRow(g, k).mentions + ByMemory(Ones, Tellings(ms, X[k]))
             /\ h.rows[k].evidence = OfRow(g, k).evidence + ByMemory(Reliability, Tellings(ms, X[k]))
             /\ OfRow(g, k).mentions \in Nat /\ OfRow(g, k).evidence \in Nat
  BY <1>1 DEF Adds, OfRow, RowsCounted
<1>5. RowsCounted(h)
  <2> SUFFICES ASSUME NEW k \in Keys(h) PROVE {h.rows[k].mentions, h.rows[k].evidence} \subseteq Nat
    BY DEF RowsCounted
  <2>1. h.rows[k].mentions \in Nat /\ h.rows[k].evidence \in Nat
    <3> PICK a \in Nat, b \in Nat : a = ByMemory(Ones, Tellings(ms, X[k])) /\ b = ByMemory(Reliability, Tellings(ms, X[k]))
      BY <1>3
    <3> PICK x \in Nat, y \in Nat : x = OfRow(g, k).mentions /\ y = OfRow(g, k).evidence
      BY <1>4
    <3>1. h.rows[k].mentions = x + a /\ h.rows[k].evidence = y + b
      BY <1>4
    <3> QED
      BY <3>1
  <2> QED
    BY <2>1
<1>6. ASSUME NEW f
      PROVE  ByMemory(Reliability, ToCount(ds, f)) <= ByMemory(Reliability, ToCount(cs, f))
  <2>1. d.ms = ms /\ \A e \in Entities : IsLeft(d, e) => IsLeft(cs[w], e)
    BY <1>1 DEF Lists, Taken
  <2> QED
    BY <2>1, LeftShrinks
<1>7. ASSUME NEW f PROVE ByMemory(Reliability, Fedings(times, f)) \in Nat
  BY FedingsFinite, WeightsTyped, ByMemoryIsNat
<1>8. ASSUME NEW f
      PROVE  /\ ByMemory(Reliability, ToCount(ds, f)) \in Nat /\ ByMemory(Reliability, ToCount(cs, f)) \in Nat
  <2> HIDE DEF ds
  <2> QED
    BY TalliesFinite, WeightsTyped, ByMemoryIsNat
<1>9. WithinFed(h, ds, times)
  <2>1. ASSUME NEW f \in Entities
        PROVE  ByMemory(Reliability, ToCount(ds, f)) <= ByMemory(Reliability, Fedings(times, f))
    <3>1. ByMemory(Reliability, ToCount(cs, f)) <= ByMemory(Reliability, Fedings(times, f))
      BY DEF WithinFed
    <3> PICK x \in Nat, y \in Nat, z \in Nat :
           /\ x = ByMemory(Reliability, ToCount(ds, f)) /\ y = ByMemory(Reliability, ToCount(cs, f))
           /\ z = ByMemory(Reliability, Fedings(times, f))
      BY <1>7, <1>8
    <3>2. x <= y /\ y <= z
      BY <1>6, <3>1
    <3>3. x <= z
      BY <3>2
    <3> QED
      BY <3>3
  <2>2. ASSUME NEW k \in Keys(h)
        PROVE  h.rows[k].evidence + ByMemory(Reliability, ToCount(ds, h.rows[k].entity))
                 <= ByMemory(Reliability, Fedings(times, h.rows[k].entity))
    <3> DEFINE f == h.rows[k].entity
    <3>1. ByMemory(Reliability, Tellings(ms, X[k])) + ByMemory(Reliability, ToCount(ds, f))
            <= ByMemory(Reliability, ToCount(cs, f))
      BY <1>1, ToldIsTaken
    <3>2. OfRow(g, k).evidence + ByMemory(Reliability, ToCount(cs, f)) <= ByMemory(Reliability, Fedings(times, f))
      <4>1. CASE k \in Keys(g)
        BY <4>1 DEF WithinFed, OfRow, Counting
      <4>2. CASE k \notin Keys(g)
        <5>1. f \in Entities
          OBVIOUS
        <5>2. ByMemory(Reliability, ToCount(cs, f)) <= ByMemory(Reliability, Fedings(times, f))
          BY <5>1 DEF WithinFed
        <5>3. OfRow(g, k).evidence = 0
          BY <4>2 DEF OfRow
        <5> QED
          BY <1>8, <5>2, <5>3
      <4> QED
        BY <4>1, <4>2
    <3> PICK a \in Nat, x \in Nat, y \in Nat, z \in Nat, r \in Nat :
           /\ a = ByMemory(Reliability, Tellings(ms, X[k]))
           /\ x = ByMemory(Reliability, ToCount(ds, f)) /\ y = ByMemory(Reliability, ToCount(cs, f))
           /\ z = ByMemory(Reliability, Fedings(times, f)) /\ r = OfRow(g, k).evidence
      BY <1>3, <1>4, <1>7, <1>8
    <3>3. a + x <= y /\ r + y <= z /\ h.rows[k].evidence = r + a
      BY <1>4, <3>1, <3>2
    <3>4. h.rows[k].evidence + x <= z
      BY <3>3
    <3> QED
      BY <3>4
  <2> QED
    BY <2>1, <2>2 DEF WithinFed
<1>10. ASSUME NEW k \in Keys(h), NEW weight \in [Memories -> Nat], NEW n \in Nat, NEW r,
              r = n + ByMemory(weight, Tellings(ms, X[k])),
              k \in Keys(g) => ByMemory(weight, Mentionings(g, k)) + ByMemory(weight, Promised(cs, k)) <= n
       PROVE  ByMemory(weight, Mentionings(h, k)) + ByMemory(weight, Promised(ds, k)) <= r
  <2>1. ByMemory(weight, Promised(ds, k))
          <= ByMemory(weight, Promised(cs, k)) + ByMemory(weight, Tellings(ms, X[k]))
    BY <1>1, PledgesAreTold
  <2>2. Mentionings(h, k) = Mentionings(g, k)
    BY DEF Mentionings, Mentioners, Counting
  <2>3. ByMemory(weight, Mentionings(g, k)) + ByMemory(weight, Promised(cs, k)) <= n
    <3>1. CASE k \in Keys(g)
      BY <1>10, <3>1
    <3>2. CASE k \notin Keys(g)
      <4>1. Mentioners(g, k) = {} /\ Promised(cs, k) = {}
        BY <3>2 DEF Counting
      <4>2. Mentionings(g, k) = {}
        BY <4>1 DEF Mentionings
      <4>3. ByMemory(weight, Mentionings(g, k)) = 0 /\ ByMemory(weight, Promised(cs, k)) = 0
        BY <4>1, <4>2, ByMemoryOfNone
      <4> QED
        BY <4>3
    <3> QED
      BY <3>1, <3>2
  <2>4. /\ ByMemory(weight, Mentionings(g, k)) \in Nat /\ ByMemory(weight, Promised(cs, k)) \in Nat
        /\ ByMemory(weight, Promised(ds, k)) \in Nat /\ ByMemory(weight, Tellings(ms, X[k])) \in Nat
    <3> HIDE DEF ds, ms
    <3> QED
      BY <1>2, MentioningsFinite, TalliesFinite, ByMemoryIsNat
  <2> PICK a \in Nat, b \in Nat, x \in Nat, t \in Nat :
         /\ a = ByMemory(weight, Mentionings(g, k)) /\ b = ByMemory(weight, Promised(cs, k))
         /\ x = ByMemory(weight, Promised(ds, k)) /\ t = ByMemory(weight, Tellings(ms, X[k]))
    BY <2>4
  <2>5. x <= b + t /\ a + b <= n /\ r = n + t
    BY <1>10, <2>1, <2>3
  <2>6. a + x <= r
    BY <2>5
  <2> QED
    BY <2>2, <2>6
<1>11. MentionsCounted(h, ds)
  <2> SUFFICES ASSUME NEW k \in Keys(h)
               PROVE  /\ ByMemory(Ones, Mentionings(h, k)) + ByMemory(Ones, Promised(ds, k)) <= h.rows[k].mentions
                      /\ ByMemory(Reliability, Mentionings(h, k)) + ByMemory(Reliability, Promised(ds, k))
                           <= h.rows[k].evidence
    BY DEF MentionsCounted
  <2>1. k \in Keys(g) =>
          /\ ByMemory(Ones, Mentionings(g, k)) + ByMemory(Ones, Promised(cs, k)) <= OfRow(g, k).mentions
          /\ ByMemory(Reliability, Mentionings(g, k)) + ByMemory(Reliability, Promised(cs, k))
               <= OfRow(g, k).evidence
    BY DEF MentionsCounted, OfRow
  <2> HIDE DEF ds, ms
  <2> QED
    BY <1>4, <1>10, <2>1, WeightsTyped
<1> QED
  BY <1>5, <1>9, <1>11

(* A step that counts nothing, promises nothing and draws no mention: rows    *)
(* stay as they are or go, and a new one has counted no memory.               *)
Quiet(g, h, cs, ds) ==
  /\ \A k \in Keys(h) :
       IF k \in Keys(g)
       THEN /\ h.rows[k].entity = g.rows[k].entity /\ h.rows[k].mentions = g.rows[k].mentions
            /\ h.rows[k].evidence = g.rows[k].evidence
       ELSE /\ h.rows[k].entity \in Entities /\ h.rows[k].mentions \in Nat /\ h.rows[k].evidence = 0
            /\ Mentioners(g, k) = {} /\ Promised(cs, k) = {}
  /\ h.mentions \subseteq g.mentions
  /\ \A f \in Entities : ToCount(ds, f) \subseteq ToCount(cs, f)
  /\ \A k : Promised(ds, k) \subseteq Promised(cs, k)

LEMMA QuietCounts ==
  ASSUME NEW g, WellFormed(g), NEW h, NEW cs, NEW ds, Quiet(g, h, cs, ds), RowsCounted(g),
         NEW times \in [Memories -> Nat], WithinFed(g, cs, times), MentionsCounted(g, cs)
  PROVE  RowsCounted(h) /\ WithinFed(h, ds, times) /\ MentionsCounted(h, ds)
<1>1. RowsCounted(h)
  BY DEF Quiet, RowsCounted
<1>2. ASSUME NEW f
      PROVE  /\ ByMemory(Reliability, ToCount(cs, f)) \in Nat /\ ByMemory(Reliability, ToCount(ds, f)) \in Nat
             /\ ByMemory(Reliability, Fedings(times, f)) \in Nat
  BY TalliesFinite, FedingsFinite, WeightsTyped, ByMemoryIsNat
<1>3. ASSUME NEW f \in Entities
      PROVE  /\ ByMemory(Reliability, ToCount(ds, f)) <= ByMemory(Reliability, ToCount(cs, f))
             /\ ByMemory(Reliability, ToCount(ds, f)) <= ByMemory(Reliability, Fedings(times, f))
  <2>1. ToCount(ds, f) \in SUBSET ToCount(cs, f)
    BY DEF Quiet
  <2>2. ByMemory(Reliability, ToCount(ds, f)) <= ByMemory(Reliability, ToCount(cs, f))
    BY <2>1, TalliesFinite, WeightsTyped, ByMemoryWithin
  <2>3. ByMemory(Reliability, ToCount(cs, f)) <= ByMemory(Reliability, Fedings(times, f))
    BY DEF WithinFed
  <2>4. ByMemory(Reliability, ToCount(ds, f)) <= ByMemory(Reliability, Fedings(times, f))
    BY <1>2, <2>2, <2>3
  <2> QED
    BY <2>2, <2>4
<1>4. ASSUME NEW k \in Keys(h)
      PROVE  h.rows[k].evidence + ByMemory(Reliability, ToCount(ds, h.rows[k].entity))
               <= ByMemory(Reliability, Fedings(times, h.rows[k].entity))
  <2>1. h.rows[k].entity \in Entities
    BY DEF Quiet, WellFormed
  <2>2. CASE k \in Keys(g)
    <3> PICK f \in Entities : f = h.rows[k].entity
      BY <2>1
    <3> PICK a \in Nat, b \in Nat, x \in Nat, r \in Nat :
           /\ a = ByMemory(Reliability, ToCount(cs, f)) /\ b = ByMemory(Reliability, ToCount(ds, f))
           /\ x = ByMemory(Reliability, Fedings(times, f)) /\ r = h.rows[k].evidence
      BY <1>1, <1>2 DEF RowsCounted
    <3>1. b <= a /\ r + a <= x
      BY <1>3, <2>2 DEF Quiet, WithinFed
    <3>2. r + b <= x
      BY <3>1
    <3> QED
      BY <3>2
  <2>3. CASE k \notin Keys(g)
    <3>1. h.rows[k].evidence = 0
      BY <2>3 DEF Quiet
    <3> QED
      BY <1>2, <1>3, <2>1, <3>1
  <2> QED
    BY <2>2, <2>3
<1>5. WithinFed(h, ds, times)
  BY <1>3, <1>4 DEF WithinFed
<1>6. ASSUME NEW k \in Keys(h), NEW weight \in [Memories -> Nat], NEW n \in Nat,
             k \in Keys(g) => ByMemory(weight, Mentionings(g, k)) + ByMemory(weight, Promised(cs, k)) <= n
      PROVE  ByMemory(weight, Mentionings(h, k)) + ByMemory(weight, Promised(ds, k)) <= n
  <2>1. Mentionings(h, k) \in SUBSET Mentionings(g, k) /\ Promised(ds, k) \in SUBSET Promised(cs, k)
    BY DEF Quiet, Mentionings, Mentioners
  <2>2. /\ ByMemory(weight, Mentionings(h, k)) <= ByMemory(weight, Mentionings(g, k))
        /\ ByMemory(weight, Promised(ds, k)) <= ByMemory(weight, Promised(cs, k))
    BY <2>1, MentioningsFinite, TalliesFinite, ByMemoryWithin
  <2>3. /\ ByMemory(weight, Mentionings(h, k)) \in Nat /\ ByMemory(weight, Mentionings(g, k)) \in Nat
        /\ ByMemory(weight, Promised(ds, k)) \in Nat /\ ByMemory(weight, Promised(cs, k)) \in Nat
    BY MentioningsFinite, TalliesFinite, ByMemoryIsNat
  <2>4. ByMemory(weight, Mentionings(g, k)) + ByMemory(weight, Promised(cs, k)) <= n
    <3>1. CASE k \in Keys(g)
      BY <1>6, <3>1
    <3>2. CASE k \notin Keys(g)
      <4>1. Mentionings(g, k) = {} /\ Promised(cs, k) = {}
        BY <3>2 DEF Quiet, Mentionings
      <4>2. ByMemory(weight, Mentionings(g, k)) = 0 /\ ByMemory(weight, Promised(cs, k)) = 0
        BY <4>1, ByMemoryOfNone
      <4> QED
        BY <4>2
    <3> QED
      BY <3>1, <3>2
  <2> PICK a \in Nat, b \in Nat, x \in Nat, y \in Nat :
         /\ a = ByMemory(weight, Mentionings(g, k)) /\ b = ByMemory(weight, Promised(cs, k))
         /\ x = ByMemory(weight, Mentionings(h, k)) /\ y = ByMemory(weight, Promised(ds, k))
    BY <2>3
  <2>5. x <= a /\ y <= b /\ a + b <= n
    BY <2>2, <2>4
  <2>6. x + y <= n
    BY <2>5
  <2> QED
    BY <2>6
<1>7. MentionsCounted(h, ds)
  <2> SUFFICES ASSUME NEW k \in Keys(h)
               PROVE  /\ ByMemory(Ones, Mentionings(h, k)) + ByMemory(Ones, Promised(ds, k)) <= h.rows[k].mentions
                      /\ ByMemory(Reliability, Mentionings(h, k)) + ByMemory(Reliability, Promised(ds, k))
                           <= h.rows[k].evidence
    BY DEF MentionsCounted
  <2>1. k \in Keys(g) =>
          /\ ByMemory(Ones, Mentionings(g, k)) + ByMemory(Ones, Promised(cs, k)) <= h.rows[k].mentions
          /\ ByMemory(Reliability, Mentionings(g, k)) + ByMemory(Reliability, Promised(cs, k))
               <= h.rows[k].evidence
    BY DEF MentionsCounted, Quiet
  <2>2. h.rows[k].mentions \in Nat /\ h.rows[k].evidence \in Nat
    BY <1>1 DEF RowsCounted
  <2> QED
    BY <1>6, <2>1, <2>2, WeightsTyped
<1> QED
  BY <1>1, <1>5, <1>7

-----------------------------------------------------------------------------
(* What a call goes by stays true while the graph grows, and it promises      *)
(* nothing to keys that were not handed out yet.                              *)
LEMMA CallTrueGrows ==
  ASSUME NEW g, WellFormed(g), NEW h, Grows(g, h), NEW c, PoolOK(g, c.pool), PoolOK(g, c.cache), CallTrue(g, c)
  PROVE  CallTrue(h, c)
<1>1. g.next \in Nat /\ h.next \in Nat /\ 1..(g.next - 1) \subseteq 1..(h.next - 1)
  BY NextGrows
<1>2. \A k \in 1..(g.next - 1) : k \in Keys(h) => k \in Keys(g)
  BY <1>1 DEF Grows
<1>3. /\ \A k \in DOMAIN c.pool \cap Keys(h) : k \in Keys(g)
      /\ \A k \in DOMAIN c.cache \cap Keys(h) : k \in Keys(g)
  BY <1>2 DEF PoolOK
<1> QED
  BY <1>1, <1>3 DEF CallTrue, Grows, SameRow

LEMMA MergesInPool ==
  ASSUME NEW g, WellFormed(g), NEW pool, PoolOK(g, pool), NEW e \in Entities, MergeTarget(pool, e) # NoKey
  PROVE  LET k == MergeTarget(pool, e)
         IN k \in DOMAIN pool /\ k \in 1..(g.next - 1) /\ Similarity[e][pool[k]] >= MergeThreshold
<1> DEFINE k == MergeTarget(pool, e)
<1>1. MergeThreshold \in Nat /\ MergeThreshold > 0
  BY NumbersAssumption, ThresholdsAssumption
<1>2. k \in Rivals(pool, e)
  BY <1>1, NearerFound DEF MergeTarget
<1>3. Nearness(pool, e, k) >= MergeThreshold
  BY DEF MergeTarget, NearerThan
<1> QED
  BY <1>2, <1>3 DEF Rivals, PoolOK, Nearness

LEMMA NoPledges ==
  ASSUME NEW g, WellFormed(g), NEW c, PoolOK(g, c.pool), CallTrue(g, c),
         c.pc \in {"upsert", "mention"} => AtHand(c) \subseteq Entities,
         NEW k \in Nat, k >= g.next, NEW m, Promises(c, k, m)
  PROVE  FALSE
<1>1. PICK e \in AtHand(c) :
         \/ c.pc = "upsert" /\ MergeTarget(c.pool, e) = k
         \/ c.pc = "mention" /\ c.keyOf[e] = k
  BY DEF Promises
<1>2. g.next \in Nat /\ g.next > 0
  BY DEF WellFormed
<1>3. CASE c.pc = "upsert" /\ MergeTarget(c.pool, e) = k
  <2>1. e \in Entities /\ MergeTarget(c.pool, e) # NoKey
    BY <1>2, <1>3 DEF NoKey
  <2>2. k \in 1..(g.next - 1)
    BY <1>3, <2>1, MergesInPool
  <2> QED
    BY <1>2, <2>2
<1>4. CASE c.pc = "mention" /\ c.keyOf[e] = k
  <2>1. k \in 1..(g.next - 1)
    BY <1>4 DEF CallTrue
  <2> QED
    BY <1>2, <2>1
<1> QED
  BY <1>1, <1>3, <1>4

(* A call that is about to count: what is at hand is said, and comes once.     *)
ToWrite(g, c) ==
  /\ DOMAIN c = DOMAIN Idle /\ PoolOK(g, c.pool) /\ CallTrue(g, c)
  /\ DOMAIN c.ms \subseteq Nat /\ IsFiniteSet(DOMAIN c.ms) /\ Range(c.ms) \subseteq Memories /\ MemoriesOnce(c)
  /\ AtHand(c) \in SUBSET EntitiesOf(c.ms) /\ AtHand(c) \cap Later(c) = {}

LEMMA IncrementCounting ==
  ASSUME NEW g, WellFormed(g), RowsCounted(g), NEW cs, NEW w \in Writers,
         ToWrite(g, cs[w]), cs[w].pc \in {"write", "increment"}
  PROVE  Counting(g, Increment(g, cs[w].pool, cs[w].ms, AtHand(cs[w])), cs, w, [cs[w] EXCEPT !.pc = "upsert"],
                  [k \in Keys(g) |-> MergedInto(cs[w].pool, AtHand(cs[w]), k)])
<1> DEFINE c == cs[w]
           d == [c EXCEPT !.pc = "upsert"]
           h == Increment(g, c.pool, c.ms, AtHand(c))
           X == [k \in Keys(g) |-> MergedInto(c.pool, AtHand(c), k)]
<1>1. /\ DOMAIN c = DOMAIN Idle /\ PoolOK(g, c.pool) /\ CallTrue(g, c)
      /\ IsFiniteSet(DOMAIN c.ms) /\ Range(c.ms) \subseteq Memories /\ MemoriesOnce(c)
      /\ AtHand(c) \in SUBSET Entities /\ AtHand(c) \cap Later(c) = {}
  BY EntitiesOfTyped DEF ToWrite
<1>2. /\ d.pc = "upsert" /\ d.ms = c.ms /\ d.many = c.many /\ d.i = c.i /\ d.pool = c.pool
      /\ AtHand(d) = AtHand(c) /\ Later(d) = Later(c)
  BY <1>1 DEF Idle, AtHand, Later
<1>3. \A k \in Keys(g) : X[k] = MergedInto(c.pool, AtHand(c), k)
  OBVIOUS
<1> HIDE DEF d, X, c
<1>4. /\ SameEdges(g, h) /\ Keys(h) = Keys(g) /\ \A k \in Keys(g) : SameRow(g, h, k)
  BY IncrementKeeps
<1>5. Adds(g, h, c.ms, X)
  BY <1>1, <1>3, IncrementAdds
<1>6. \A k \in Keys(g) : k # NoKey
  BY DEF WellFormed, NoKey
<1> HIDE DEF h
<1>7. Taken(h, c, d, X)
  <2>1. \A e \in Entities : IsLeft(d, e) => IsLeft(c, e)
    BY <1>2 DEF IsLeft, c
  <2>2. ASSUME NEW k \in Keys(h), NEW e \in X[k]
        PROVE  /\ e \in Entities /\ IsLeft(c, e) /\ ~IsLeft(d, e)
               /\ Similarity[e][h.rows[k].entity] >= MergeThreshold
    <3>1. e \in AtHand(c) /\ MergeTarget(c.pool, e) = k /\ k # NoKey /\ e \in Entities /\ e \notin Later(c)
      BY <1>1, <1>3, <1>4, <1>6 DEF MergedInto
    <3>2. IsLeft(c, e) /\ ~IsLeft(d, e)
      BY <1>2, <3>1 DEF IsLeft, c
    <3>3. k \in DOMAIN c.pool /\ Similarity[e][c.pool[k]] >= MergeThreshold
      BY <1>1, <3>1, MergesInPool
    <3>4. c.pool[k] = h.rows[k].entity
      BY <1>1, <1>4, <3>3 DEF CallTrue, SameRow
    <3> QED
      BY <3>1, <3>2, <3>3, <3>4
  <2> QED
    BY <2>1, <2>2 DEF Taken
<1>8. Pledged(h, c, d, X)
  <2> SUFFICES ASSUME NEW k \in Keys(h), NEW m \in Memories, Promises(d, k, m)
               PROVE  m \in Told(c.ms, X[k])
    BY DEF Pledged
  <2>1. PICK i \in DOMAIN c.ms, e \in AtHand(c) :
          c.ms[i] = m /\ e \in Range(Says[m]) /\ MergeTarget(c.pool, e) = k
    BY <1>2 DEF Promises
  <2>2. e \in X[k]
    BY <1>3, <1>4, <2>1 DEF MergedInto
  <2> QED
    BY <2>1, <2>2 DEF Told, Range
<1>9. Lists(c, d)
  BY <1>1, <1>2 DEF Lists
<1>10. Counting(g, h, cs, w, d, X)
  BY <1>4, <1>5, <1>7, <1>8, <1>9 DEF Counting, SameEdges, SameRow, c
<1> QED
  BY <1>10 DEF h, d, X, c

(* The same call, when it has settled its keys.                              *)
SettledKeys(g, c) ==
  [e \in DOMAIN c.keyOf \cup AtHand(c) |->
     IF e \in AtHand(c) THEN KeysFor(g, c.pool, c.ms, AtHand(c))[e] ELSE c.keyOf[e]]

LEMMA UpsertCounting ==
  ASSUME NEW g, WellFormed(g), RowsCounted(g), MentionsOld(g), NEW cs, NEW w \in Writers,
         ToWrite(g, cs[w]), cs[w].pc = "upsert",
         \A k \in Nat : k >= g.next => Promised(cs, k) = {}
  PROVE  LET h == Upsert(g, cs[w].pool, cs[w].ms, AtHand(cs[w]), cs[w].agent)
         IN Counting(g, h, cs, w, [cs[w] EXCEPT !.pc = "mention", !.keyOf = SettledKeys(g, cs[w])],
                     OwnRows(cs[w].pool, AtHand(cs[w]), h))
<1> DEFINE c == cs[w]
           keyOf == KeysFor(g, c.pool, c.ms, AtHand(c))
           keys == SettledKeys(g, c)
           d == [c EXCEPT !.pc = "mention", !.keyOf = keys]
           h == Upsert(g, c.pool, c.ms, AtHand(c), c.agent)
           X == OwnRows(c.pool, AtHand(c), h)
<1>1. /\ DOMAIN c = DOMAIN Idle /\ PoolOK(g, c.pool) /\ CallTrue(g, c) /\ DOMAIN c.ms \subseteq Nat
      /\ IsFiniteSet(DOMAIN c.ms) /\ Range(c.ms) \subseteq Memories /\ MemoriesOnce(c)
      /\ AtHand(c) \in SUBSET EntitiesOf(c.ms)
      /\ AtHand(c) \in SUBSET Entities /\ AtHand(c) \cap Later(c) = {} /\ c.pc = "upsert"
  BY EntitiesOfTyped DEF ToWrite
<1>2. \A e \in AtHand(c) : keys[e] = keyOf[e]
  BY DEF SettledKeys
<1>3. \A k \in Keys(h) : X[k] = Own(c.pool, AtHand(c)) \cap {h.rows[k].entity}
  BY DEF OwnRows
<1> HIDE DEF keys
<1>4. /\ d.pc = "mention" /\ d.ms = c.ms /\ d.many = c.many /\ d.i = c.i /\ d.keyOf = keys
      /\ AtHand(d) = AtHand(c) /\ Later(d) = Later(c)
  BY <1>1 DEF Idle, AtHand, Later
<1> HIDE DEF d, c
<1>5. /\ SameEdges(g, h) /\ g.next <= h.next /\ Keys(g) \subseteq Keys(h)
      /\ \A k \in Keys(g) : SameRow(g, h, k)
      /\ \A k \in Keys(h) \ Keys(g) : Resolved(g, h, c.pool, k)
      /\ WellFormed(h)
  BY <1>1, UpsertMakes
<1>6. /\ Adds(g, h, c.ms, X)
      /\ \A e \in Own(c.pool, AtHand(c)) : keyOf[e] \in Keys(h) /\ h.rows[keyOf[e]].entity = e
  <2> PICK pool, ms, entities, agent :
         pool = c.pool /\ ms = c.ms /\ entities = AtHand(c) /\ agent = c.agent
    OBVIOUS
  <2>1. /\ IsFiniteSet(DOMAIN ms) /\ DOMAIN ms \subseteq Nat /\ Range(ms) \subseteq Memories
        /\ entities \in SUBSET EntitiesOf(ms)
    BY <1>1
  <2>2. Adds(g, Upsert(g, pool, ms, entities, agent), ms,
             OwnRows(pool, entities, Upsert(g, pool, ms, entities, agent)))
    BY <2>1, UpsertAdds
  <2>3. \A e \in Own(pool, entities) :
          /\ KeysFor(g, pool, ms, entities)[e] \in Keys(Upsert(g, pool, ms, entities, agent))
          /\ Upsert(g, pool, ms, entities, agent).rows[KeysFor(g, pool, ms, entities)[e]].entity = e
    BY <2>1, UpsertAdds
  <2> QED
    BY <2>2, <2>3
<1>7. \A e \in AtHand(c) : MergeTarget(c.pool, e) # NoKey => keyOf[e] = MergeTarget(c.pool, e)
  BY DEF KeysFor, Merged
<1> HIDE DEF h, keyOf, X
<1>8. Taken(h, c, d, X)
  BY <1>1, <1>3, <1>4 DEF Taken, IsLeft, Own
<1>9. Pledged(h, c, d, X)
  <2> SUFFICES ASSUME NEW k \in Keys(h), NEW m \in Memories, Promises(d, k, m)
               PROVE  Promises(c, k, m) \/ m \in Told(c.ms, X[k])
    BY DEF Pledged
  <2>1. PICK i \in DOMAIN c.ms, e \in AtHand(c) :
          c.ms[i] = m /\ e \in Range(Says[m]) /\ keyOf[e] = k
    BY <1>2, <1>4 DEF Promises
  <2>2. CASE MergeTarget(c.pool, e) # NoKey
    BY <1>1, <1>7, <2>1, <2>2 DEF Promises
  <2>3. CASE MergeTarget(c.pool, e) = NoKey
    <3>1. e \in Own(c.pool, AtHand(c)) /\ h.rows[k].entity = e
      BY <1>6, <2>1, <2>3 DEF Own
    <3>2. e \in X[k]
      BY <1>3, <3>1
    <3> QED
      BY <2>1, <3>2 DEF Told, Range
  <2> QED
    BY <2>2, <2>3
<1>10. Lists(c, d)
  BY <1>1, <1>4 DEF Lists
<1>11. ASSUME NEW k \in Keys(h) \ Keys(g) PROVE Mentioners(g, k) = {} /\ Promised(cs, k) = {}
  <2>1. k \in Nat /\ k >= g.next /\ g.next \in Nat
    BY <1>5 DEF Resolved, WellFormed
  <2>2. \A l \in g.mentions : l[2] # k
    BY <2>1 DEF MentionsOld
  <2> QED
    BY <2>1, <2>2 DEF Mentioners
<1>12. Counting(g, h, cs, w, d, X)
  BY <1>5, <1>6, <1>8, <1>9, <1>10, <1>11 DEF Counting, SameEdges, SameRow, c
<1> QED
  BY <1>12 DEF h, d, X, c, keys

-----------------------------------------------------------------------------
(* The steps, one by one.                                                    *)
LEMMA CallTyped ==
  ASSUME NEW g, NEW c, CallOK(g, c), c.pc \in {"write", "increment", "upsert", "mention"}
  PROVE  AtHand(c) \in SUBSET EntitiesOf(c.ms) /\ AtHand(c) \in SUBSET Entities
<1>1. AtHand(c) \in SUBSET EntitiesOf(c.ms)
  BY AtHandSaid DEF CallOK, Fed
<1> QED
  BY <1>1, EntitiesOfTyped DEF CallOK

LEMMA CallToWrite ==
  ASSUME EntityInv, CorroborationInv, CountersInv, NEW w \in Writers,
         calls[w].pc \in {"write", "increment", "upsert"}
  PROVE  ToWrite(graph, calls[w])
<1> DEFINE c == calls[w]
<1>1. /\ CallOK(graph, c) /\ DOMAIN c = DOMAIN Idle /\ MemoriesOnce(c) /\ CallTrue(graph, c)
      /\ IsFiniteSet(DOMAIN c.ms)
  BY CallFacts, CallFinite DEF CorroborationInv, CountersInv
<1>2. PoolOK(graph, c.pool) /\ DOMAIN c.ms \subseteq Nat /\ Range(c.ms) \subseteq Memories
  BY <1>1 DEF CallOK
<1>3. AtHand(c) \in SUBSET EntitiesOf(c.ms)
  BY <1>1, CallTyped
<1>4. AtHand(c) \cap Later(c) = {}
  <2>1. CASE c.many
    BY <2>1 DEF Later
  <2>2. CASE ~c.many
    <3>1. 1 \in DOMAIN c.ms /\ c.i \in DOMAIN Says[c.ms[1]]
      BY <1>1, <2>2 DEF CallOK, Fed
    <3>2. c.ms[1] \in Memories /\ IsInjective(Says[c.ms[1]]) /\ DOMAIN Says[c.ms[1]] \subseteq Nat
      <4>1. c.ms[1] \in Memories /\ DOMAIN Says[c.ms[1]] = 1..Len(Says[c.ms[1]])
        BY <1>2, <3>1, SaysEntities
      <4>2. IsInjective(Says[c.ms[1]])
        BY <4>1, MemoriesAssumption
      <4> QED
        BY <4>1, <4>2
    <3>3. \A j \in DOMAIN Says[c.ms[1]] : j > c.i => Says[c.ms[1]][j] # Says[c.ms[1]][c.i]
      BY <3>1, <3>2 DEF IsInjective
    <3> QED
      BY <2>2, <3>3 DEF AtHand, Later
  <2> QED
    BY <2>1, <2>2
<1> QED
  BY <1>1, <1>2, <1>3, <1>4 DEF ToWrite

LEMMA CountersFacts ==
  ASSUME EntityInv, CorroborationInv, CountersInv
  PROVE  /\ WellFormed(graph) /\ DOMAIN calls = Writers /\ fed \in [Memories -> Nat]
         /\ RowsCounted(graph) /\ MentionsOld(graph)
         /\ \A w \in Writers : /\ CallOK(graph, calls[w]) /\ CallTrue(graph, calls[w])
                               /\ PoolOK(graph, calls[w].pool) /\ PoolOK(graph, calls[w].cache)
         /\ WithinFed(graph, calls, fed) /\ MentionsCounted(graph, calls)
         /\ \A k \in Nat : k >= graph.next => Promised(calls, k) = {}
<1>1. /\ WellFormed(graph) /\ DOMAIN calls = Writers /\ fed \in [Memories -> Nat]
      /\ RowsCounted(graph) /\ MentionsOld(graph)
      /\ \A w \in Writers : /\ CallOK(graph, calls[w]) /\ CallTrue(graph, calls[w])
                            /\ PoolOK(graph, calls[w].pool) /\ PoolOK(graph, calls[w].cache)
      /\ WithinFed(graph, calls, fed) /\ MentionsCounted(graph, calls)
  BY DEF EntityInv, GraphTypes, CorroborationInv, Affordable, CountersInv, CallOK
<1>2. ASSUME NEW k \in Nat, k >= graph.next, NEW p \in Promised(calls, k) PROVE FALSE
  <2>1. PICK v \in Writers : Promises(calls[v], k, p[2])
    BY DEF Promised
  <2>2. calls[v].pc \in {"upsert", "mention"} => AtHand(calls[v]) \subseteq Entities
    BY <1>1, CallTyped
  <2> QED
    BY <1>1, <1>2, <2>1, <2>2, NoPledges
<1> QED
  BY <1>1, <1>2

LEMMA CallsStayTrue ==
  ASSUME EntityInv, CorroborationInv, CountersInv, NEW w \in Writers, NEW d,
         calls' = [calls EXCEPT ![w] = d], Grows(graph, graph'), CallTrue(graph', d)
  PROVE  \A v \in Writers : CallTrue(graph', calls'[v])
<1>1. calls'[w] = d /\ \A v \in Writers : v # w => calls'[v] = calls[v]
  BY CountersFacts
<1>2. \A v \in Writers : CallTrue(graph', calls[v])
  BY CountersFacts, CallTrueGrows
<1> QED
  BY <1>1, <1>2

LEMMA IncrementManyCounts ==
  ASSUME EntityInv, CorroborationInv, CountersInv, NEW w \in Writers, IncrementMany(w)
  PROVE  CountersInv'
<1> DEFINE c == calls[w]
           d == [c EXCEPT !.pc = "upsert"]
           X == [k \in Keys(graph) |-> MergedInto(c.pool, AtHand(c), k)]
<1>1. /\ c.pc = "increment" /\ graph' = Increment(graph, c.pool, c.ms, AtHand(c))
      /\ calls' = [calls EXCEPT ![w] = d] /\ fed' = fed
  BY DEF IncrementMany, Go
<1>2. ToWrite(graph, c) /\ DOMAIN c = DOMAIN Idle
  BY <1>1, CallToWrite DEF ToWrite
<1>3. d.pc = "upsert" /\ d.pool = c.pool /\ d.cache = c.cache /\ d.keyOf = c.keyOf
  BY <1>2 DEF Idle
<1>4. Counting(graph, graph', calls, w, d, X)
  BY <1>1, <1>2, CountersFacts, IncrementCounting
<1> HIDE DEF d, X
<1>5. /\ WellFormed(graph') /\ SameEdges(graph, graph') /\ graph'.next = graph.next
      /\ Keys(graph') = Keys(graph) /\ \A k \in Keys(graph) : SameRow(graph, graph', k)
  BY <1>1, CountersFacts, IncrementKeeps
<1>6. Grows(graph, graph')
  BY <1>5 DEF Grows, WellFormed
<1>7. CallTrue(graph', d)
  <2>1. CallTrue(graph', c)
    BY <1>6, CountersFacts, CallTrueGrows
  <2> QED
    BY <1>3, <2>1 DEF CallTrue
<1>8. RowsCounted(graph') /\ WithinFed(graph', calls', fed') /\ MentionsCounted(graph', calls')
  <2>1. \A k \in Keys(graph') : graph'.rows[k].entity \in Entities
    BY <1>5 DEF WellFormed
  <2> QED
    BY <1>1, <1>4, <2>1, CountersFacts, CountingStep
<1>9. MentionsOld(graph')
  BY <1>5, CountersFacts DEF MentionsOld, SameEdges
<1> QED
  BY <1>1, <1>6, <1>7, <1>8, <1>9, CallsStayTrue DEF CountersInv

(* Settling keys, of a graph and of calls in which the merges are counted.    *)
MergesCounted(w, b, cs) == b = [calls[w] EXCEPT !.pc = "upsert"] /\ cs = [calls EXCEPT ![w] = b]

LEMMA SettleCounts ==
  ASSUME EntityInv, CorroborationInv, CountersInv, NEW w \in Writers, NEW g, WellFormed(g),
         Settle(w, g), fed' = fed,
         g.next = graph.next, SameEdges(graph, g), Keys(g) = Keys(graph),
         \A k \in Keys(graph) : SameRow(graph, g, k),
         calls[w].pc \in {"write", "upsert"}, NEW b, NEW cs, MergesCounted(w, b, cs),
         RowsCounted(g), WithinFed(g, cs, fed), MentionsCounted(g, cs)
  PROVE  CountersInv'
<1> DEFINE c == calls[w]
           keys == SettledKeys(g, b)
           d == [b EXCEPT !.pc = "mention", !.keyOf = keys]
           X == OwnRows(b.pool, AtHand(b), graph')
<1>1. DOMAIN c = DOMAIN Idle /\ ToWrite(graph, c) /\ CallOK(graph, c) /\ PoolOK(graph, c.pool) /\ PoolOK(graph, c.cache)
  BY CallToWrite, CallFacts, CountersFacts
<1>2. /\ DOMAIN b = DOMAIN Idle /\ b.pc = "upsert" /\ b.pool = c.pool /\ b.cache = c.cache
      /\ b.keyOf = c.keyOf /\ b.ms = c.ms /\ b.many = c.many /\ b.i = c.i /\ b.agent = c.agent
      /\ AtHand(b) = AtHand(c) /\ Later(b) = Later(c)
  BY <1>1 DEF Idle, AtHand, Later, MergesCounted
<1>3. cs[w] = b /\ DOMAIN cs = Writers /\ \A v \in Writers : v # w => cs[v] = calls[v]
  BY CountersFacts DEF MergesCounted
<1>4. /\ graph' = Upsert(g, b.pool, b.ms, AtHand(b), b.agent)
      /\ calls' = [calls EXCEPT ![w] = [c EXCEPT !.pc = "mention", !.keyOf = keys]]
  BY <1>2 DEF Settle, Go, SettledKeys
<1>5. [c EXCEPT !.pc = "mention", !.keyOf = keys] = d
  <2> HIDE DEF keys
  <2> QED
    BY <1>1 DEF Idle, MergesCounted
<1>6. calls' = [cs EXCEPT ![w] = d] /\ calls' = [calls EXCEPT ![w] = d]
  <2> HIDE DEF d, keys
  <2> QED
    BY <1>4, <1>5, CountersFacts DEF MergesCounted
<1>7. /\ DOMAIN keys = DOMAIN c.keyOf \cup AtHand(c)
      /\ \A e \in DOMAIN keys :
           \/ e \in AtHand(c) /\ keys[e] = KeysFor(g, b.pool, b.ms, AtHand(b))[e]
           \/ e \in DOMAIN c.keyOf /\ keys[e] = c.keyOf[e]
  BY <1>2 DEF SettledKeys
<1> HIDE DEF keys
<1>8. /\ d.pc = "mention" /\ d.pool = c.pool /\ d.cache = c.cache /\ d.keyOf = keys
      /\ AtHand(d) = AtHand(c)
  BY <1>2 DEF Idle, AtHand
<1>9. Grows(graph, g)
  BY <1>1, CountersFacts DEF Grows, WellFormed
<1>10. MentionsOld(g) /\ CallTrue(g, b) /\ PoolOK(g, b.pool) /\ PoolOK(g, b.cache)
  <2>1. CallTrue(g, c)
    BY <1>9, CountersFacts, CallTrueGrows
  <2>2. CallTrue(g, b)
    BY <1>2, <2>1 DEF CallTrue
  <2> QED
    BY <1>1, <1>2, <2>2, CountersFacts DEF MentionsOld, SameEdges, PoolOK
<1>11. ToWrite(g, b)
  BY <1>1, <1>2, <1>10 DEF ToWrite, MemoriesOnce
<1>12. \A k \in Nat : k >= g.next => Promised(cs, k) = {}
  <2> SUFFICES ASSUME NEW k \in Nat, k >= g.next, NEW v \in Writers, NEW m, Promises(cs[v], k, m)
               PROVE  FALSE
    BY DEF Promised
  <2>1. CASE v = w
    <3>1. AtHand(b) \in SUBSET Entities
      BY <1>1, <1>2, CallTyped
    <3> QED
      BY <1>3, <1>10, <2>1, <3>1, NoPledges
  <2>2. CASE v # w
    <3>1. Promises(calls[v], k, m) /\ k >= graph.next
      BY <1>3, <2>2
    <3>2. calls[v].pc \in {"upsert", "mention"} => AtHand(calls[v]) \subseteq Entities
      BY CountersFacts, CallTyped
    <3> QED
      BY <3>1, <3>2, CountersFacts, NoPledges
  <2> QED
    BY <2>1, <2>2
<1>13. Counting(g, graph', cs, w, d, X)
  <2>1. Counting(g, Upsert(g, cs[w].pool, cs[w].ms, AtHand(cs[w]), cs[w].agent), cs, w,
                 [cs[w] EXCEPT !.pc = "mention", !.keyOf = SettledKeys(g, cs[w])],
                 OwnRows(cs[w].pool, AtHand(cs[w]), Upsert(g, cs[w].pool, cs[w].ms, AtHand(cs[w]), cs[w].agent)))
    <3>1. ToWrite(g, cs[w]) /\ cs[w].pc = "upsert"
      BY <1>2, <1>3, <1>11
    <3> QED
      BY <1>10, <1>12, <3>1, UpsertCounting
  <2> QED
    BY <1>3, <1>4, <2>1 DEF keys
<1>14. /\ WellFormed(graph') /\ SameEdges(g, graph') /\ g.next <= graph'.next
       /\ Keys(g) \subseteq Keys(graph') /\ \A k \in Keys(g) : SameRow(g, graph', k)
       /\ \A k \in Keys(graph') \ Keys(g) : k >= g.next
       /\ \A e \in AtHand(b) : \/ KeysFor(g, b.pool, b.ms, AtHand(b))[e] \in Keys(graph')
                               \/ /\ MergeTarget(b.pool, e) # NoKey
                                  /\ KeysFor(g, b.pool, b.ms, AtHand(b))[e] = MergeTarget(b.pool, e)
  <2>1. /\ DOMAIN b.ms \subseteq Nat /\ Range(b.ms) \subseteq Memories
        /\ AtHand(b) \in SUBSET EntitiesOf(b.ms)
    BY <1>11 DEF ToWrite
  <2>2. \A k \in Keys(graph') \ Keys(g) : Resolved(g, graph', b.pool, k)
    BY <1>4, <2>1, UpsertMakes
  <2>3. /\ WellFormed(graph') /\ SameEdges(g, graph') /\ g.next <= graph'.next
        /\ Keys(g) \subseteq Keys(graph') /\ \A k \in Keys(g) : SameRow(g, graph', k)
    BY <1>4, <2>1, UpsertMakes
  <2>4. \A e \in AtHand(b) : \/ KeysFor(g, b.pool, b.ms, AtHand(b))[e] \in Keys(graph')
                             \/ /\ MergeTarget(b.pool, e) # NoKey
                                /\ KeysFor(g, b.pool, b.ms, AtHand(b))[e] = MergeTarget(b.pool, e)
    BY <1>4, <2>1, UpsertMakes
  <2> QED
    BY <2>2, <2>3, <2>4 DEF Resolved
<1> HIDE DEF d, X
<1>15. Grows(g, graph')
  BY <1>14 DEF Grows
<1>16. Grows(graph, graph')
  BY <1>9, <1>15 DEF Grows, SameRow
<1>17. CallTrue(graph', d)
  <2>1. CallTrue(graph', b)
    BY <1>10, <1>15, CallTrueGrows
  <2>2. \A e \in DOMAIN keys : keys[e] \in 1..(graph'.next - 1)
    <3> SUFFICES ASSUME NEW e \in DOMAIN keys PROVE keys[e] \in 1..(graph'.next - 1)
      OBVIOUS
    <3>1. CASE e \in DOMAIN c.keyOf /\ keys[e] = c.keyOf[e]
      BY <1>2, <2>1, <3>1 DEF CallTrue
    <3>2. CASE e \in AtHand(c) /\ keys[e] = KeysFor(g, b.pool, b.ms, AtHand(b))[e]
      <4>1. CASE keys[e] \in Keys(graph')
        BY <1>14, <4>1 DEF WellFormed
      <4>2. CASE MergeTarget(b.pool, e) # NoKey /\ keys[e] = MergeTarget(b.pool, e)
        <5>1. e \in Entities
          BY <1>1, <3>2, CallTyped
        <5>2. keys[e] \in 1..(g.next - 1)
          BY <1>10, <4>2, <5>1, MergesInPool
        <5>3. g.next \in Nat /\ graph'.next \in Nat /\ g.next <= graph'.next
          BY <1>14 DEF WellFormed
        <5> QED
          BY <5>2, <5>3
      <4> QED
        BY <1>2, <1>14, <3>2, <4>1, <4>2
    <3> QED
      BY <1>7, <3>1, <3>2
  <2>3. /\ \A k \in DOMAIN d.pool \cap Keys(graph') : d.pool[k] = graph'.rows[k].entity
        /\ \A k \in DOMAIN d.cache \cap Keys(graph') : d.cache[k] = graph'.rows[k].entity
    BY <1>2, <1>8, <2>1 DEF CallTrue
  <2>4. AtHand(d) \subseteq DOMAIN d.keyOf
    BY <1>7, <1>8
  <2> QED
    BY <1>8, <2>2, <2>3, <2>4 DEF CallTrue
<1>18. RowsCounted(graph') /\ WithinFed(graph', calls', fed') /\ MentionsCounted(graph', calls')
  <2>1. \A k \in Keys(graph') : graph'.rows[k].entity \in Entities
    BY <1>14 DEF WellFormed
  <2>2. fed \in [Memories -> Nat]
    BY CountersFacts
  <2>3. /\ RowsCounted(graph') /\ WithinFed(graph', [cs EXCEPT ![w] = d], fed)
        /\ MentionsCounted(graph', [cs EXCEPT ![w] = d])
    BY <1>3, <1>13, <2>1, <2>2, CountingStep
  <2> QED
    BY <1>6, <2>3
<1>19. MentionsOld(graph')
  <2>1. g.next \in Nat /\ graph'.next \in Nat /\ graph'.mentions = g.mentions
    BY <1>14 DEF WellFormed, SameEdges
  <2> QED
    BY <1>10, <1>14, <2>1 DEF MentionsOld
<1> QED
  BY <1>6, <1>16, <1>17, <1>18, <1>19, CallsStayTrue DEF CountersInv

(* A call that has no more left to count, and promises no more.               *)
LEMMA QuietCall ==
  ASSUME NEW cs, DOMAIN cs = Writers, NEW w \in Writers, NEW d,
         \A e \in Entities : IsLeft(d, e) => IsLeft(cs[w], e) /\ Range(d.ms) \subseteq Range(cs[w].ms),
         \A k : \A m \in Memories : Promises(d, k, m) => Promises(cs[w], k, m)
  PROVE  /\ \A f \in Entities : ToCount([cs EXCEPT ![w] = d], f) \subseteq ToCount(cs, f)
         /\ \A k : Promised([cs EXCEPT ![w] = d], k) \subseteq Promised(cs, k)
<1> DEFINE ds == [cs EXCEPT ![w] = d]
<1>1. ds[w] = d /\ \A v \in Writers : v # w => ds[v] = cs[v]
  OBVIOUS
<1> HIDE DEF ds
<1>2. ASSUME NEW f \in Entities, NEW t \in ToCount(ds, f) PROVE t \in ToCount(cs, f)
  <2>1. /\ t \in Writers \X Memories \X Entities /\ t[1] \in Writers /\ t[3] \in Entities
        /\ t[2] \in Range(ds[t[1]].ms) /\ IsLeft(ds[t[1]], t[3]) /\ t[3] \in Heard(t[2], f)
    BY DEF ToCount
  <2>2. t[2] \in Range(cs[t[1]].ms) /\ IsLeft(cs[t[1]], t[3])
    <3>1. CASE t[1] = w
      BY <1>1, <2>1, <3>1
    <3>2. CASE t[1] # w
      BY <1>1, <2>1, <3>2
    <3> QED
      BY <3>1, <3>2
  <2> QED
    BY <2>1, <2>2 DEF ToCount
<1>3. ASSUME NEW k, NEW p \in Promised(ds, k) PROVE p \in Promised(cs, k)
  <2>1. p \in Writers \X Memories /\ Promises(ds[p[1]], k, p[2]) /\ p[1] \in Writers /\ p[2] \in Memories
    BY DEF Promised
  <2>2. Promises(cs[p[1]], k, p[2])
    <3>1. CASE p[1] = w
      BY <1>1, <2>1, <3>1
    <3>2. CASE p[1] # w
      BY <1>1, <2>1, <3>2
    <3> QED
      BY <3>1, <3>2
  <2> QED
    BY <2>1, <2>2 DEF Promised
<1> QED
  BY <1>2, <1>3 DEF ds

LEMMA UpsertManyCounts ==
  ASSUME EntityInv, CorroborationInv, CountersInv, NEW w \in Writers, UpsertMany(w)
  PROVE  CountersInv'
<1> DEFINE c == calls[w]
           b == [c EXCEPT !.pc = "upsert"]
           cs == [calls EXCEPT ![w] = b]
<1>1. c.pc = "upsert" /\ Settle(w, graph) /\ fed' = fed
  BY DEF UpsertMany, Settle
<1>2. /\ b.pc = c.pc /\ b.ms = c.ms /\ b.many = c.many /\ b.i = c.i /\ b.pool = c.pool /\ b.keyOf = c.keyOf
      /\ AtHand(b) = AtHand(c) /\ Later(b) = Later(c)
  BY <1>1, CallFacts DEF Idle, AtHand, Later
<1> HIDE DEF b
<1>3. /\ \A f \in Entities : ToCount(cs, f) \subseteq ToCount(calls, f)
      /\ \A k : Promised(cs, k) \subseteq Promised(calls, k)
  <2>1. /\ \A e \in Entities : IsLeft(b, e) => IsLeft(c, e) /\ Range(b.ms) \subseteq Range(c.ms)
        /\ \A k : \A m \in Memories : Promises(b, k, m) => Promises(c, k, m)
    BY <1>2 DEF IsLeft, Promises
  <2> QED
    BY <1>2, <2>1, CountersFacts, QuietCall
<1> HIDE DEF cs
<1>4. Quiet(graph, graph, calls, cs)
  BY <1>3 DEF Quiet
<1>5. RowsCounted(graph) /\ WithinFed(graph, cs, fed) /\ MentionsCounted(graph, cs)
  BY <1>4, CountersFacts, QuietCounts
<1>6. SameEdges(graph, graph) /\ \A k \in Keys(graph) : SameRow(graph, graph, k)
  BY DEF SameEdges, SameRow
<1> QED
  BY <1>1, <1>5, <1>6, CountersFacts, SettleCounts DEF b, cs, MergesCounted

LEMMA WriteCounts ==
  ASSUME EntityInv, CorroborationInv, CountersInv, NEW w \in Writers, Write(w)
  PROVE  CountersInv'
<1> DEFINE c == calls[w]
           b == [c EXCEPT !.pc = "upsert"]
           g == Increment(graph, c.pool, c.ms, AtHand(c))
           X == [k \in Keys(graph) |-> MergedInto(c.pool, AtHand(c), k)]
           cs == [calls EXCEPT ![w] = b]
<1>1. c.pc = "write" /\ Settle(w, g) /\ fed' = fed
  BY DEF Write, Settle
<1>2. Counting(graph, g, calls, w, b, X)
  BY <1>1, CallToWrite, CountersFacts, IncrementCounting
<1> HIDE DEF X
<1>3. /\ WellFormed(g) /\ SameEdges(graph, g) /\ g.next = graph.next
      /\ Keys(g) = Keys(graph) /\ \A k \in Keys(graph) : SameRow(graph, g, k)
  BY CountersFacts, IncrementKeeps
<1> HIDE DEF g
<1>4. RowsCounted(g) /\ WithinFed(g, cs, fed) /\ MentionsCounted(g, cs)
  <2> HIDE DEF b
  <2>1. \A k \in Keys(g) : g.rows[k].entity \in Entities
    BY <1>3 DEF WellFormed
  <2> QED
    BY <1>2, <2>1, CountersFacts, CountingStep
<1> HIDE DEF cs
<1> QED
  BY <1>1, <1>3, <1>4, SettleCounts DEF cs, MergesCounted

(* A writer's step that leaves the rows and the mentions as they were.        *)
LEMMA QuietWriter ==
  ASSUME EntityInv, CorroborationInv, CountersInv, NEW w \in Writers, NEW d,
         calls' = [calls EXCEPT ![w] = d], fed' = fed,
         WellFormed(graph'), graph'.rows = graph.rows, graph'.next = graph.next,
         graph'.mentions = graph.mentions,
         \A e \in Entities : IsLeft(d, e) => IsLeft(calls[w], e) /\ Range(d.ms) \subseteq Range(calls[w].ms),
         \A k : \A m \in Memories : Promises(d, k, m) => Promises(calls[w], k, m),
         CallTrue(graph, d)
  PROVE  CountersInv'
<1>1. Grows(graph, graph') /\ Keys(graph') = Keys(graph)
  BY CountersFacts, SameRowsGrow DEF Keys
<1>2. CallTrue(graph', d)
  BY <1>1 DEF CallTrue
<1>3. \A v \in Writers : CallTrue(graph', calls'[v])
  BY <1>1, <1>2, CallsStayTrue
<1>4. /\ \A f \in Entities : ToCount(calls', f) \subseteq ToCount(calls, f)
      /\ \A k : Promised(calls', k) \subseteq Promised(calls, k)
  BY CountersFacts, QuietCall
<1>5. Quiet(graph, graph', calls, calls')
  BY <1>1, <1>4 DEF Quiet
<1>6. RowsCounted(graph') /\ WithinFed(graph', calls', fed') /\ MentionsCounted(graph', calls')
  BY <1>5, CountersFacts, QuietCounts
<1>7. MentionsOld(graph')
  BY CountersFacts DEF MentionsOld
<1> QED
  BY <1>3, <1>6, <1>7 DEF CountersInv

LEMMA NothingHeld ==
  /\ DOMAIN Idle.pool = {} /\ DOMAIN Idle.cache = {} /\ DOMAIN Idle.keyOf = {} /\ Idle.pc = "idle"
  /\ \A g : CallTrue(g, Idle)
  /\ \A e : ~IsLeft(Idle, e)
  /\ \A k : \A m : ~Promises(Idle, k, m)
<1>1. DOMAIN Idle.pool = {} /\ DOMAIN Idle.cache = {} /\ DOMAIN Idle.keyOf = {} /\ Idle.pc = "idle"
  BY DEF Idle
<1> QED
  BY <1>1 DEF CallTrue, IsLeft, Promises

LEMMA CheckCounts ==
  ASSUME EntityInv, CorroborationInv, CountersInv, NEW w \in Writers, NEW ms, NEW many, Check(w, ms, many)
  PROVE  CountersInv'
<1> DEFINE new == NewAmong(ms)
           d == [Idle EXCEPT !.pc = "record", !.many = many, !.ms = Restrict(ms, new),
                             !.agent = AgentOf[ms[1]], !.i = 1]
<1>1. calls' = [calls EXCEPT ![w] = d] /\ UNCHANGED <<graph, fed>>
  BY DEF Check, Go
<1>2. d.pc = "record" /\ d.pool = Idle.pool /\ d.cache = Idle.cache /\ d.keyOf = Idle.keyOf
  BY DEF Idle
<1> HIDE DEF d
<1>3. /\ CallTrue(graph, d) /\ \A e : ~IsLeft(d, e)
      /\ \A k : \A m : ~Promises(d, k, m)
  BY <1>2, NothingHeld DEF CallTrue, IsLeft, Promises
<1> QED
  BY <1>1, <1>3, CountersFacts, QuietWriter

LEMMA LeaveCounts ==
  ASSUME EntityInv, CorroborationInv, CountersInv, NEW w \in Writers, Return(w) \/ Crash(w)
  PROVE  CountersInv'
<1>1. calls' = [calls EXCEPT ![w] = Idle] /\ UNCHANGED <<graph, fed>>
  BY DEF Return, Crash, Go
<1> QED
  BY <1>1, NothingHeld, CountersFacts, QuietWriter

(* Looking up candidates: what the pool says is so.                           *)
LEMMA LooksTrue ==
  ASSUME EntityInv, CorroborationInv, CountersInv, NEW w \in Writers, NEW d,
         calls' = [calls EXCEPT ![w] = d], UNCHANGED <<graph, fed>>,
         calls[w].pc = "look", d.pc \in {"increment", "write"}, d.ms = calls[w].ms,
         d.many = calls[w].many, d.i = calls[w].i, d.keyOf = calls[w].keyOf,
         \A k \in DOMAIN d.pool \cap Keys(graph) : d.pool[k] = graph.rows[k].entity,
         \A k \in DOMAIN d.cache \cap Keys(graph) : d.cache[k] = graph.rows[k].entity
  PROVE  CountersInv'
<1> DEFINE c == calls[w]
<1>1. AtHand(d) = AtHand(c) /\ Later(d) = Later(c)
  BY DEF AtHand, Later
<1>2. /\ \A e \in Entities : IsLeft(d, e) => IsLeft(c, e)
      /\ \A k : \A m : ~Promises(d, k, m)
  BY <1>1 DEF IsLeft, Promises
<1>3. CallTrue(graph, d)
  BY CountersFacts DEF CallTrue
<1> QED
  BY <1>2, <1>3, CountersFacts, QuietWriter

LEMMA LookCounts ==
  ASSUME EntityInv, CorroborationInv, CountersInv, NEW w \in Writers, LookUpIndex(w) \/ Scan(w)
  PROVE  CountersInv'
<1> DEFINE c == calls[w]
           to == IF c.many THEN "increment" ELSE "write"
<1>1. DOMAIN c = DOMAIN Idle /\ to \in {"increment", "write"} /\ WellFormed(graph) /\ CallTrue(graph, c)
  BY CallFacts, CountersFacts
<1> HIDE DEF to
<1>2. CASE LookUpIndex(w)
  <2>1. c.pc = "look" /\ UNCHANGED <<graph, fed>>
    BY <1>2 DEF LookUpIndex
  <2>2. PICK keys \in SUBSET Keys(graph) :
          calls' = [calls EXCEPT ![w] = [c EXCEPT !.pc = to, !.pool = Snapshot(graph, keys), !.before = {}]]
    BY <1>2 DEF LookUpIndex, Go, to
  <2> DEFINE pool == Snapshot(graph, keys)
             d == [c EXCEPT !.pc = to, !.pool = pool, !.before = {}]
  <2>3. /\ d.pc = to /\ d.ms = c.ms /\ d.keyOf = c.keyOf /\ d.many = c.many /\ d.i = c.i
        /\ d.pool = pool /\ d.cache = c.cache
    <3> HIDE DEF pool
    <3> QED
      BY <1>1 DEF Idle
  <2>4. \A k \in DOMAIN pool : pool[k] = graph.rows[k].entity
    BY <1>1, SnapshotOK
  <2> HIDE DEF d, pool
  <2>5. /\ \A k \in DOMAIN d.pool \cap Keys(graph) : d.pool[k] = graph.rows[k].entity
        /\ \A k \in DOMAIN d.cache \cap Keys(graph) : d.cache[k] = graph.rows[k].entity
    BY <1>1, <2>3, <2>4 DEF CallTrue
  <2> QED
    BY <1>1, <2>1, <2>2, <2>3, <2>5, LooksTrue DEF d, pool
<1>3. CASE Scan(w)
  <2>1. c.pc = "look" /\ UNCHANGED <<graph, fed>>
    BY <1>3 DEF Scan
  <2> DEFINE rows == IF c.scanned THEN c.cache ELSE Snapshot(graph, Keys(graph))
             d == [c EXCEPT !.pc = to, !.scanned = TRUE, !.cache = rows, !.pool = rows]
  <2>2. calls' = [calls EXCEPT ![w] = d]
    BY <1>3 DEF Scan, Go, to
  <2>3. /\ d.pc = to /\ d.ms = c.ms /\ d.keyOf = c.keyOf /\ d.many = c.many /\ d.i = c.i
        /\ d.pool = rows /\ d.cache = rows
    <3> HIDE DEF rows
    <3> QED
      BY <1>1 DEF Idle
  <2>4. \A k \in DOMAIN rows \cap Keys(graph) : rows[k] = graph.rows[k].entity
    BY <1>1, SnapshotOK DEF CallTrue
  <2> HIDE DEF d, rows
  <2> QED
    BY <1>1, <2>1, <2>2, <2>3, <2>4, LooksTrue
<1> QED
  BY <1>2, <1>3

LEMMA ProduceCounts ==
  ASSUME EntityInv, CorroborationInv, CountersInv, NEW w \in Writers, AddProducedBy(w)
  PROVE  CountersInv'
<1> DEFINE c == calls[w]
           more == ~c.many /\ c.i < Len(Says[c.ms[1]])
           links == Links(c.ms, AtHand(c), c.keyOf)
           produced == graph.produced \cup {<<l[2], l[1]>> : l \in links}
           todo == IF c.many THEN {} ELSE DOMAIN SaidAlone(c)
           onward == [c EXCEPT !.pc = "look", !.i = @ + 1]
           done == [c EXCEPT !.pc = "relate", !.todo = todo]
           d == IF more THEN onward ELSE done
<1>1. /\ c.pc = "produce" /\ graph' = [graph EXCEPT !.produced = produced]
      /\ calls' = [calls EXCEPT ![w] = d] /\ fed' = fed
  BY DEF AddProducedBy, Go, Produce
<1>2. WellFormed(graph) /\ CallOK(graph, c) /\ DOMAIN c = DOMAIN Idle /\ CallTrue(graph, c)
  BY CallFacts, CountersFacts
<1>3. /\ d.pc = (IF more THEN "look" ELSE "relate") /\ d.i = (IF more THEN c.i + 1 ELSE c.i)
      /\ d.keyOf = c.keyOf /\ d.pool = c.pool /\ d.cache = c.cache /\ d.many = c.many /\ d.ms = c.ms
  <2> HIDE DEF todo, more
  <2> QED
    BY <1>2 DEF Idle
<1> HIDE DEF d, onward, done, links, todo
<1>4. /\ DOMAIN graph' = DOMAIN EmptyGraph /\ graph'.rows = graph.rows
      /\ graph'.next = graph.next /\ graph'.mentions = graph.mentions
  <2> HIDE DEF produced
  <2> QED
    BY <1>1, <1>2, GraphFields DEF WellFormed
<1>5. WellFormed(graph')
  BY <1>2, <1>4 DEF WellFormed, Keys
<1>6. ASSUME NEW e, IsLeft(d, e) PROVE IsLeft(c, e)
  <2>1. CASE more
    <3>1. d.pc = "look" /\ d.i = c.i + 1 /\ ~d.many
      BY <1>3, <2>1
    <3>2. 1 \in DOMAIN c.ms /\ Range(c.ms) \subseteq Memories /\ c.i \in DOMAIN Says[c.ms[1]]
      BY <1>1, <1>2, <2>1 DEF CallOK, Fed
    <3>3. DOMAIN Says[c.ms[1]] = 1..Len(Says[c.ms[1]]) /\ Len(Says[c.ms[1]]) \in Nat
      BY <3>2, SaysEntities
    <3>4. e \in {Says[c.ms[1]][c.i + 1]} \/ e \in Later(d)
      BY <1>3, <1>6, <3>1 DEF IsLeft, AtHand
    <3>5. c.i \in Nat /\ c.i + 1 \in DOMAIN Says[c.ms[1]] /\ c.i + 1 > c.i
      BY <2>1, <3>2, <3>3
    <3>6. e \in Later(c)
      <4>1. CASE e = Says[c.ms[1]][c.i + 1]
        BY <2>1, <3>5, <4>1 DEF Later
      <4>2. CASE e \in Later(d)
        <5>1. PICK j \in DOMAIN Says[c.ms[1]] : j > c.i + 1 /\ e = Says[c.ms[1]][j]
          BY <1>3, <3>1, <4>2 DEF Later
        <5>2. j > c.i
          BY <3>3, <3>5, <5>1
        <5> QED
          BY <2>1, <5>1, <5>2 DEF Later
      <4> QED
        BY <3>4, <4>1, <4>2
    <3> QED
      BY <1>1, <3>6 DEF IsLeft
  <2>2. CASE ~more
    <3>1. d.pc = "relate"
      BY <1>3, <2>2
    <3> QED
      BY <1>6, <3>1 DEF IsLeft
  <2> QED
    BY <2>1, <2>2
<1>7. d.pc \in {"look", "relate"}
  BY <1>3
<1>8. CallTrue(graph, d) /\ \A k : \A m : ~Promises(d, k, m)
  BY <1>2, <1>3, <1>7 DEF CallTrue, Promises
<1> QED
  BY <1>1, <1>3, <1>4, <1>5, <1>6, <1>8, QuietWriter

LEMMA RelateStepCounts ==
  ASSUME EntityInv, CorroborationInv, CountersInv, NEW w \in Writers, NEW said, NEW d,
         calls[w].pc = "relate", graph' = Relate(graph, calls[w].ms, said),
         calls' = [calls EXCEPT ![w] = d], fed' = fed, d.pc \in {"relate", "return"},
         d.keyOf = calls[w].keyOf, d.pool = calls[w].pool, d.cache = calls[w].cache
  PROVE  CountersInv'
<1>1. WellFormed(graph) /\ CallTrue(graph, calls[w])
  BY CountersFacts
<1>2. /\ WellFormed(graph') /\ graph'.rows = graph.rows /\ graph'.next = graph.next
      /\ graph'.mentions = graph.mentions
  BY <1>1, RelateAdds
<1>3. /\ CallTrue(graph, d) /\ \A e : ~IsLeft(d, e)
      /\ \A k : \A m : ~Promises(d, k, m)
  BY <1>1 DEF CallTrue, IsLeft, Promises
<1> QED
  BY <1>2, <1>3, QuietWriter

LEMMA RelateCallCounts ==
  ASSUME EntityInv, CorroborationInv, CountersInv, NEW w \in Writers, RelateOne(w) \/ RelateMany(w)
  PROVE  CountersInv'
<1> DEFINE c == calls[w]
<1>1. DOMAIN c = DOMAIN Idle
  BY CallFacts
<1>2. CASE RelateOne(w)
  <2>1. PICK p \in c.todo : /\ graph' = Relate(graph, c.ms, <<Restrict(SaidAlone(c), {p})>>)
                            /\ Go(w, [c EXCEPT !.todo = @ \ {p}])
    BY <1>2 DEF RelateOne
  <2> DEFINE d == [c EXCEPT !.todo = @ \ {p}]
  <2>2. c.pc = "relate" /\ calls' = [calls EXCEPT ![w] = d] /\ fed' = fed
    BY <1>2, <2>1 DEF RelateOne, Go
  <2>3. d.pc = "relate" /\ d.keyOf = c.keyOf /\ d.pool = c.pool /\ d.cache = c.cache
    BY <1>1, <2>2 DEF Idle
  <2> HIDE DEF d
  <2> QED
    BY <2>1, <2>2, <2>3, RelateStepCounts
<1>3. CASE RelateMany(w)
  <2> DEFINE d == [c EXCEPT !.pc = "return"]
  <2>1. /\ c.pc = "relate" /\ calls' = [calls EXCEPT ![w] = d] /\ fed' = fed
        /\ \E said : graph' = Relate(graph, c.ms, said)
    BY <1>3 DEF RelateMany, RelateBatch, Go
  <2>2. d.pc = "return" /\ d.keyOf = c.keyOf /\ d.pool = c.pool /\ d.cache = c.cache
    BY <1>1 DEF Idle
  <2> HIDE DEF d
  <2> QED
    BY <2>1, <2>2, RelateStepCounts
<1> QED
  BY <1>2, <1>3

-----------------------------------------------------------------------------
(* Seeds and purges.                                                         *)
LEMMA SeedCounts ==
  ASSUME EntityInv, CorroborationInv, CountersInv, NEW s \in Seeds, Seed(s[1], s[2])
  PROVE  CountersInv'
<1> DEFINE e == s[1]
<1>1. graph' = SeedUpsert(graph, e, s[2]) /\ UNCHANGED <<calls, fed>> /\ e \in Entities
  BY MemoriesAssumption DEF Seed
<1>2. WellFormed(graph)
  BY CountersFacts
<1>3. Grows(graph, graph') /\ SameEdges(graph, graph')
  BY <1>1, <1>2, SeedKeeps DEF Grows
<1>4. \A v \in Writers : CallTrue(graph', calls'[v])
  BY <1>1, <1>2, <1>3, CountersFacts, CallTrueGrows
<1>5. MentionsOld(graph')
  <2>1. graph.next \in Nat /\ graph'.next \in Nat /\ graph.next <= graph'.next
    BY <1>2, <1>3 DEF WellFormed, Grows
  <2> QED
    BY <1>3, <2>1, CountersFacts DEF MentionsOld, SameEdges
<1>6. /\ \A k \in Keys(graph) : graph'.rows[k] = graph.rows[k]
      /\ \A k \in Keys(graph') \ Keys(graph) :
           graph'.rows[k].entity = e /\ graph'.rows[k].mentions = 1 /\ graph'.rows[k].evidence = 0
  <2>1. CASE KeyNamed(graph, e) # {}
    BY <1>1, <2>1 DEF SeedUpsert
  <2>2. CASE KeyNamed(graph, e) = {}
    <3> DEFINE rows == [k \in Keys(graph) \cup {graph.next} |->
                          IF k \in Keys(graph) THEN graph.rows[k] ELSE EntityDoc(e, s[2], 1, 0, NoKey)]
               next == graph.next + 1
    <3>1. graph' = [graph EXCEPT !.next = next, !.rows = rows]
      BY <1>1, <2>2 DEF SeedUpsert
    <3>2. /\ \A k \in Keys(graph) : rows[k] = graph.rows[k]
          /\ \A k \in DOMAIN rows \ Keys(graph) :
               rows[k].entity = e /\ rows[k].mentions = 1 /\ rows[k].evidence = 0
      BY DEF EntityDoc
    <3> HIDE DEF rows, next
    <3>3. graph'.rows = rows
      BY <1>2, <3>1 DEF WellFormed, EmptyGraph
    <3> QED
      BY <3>2, <3>3 DEF Keys
  <2> QED
    BY <2>1, <2>2
<1>7. \A k \in Keys(graph') \ Keys(graph) : Mentioners(graph, k) = {} /\ Promised(calls, k) = {}
  <2> SUFFICES ASSUME NEW k \in Keys(graph') \ Keys(graph)
               PROVE  Mentioners(graph, k) = {} /\ Promised(calls, k) = {}
    OBVIOUS
  <2>1. k \in Nat /\ k >= graph.next /\ graph.next \in Nat
    BY <1>2, <1>3 DEF Grows, WellFormed
  <2>2. k \notin 1..(graph.next - 1)
    BY <2>1
  <2> QED
    BY <2>1, <2>2, CountersFacts DEF Mentioners, MentionsOld
<1>8. Quiet(graph, graph', calls, calls')
  BY <1>1, <1>3, <1>6, <1>7 DEF Quiet, SameEdges
<1>9. RowsCounted(graph') /\ WithinFed(graph', calls', fed') /\ MentionsCounted(graph', calls')
  BY <1>1, <1>2, <1>8, CountersFacts, QuietCounts
<1> QED
  BY <1>4, <1>5, <1>9 DEF CountersInv

LEMMA ShrinkCounts ==
  ASSUME EntityInv, CorroborationInv, CountersInv, UNCHANGED <<calls, fed>>,
         graph'.next = graph.next, Keys(graph') \subseteq Keys(graph),
         \A k \in Keys(graph') : graph'.rows[k] = graph.rows[k],
         graph'.mentions \subseteq graph.mentions
  PROVE  CountersInv'
<1>1. \A v \in Writers : CallTrue(graph', calls'[v])
  BY CountersFacts DEF CallTrue
<1>2. MentionsOld(graph')
  BY CountersFacts DEF MentionsOld
<1>3. Quiet(graph, graph', calls, calls')
  BY DEF Quiet
<1>4. RowsCounted(graph') /\ WithinFed(graph', calls', fed') /\ MentionsCounted(graph', calls')
  BY <1>3, CountersFacts, QuietCounts
<1> QED
  BY <1>1, <1>2, <1>4 DEF CountersInv

LEMMA PurgeCounts ==
  ASSUME EntityInv, CorroborationInv, CountersInv,
         (\E scope \in PurgeScopes : PurgeStart(scope)) \/ PurgeCrash \/ PurgeStep
  PROVE  CountersInv'
<1>1. WellFormed(graph)
  BY CountersFacts
<1>2. UNCHANGED <<calls, fed>>
  BY DEF PurgeStart, PurgeCrash, PurgeStep
<1>3. \/ graph' = graph
      \/ \E x : graph' = [graph EXCEPT !.produced = x] \/ graph' = [graph EXCEPT !.relates = x]
      \/ \E x \in SUBSET graph.mentions : graph' = [graph EXCEPT !.mentions = x]
      \/ \E kept \in SUBSET Keys(graph) :
           graph' = [graph EXCEPT !.rows = [k \in kept |-> graph.rows[k]]]
  <2>1. CASE (\E scope \in PurgeScopes : PurgeStart(scope)) \/ PurgeCrash
    BY <2>1 DEF PurgeStart, PurgeCrash
  <2>2. CASE PurgeStep
    <3> DEFINE what == PurgePlan[purge.step]
    <3>1. CASE Collect(what)
      BY <3>1 DEF Collect
    <3>2. CASE RemoveEdges(what) /\ what \in {"mentions", "relates_to", "produced_by"}
      <4>1. CASE what = "mentions"
        BY <3>2, <4>1 DEF RemoveEdges
      <4>2. CASE what = "produced_by"
        BY <3>2, <4>2 DEF RemoveEdges
      <4>3. CASE what = "relates_to"
        BY <3>2, <4>3 DEF RemoveEdges
      <4> QED
        BY <3>2, <4>1, <4>2, <4>3
    <3>3. CASE RemoveDocuments(what)
      BY <3>3 DEF RemoveDocuments
    <3> QED
      BY <2>2, <3>1, <3>2, <3>3 DEF PurgeStep
  <2> QED
    BY <2>1, <2>2
<1>4. CASE graph' = graph
  BY <1>2, <1>4, ShrinkCounts
<1>5. ASSUME NEW x, graph' = [graph EXCEPT !.produced = x] \/ graph' = [graph EXCEPT !.relates = x]
      PROVE  CountersInv'
  <2>1. graph'.next = graph.next /\ graph'.rows = graph.rows /\ graph'.mentions = graph.mentions
    <3>1. CASE graph' = [graph EXCEPT !.produced = x]
      BY <1>1, <3>1, GraphFields DEF WellFormed
    <3>2. CASE graph' = [graph EXCEPT !.relates = x]
      BY <1>1, <3>2, GraphFields DEF WellFormed
    <3> QED
      BY <1>5, <3>1, <3>2
  <2> QED
    BY <1>2, <2>1, ShrinkCounts DEF Keys
<1>6. ASSUME NEW x \in SUBSET graph.mentions, graph' = [graph EXCEPT !.mentions = x]
      PROVE  CountersInv'
  <2>1. graph'.next = graph.next /\ graph'.rows = graph.rows /\ graph'.mentions = x
    BY <1>1, <1>6, GraphFields DEF WellFormed
  <2> QED
    BY <1>2, <2>1, ShrinkCounts DEF Keys
<1>7. ASSUME NEW kept \in SUBSET Keys(graph),
             graph' = [graph EXCEPT !.rows = [k \in kept |-> graph.rows[k]]]
      PROVE  CountersInv'
  <2> DEFINE rows == [k \in kept |-> graph.rows[k]]
  <2>1. DOMAIN rows \subseteq Keys(graph) /\ \A k \in DOMAIN rows : rows[k] = graph.rows[k]
    OBVIOUS
  <2>2. graph' = [graph EXCEPT !.rows = rows]
    BY <1>7
  <2> HIDE DEF rows
  <2>3. graph'.next = graph.next /\ graph'.rows = rows /\ graph'.mentions = graph.mentions
    BY <1>1, <2>2, GraphFields DEF WellFormed
  <2> QED
    BY <1>2, <2>1, <2>3, ShrinkCounts DEF Keys
<1> QED
  BY <1>3, <1>4, <1>5, <1>6, <1>7

-----------------------------------------------------------------------------
(* Drawing the mentions a call has promised.                                  *)
Exchanged(A, B, C, D, L, P, phi) ==
  /\ Tuples(A) /\ Tuples(B) /\ Tuples(C) /\ Tuples(D) /\ Tuples(L) /\ Tuples(P)
  /\ A \subseteq B \cup L /\ C \cup P \subseteq D /\ C \cap P = {}
  /\ \A t \in L : phi[t] \in P /\ phi[t][2] = t[2]
  /\ \A t, u \in L : phi[t] = phi[u] => t = u

LEMMA PromisesKept ==
  ASSUME NEW weight \in [Memories -> Nat], NEW A, NEW B, NEW C, NEW D, NEW L, NEW P, NEW phi,
         Exchanged(A, B, C, D, L, P, phi)
  PROVE  ByMemory(weight, A) + ByMemory(weight, C) <= ByMemory(weight, B) + ByMemory(weight, D)
<1>0. /\ Tuples(A) /\ Tuples(B) /\ Tuples(C) /\ Tuples(D) /\ Tuples(L) /\ Tuples(P)
      /\ A \subseteq B \cup L /\ C \cup P \subseteq D /\ C \cap P = {}
      /\ \A t \in L : phi[t] \in P /\ phi[t][2] = t[2]
      /\ \A t, u \in L : phi[t] = phi[u] => t = u
  BY DEF Exchanged
<1>1. Tuples(B \cup L) /\ ByMemory(weight, B \cup L) <= ByMemory(weight, B) + ByMemory(weight, L)
  BY <1>0, ByMemoryUnites
<1>2. ByMemory(weight, A) <= ByMemory(weight, B \cup L)
  BY <1>0, <1>1, ByMemoryWithin
<1>3. ByMemory(weight, L) <= ByMemory(weight, P)
  BY <1>0, ByMemoryFits
<1>4. Tuples(C \cup P) /\ ByMemory(weight, C \cup P) = ByMemory(weight, C) + ByMemory(weight, P)
  BY <1>0, ByMemoryJoins
<1>5. ByMemory(weight, C \cup P) <= ByMemory(weight, D)
  BY <1>0, <1>4, ByMemoryWithin
<1> PICK a, b, c, d, l, p, x, y \in Nat :
      /\ a = ByMemory(weight, A) /\ b = ByMemory(weight, B) /\ c = ByMemory(weight, C)
      /\ d = ByMemory(weight, D) /\ l = ByMemory(weight, L) /\ p = ByMemory(weight, P)
      /\ x = ByMemory(weight, B \cup L) /\ y = ByMemory(weight, C \cup P)
  BY <1>0, <1>1, <1>4, ByMemoryIsNat
<1>6. a + c <= b + d
  <2>1. x <= b + l /\ a <= x /\ l <= p /\ y = c + p /\ y <= d
    BY <1>1, <1>2, <1>3, <1>4, <1>5
  <2> QED
    BY <2>1
<1> QED
  BY <1>6

LEMMA MentionCounts ==
  ASSUME EntityInv, CorroborationInv, CountersInv, NEW w \in Writers, AddMentions(w)
  PROVE  CountersInv'
<1> DEFINE c == calls[w]
           links == Links(c.ms, AtHand(c), c.keyOf)
           d == [c EXCEPT !.pc = "produce"]
<1>1. /\ c.pc = "mention" /\ graph' = [graph EXCEPT !.mentions = graph.mentions \cup links]
      /\ calls' = [calls EXCEPT ![w] = d] /\ fed' = fed
  BY DEF AddMentions, Go, Mention
<1>2. /\ WellFormed(graph) /\ DOMAIN calls = Writers /\ DOMAIN c = DOMAIN Idle /\ CallTrue(graph, c)
      /\ \A i \in DOMAIN c.ms : c.ms[i] \in Memories
  BY CallFacts, CallFinite, CountersFacts
<1>3. /\ d.pc = "produce" /\ d.keyOf = c.keyOf /\ d.ms = c.ms /\ d.many = c.many /\ d.i = c.i
      /\ d.pool = c.pool /\ d.cache = c.cache /\ AtHand(d) = AtHand(c) /\ Later(d) = Later(c)
  BY <1>2 DEF Idle, AtHand, Later
<1> HIDE DEF d, links
<1>4. /\ DOMAIN graph' = DOMAIN EmptyGraph /\ graph'.rows = graph.rows
      /\ graph'.next = graph.next /\ graph'.mentions = graph.mentions \cup links
  BY <1>1, <1>2, GraphFields DEF WellFormed
<1>5. WellFormed(graph') /\ Keys(graph') = Keys(graph)
  BY <1>2, <1>4 DEF WellFormed, Keys
<1>6. Grows(graph, graph')
  BY <1>2, <1>4, <1>5, SameRowsGrow
<1>7. CallTrue(graph', d)
  BY <1>1, <1>2, <1>3, <1>4, <1>5 DEF CallTrue
<1>8. \A v \in Writers : CallTrue(graph', calls'[v])
  BY <1>1, <1>6, <1>7, CallsStayTrue
<1>9. MentionsOld(graph')
  <2>1. ASSUME NEW l \in links PROVE l[2] \in 1..(graph.next - 1)
    <3>1. PICK e \in AtHand(c) : l[2] = c.keyOf[e]
      BY LinksEnd DEF links
    <3> QED
      BY <1>1, <1>2, <3>1 DEF CallTrue
  <2> QED
    BY <1>4, <2>1, CountersFacts DEF MentionsOld
<1>10. /\ \A f \in Entities : ToCount(calls', f) \subseteq ToCount(calls, f)
       /\ \A k : Promised(calls', k) \subseteq Promised(calls, k)
  <2>1. /\ \A e \in Entities : IsLeft(d, e) => IsLeft(c, e) /\ Range(d.ms) \subseteq Range(c.ms)
        /\ \A k : \A m : ~Promises(d, k, m)
    BY <1>1, <1>3 DEF IsLeft, Promises
  <2> QED
    BY <1>1, <1>2, <2>1, QuietCall
<1>11. RowsCounted(graph')
  BY <1>4, <1>5, CountersFacts DEF RowsCounted
<1>12. WithinFed(graph', calls', fed')
  <2>1. Quiet(graph, graph, calls, calls')
    BY <1>10 DEF Quiet
  <2>2. WithinFed(graph, calls', fed)
    BY <1>2, <2>1, CountersFacts, QuietCounts
  <2> QED
    BY <1>1, <1>4, <1>5, <2>2 DEF WithinFed
<1>13. MentionsCounted(graph', calls')
  <2> SUFFICES ASSUME NEW k \in Keys(graph)
               PROVE  /\ ByMemory(Ones, Mentionings(graph', k)) + ByMemory(Ones, Promised(calls', k))
                           <= graph.rows[k].mentions
                      /\ ByMemory(Reliability, Mentionings(graph', k))
                           + ByMemory(Reliability, Promised(calls', k)) <= graph.rows[k].evidence
    BY <1>4, <1>5 DEF MentionsCounted
  <2> DEFINE S == {m \in Memories : Promises(c, k, m)}
             L == {k} \X S
             P == {p \in Promised(calls, k) : p[1] = w}
             phi == [t \in L |-> <<w, t[2]>>]
  <2>1. Mentionings(graph', k) \subseteq Mentionings(graph, k) \cup L
    <3>1. ASSUME NEW m \in Memories, <<m, k>> \in links PROVE Promises(c, k, m)
      <4>1. PICK q \in (DOMAIN c.ms) \X AtHand(c) :
                   q[2] \in Range(Says[c.ms[q[1]]]) /\ <<m, k>> = <<c.ms[q[1]], c.keyOf[q[2]]>>
        BY <3>1 DEF links, Links
      <4>2. q[1] \in DOMAIN c.ms /\ q[2] \in AtHand(c) /\ m = c.ms[q[1]] /\ k = c.keyOf[q[2]]
        BY <4>1
      <4> QED
        BY <1>1, <4>1, <4>2 DEF Promises
    <3> QED
      BY <1>4, <3>1 DEF Mentionings, Mentioners
  <2>2. Tuples(L)
    <3>1. IsFiniteSet(S) /\ IsFiniteSet({k})
      BY MemoriesAssumption, FS_Subset, FS_Singleton
    <3> HIDE DEF S
    <3>2. IsFiniteSet(L)
      BY <3>1, FS_Product
    <3> QED
      BY <3>2 DEF Tuples, S
  <2>3. Tuples(Promised(calls, k)) /\ Tuples(Promised(calls', k))
    BY TalliesFinite
  <2>4. Tuples(P)
    BY <2>3, FS_Subset DEF Tuples
  <2>5. Tuples(Mentionings(graph, k)) /\ Tuples(Mentionings(graph', k))
    BY MentioningsFinite
  <2>6. Promised(calls', k) \cap P = {}
    <3>1. \A m : ~Promises(calls'[w], k, m)
      BY <1>1, <1>2, <1>3 DEF Promises
    <3> QED
      BY <3>1 DEF Promised
  <2>7. \A t \in L : phi[t] \in P /\ phi[t][2] = t[2]
    <3> SUFFICES ASSUME NEW m \in Memories, Promises(c, k, m) PROVE <<w, m>> \in Promised(calls, k)
      OBVIOUS
    <3> QED
      BY DEF Promised
  <2>8. \A t, u \in L : phi[t] = phi[u] => t = u
    OBVIOUS
  <2> HIDE DEF L, P, phi, S
  <2>9. ASSUME NEW weight \in [Memories -> Nat]
        PROVE  ByMemory(weight, Mentionings(graph', k)) + ByMemory(weight, Promised(calls', k))
                 <= ByMemory(weight, Mentionings(graph, k)) + ByMemory(weight, Promised(calls, k))
    <3>1. Promised(calls', k) \cup P \subseteq Promised(calls, k)
      BY <1>10 DEF P
    <3>2. Exchanged(Mentionings(graph', k), Mentionings(graph, k), Promised(calls', k), Promised(calls, k),
                    L, P, phi)
      BY <2>1, <2>2, <2>3, <2>4, <2>5, <2>6, <2>7, <2>8, <3>1 DEF Exchanged
    <3> QED
      BY <3>2, PromisesKept
  <2>10. Ones \in [Memories -> Nat] /\ Reliability \in [Memories -> Nat]
    BY MemoriesAssumption DEF Ones
  <2>11. graph.rows[k].mentions \in Nat /\ graph.rows[k].evidence \in Nat
    BY CountersFacts DEF RowsCounted
  <2>12. ASSUME NEW weight \in [Memories -> Nat], NEW n \in Nat,
                ByMemory(weight, Mentionings(graph, k)) + ByMemory(weight, Promised(calls, k)) <= n
         PROVE  ByMemory(weight, Mentionings(graph', k)) + ByMemory(weight, Promised(calls', k)) <= n
    <3> PICK x, y, z, u \in Nat :
          /\ x = ByMemory(weight, Mentionings(graph', k)) /\ y = ByMemory(weight, Promised(calls', k))
          /\ z = ByMemory(weight, Mentionings(graph, k)) /\ u = ByMemory(weight, Promised(calls, k))
      BY <2>3, <2>5, ByMemoryIsNat
    <3>1. x + y <= z + u /\ z + u <= n
      BY <2>9, <2>12
    <3>2. x + y <= n
      BY <3>1
    <3> QED
      BY <3>2
  <2> QED
    BY <2>10, <2>11, <2>12, CountersFacts DEF MentionsCounted
<1> QED
  BY <1>8, <1>9, <1>11, <1>12, <1>13 DEF CountersInv

-----------------------------------------------------------------------------
(* Recording: what a call will count is fed at once.                          *)
FedFirst(times, later, cs, ds, w) ==
  /\ times \in [Memories -> Nat] /\ later \in [Memories -> Nat]
  /\ \A m \in Memories : times[m] <= later[m]
  /\ \A m \in Range(ds[w].ms) : m \in Memories /\ times[m] + 1 <= later[m]
  /\ \A v \in Writers : v # w => ds[v] = cs[v]

LEMMA FedForIt ==
  ASSUME NEW times, NEW later, NEW cs, NEW ds, NEW w \in Writers,
         FedFirst(times, later, cs, ds, w), NEW f \in Entities
  PROVE  ByMemory(Reliability, ToCount(ds, f)) + ByMemory(Reliability, Fedings(times, f))
           <= ByMemory(Reliability, ToCount(cs, f)) + ByMemory(Reliability, Fedings(later, f))
<1> USE DEF FedFirst
<1> DEFINE N == {t \in ToCount(ds, f) : t[1] = w}
           F == Fedings(times, f)
           G == Fedings(later, f)
           phi == [t \in N |-> <<times[t[2]] + 1, t[2], t[3]>>]
<1>1. Tuples(ToCount(ds, f)) /\ Tuples(ToCount(cs, f)) /\ Tuples(F) /\ Tuples(G)
  BY TalliesFinite, FedingsFinite
<1>2. Tuples(N) /\ Tuples(G \ F)
  BY <1>1, FS_Subset DEF Tuples
<1>3. F \subseteq G
  <2>1. \A m \in Memories : times[m] \in Nat /\ later[m] \in Nat /\ 1..times[m] \subseteq 1..later[m]
    OBVIOUS
  <2> QED
    BY <2>1 DEF Fedings
<1>4. ToCount(ds, f) \subseteq ToCount(cs, f) \cup N
  BY DEF ToCount
<1>5. \A t \in N : phi[t] \in G \ F /\ phi[t][2] = t[2]
  <2> SUFFICES ASSUME NEW t \in N PROVE phi[t] \in G \ F /\ phi[t][2] = t[2]
    OBVIOUS
  <2> PICK m, e : m = t[2] /\ e = t[3]
    OBVIOUS
  <2>1. m \in Range(ds[w].ms) /\ m \in Memories /\ e \in Heard(m, f)
    BY DEF ToCount
  <2>2. times[m] \in Nat /\ later[m] \in Nat /\ times[m] + 1 \in 1..later[m] /\ times[m] + 1 \notin 1..times[m]
    BY <2>1
  <2> PICK n : n = times[m] + 1
    OBVIOUS
  <2>3. phi[t] = <<n, m, e>>
    OBVIOUS
  <2>4. <<n, m, e>> \in G
    <3>1. <<n, m, e>> \in (1..later[m]) \X {m} \X Heard(m, f)
      BY <2>1, <2>2
    <3> QED
      BY <2>1, <3>1 DEF Fedings
  <2>5. <<n, m, e>> \notin F
    <3> SUFFICES ASSUME <<n, m, e>> \in F PROVE FALSE
      OBVIOUS
    <3>1. PICK o \in Memories : <<n, m, e>> \in (1..times[o]) \X {o} \X Heard(o, f)
      BY DEF Fedings
    <3>2. o = m /\ n \in 1..times[m]
      BY <3>1
    <3> QED
      BY <2>2, <3>2
  <2> HIDE DEF phi, G, F
  <2> QED
    BY <2>3, <2>4, <2>5
<1>6. \A t, u \in N : phi[t] = phi[u] => t = u
  <2> SUFFICES ASSUME NEW t \in N, NEW u \in N, phi[t] = phi[u] PROVE t = u
    OBVIOUS
  <2>1. t[1] = u[1] /\ t[2] = u[2] /\ t[3] = u[3]
    OBVIOUS
  <2>2. t \in Writers \X Memories \X Entities /\ u \in Writers \X Memories \X Entities
    BY DEF ToCount
  <2> QED
    BY <2>1, <2>2
<1>7. Reliability \in [Memories -> Nat]
  BY MemoriesAssumption
<1> HIDE DEF N, F, G, phi, FedFirst
<1>8. Exchanged(ToCount(ds, f), ToCount(cs, f), F, G, N, G \ F, phi)
  <2>1. F \cup (G \ F) \subseteq G /\ F \cap (G \ F) = {}
    BY <1>3
  <2> QED
    BY <1>1, <1>2, <1>4, <1>5, <1>6, <2>1 DEF Exchanged
<1> QED
  BY <1>7, <1>8, PromisesKept DEF F, G

LEMMA RecordCounts ==
  ASSUME EntityInv, CorroborationInv, CountersInv, NEW w \in Writers, Record(w)
  PROVE  CountersInv'
<1> DEFINE c == calls[w]
<1>1. PICK extracted \in SUBSET DOMAIN c.ms, warm \in BOOLEAN :
        LET ms == Restrict(c.ms, extracted)
        IN Go(w, [c EXCEPT !.pc = IF EntitiesOf(ms) = {} THEN "return" ELSE "look", !.ms = ms,
                           !.ann = warm /\ Cardinality(Keys(graph)) > ScanMax,
                           !.before = Keys(graph)])
  BY DEF Record
<1> DEFINE ms == Restrict(c.ms, extracted)
           d == [c EXCEPT !.pc = IF EntitiesOf(ms) = {} THEN "return" ELSE "look", !.ms = ms,
                          !.ann = warm /\ Cardinality(Keys(graph)) > ScanMax,
                          !.before = Keys(graph)]
           rest == [calls EXCEPT ![w] = Idle]
<1>2. /\ c.pc = "record" /\ calls' = [calls EXCEPT ![w] = d] /\ graph' = graph
      /\ fed' = [m \in Memories |-> fed[m] + IF m \in Range(c.ms) THEN 1 ELSE 0]
  BY <1>1 DEF Record, Go
<1>3. DOMAIN c = DOMAIN Idle /\ DOMAIN calls = Writers /\ CallTrue(graph, c) /\ WellFormed(graph)
      /\ fed \in [Memories -> Nat] /\ Range(c.ms) \subseteq Memories
  BY CallFacts, CountersFacts DEF CallOK
<1>4. /\ d.pc = (IF EntitiesOf(ms) = {} THEN "return" ELSE "look") /\ d.ms = ms
      /\ d.keyOf = c.keyOf /\ d.pool = c.pool /\ d.cache = c.cache
  BY <1>3 DEF Idle
<1>5. Range(ms) \subseteq Range(c.ms)
  BY DEF Restrict, Range
<1>6. d.pc \in {"return", "look"}
  BY <1>4
<1> HIDE DEF d, ms
<1>7. calls'[w] = d /\ DOMAIN calls' = Writers /\ \A v \in Writers : v # w => calls'[v] = calls[v]
  BY <1>2, <1>3
<1>8. CallTrue(graph, d) /\ \A k : \A m : ~Promises(d, k, m)
  BY <1>3, <1>4, <1>6 DEF CallTrue, Promises
<1>9. \A v \in Writers : CallTrue(graph', calls'[v])
  BY <1>2, <1>7, <1>8, CountersFacts
<1>10. /\ fed' \in [Memories -> Nat]
       /\ \A m \in Memories : fed[m] <= fed'[m] /\ (m \in Range(c.ms) => fed[m] + 1 <= fed'[m])
  BY <1>2, <1>3
<1>11. WithinFed(graph', calls', fed')
  <2>1. ASSUME NEW f \in Entities, NEW n \in Nat,
               n + ByMemory(Reliability, ToCount(calls, f)) <= ByMemory(Reliability, Fedings(fed, f))
        PROVE  n + ByMemory(Reliability, ToCount(calls', f)) <= ByMemory(Reliability, Fedings(fed', f))
    <3>1. ByMemory(Reliability, ToCount(calls', f)) + ByMemory(Reliability, Fedings(fed, f))
           <= ByMemory(Reliability, ToCount(calls, f)) + ByMemory(Reliability, Fedings(fed', f))
      <4>1. FedFirst(fed, fed', calls, calls', w)
        BY <1>3, <1>4, <1>5, <1>7, <1>10 DEF FedFirst
      <4> QED
        BY <4>1, FedForIt
    <3> PICK x, y, z, u \in Nat :
          /\ x = ByMemory(Reliability, ToCount(calls', f)) /\ y = ByMemory(Reliability, Fedings(fed, f))
          /\ z = ByMemory(Reliability, ToCount(calls, f)) /\ u = ByMemory(Reliability, Fedings(fed', f))
      BY <1>3, <1>10, TalliesFinite, FedingsFinite, ByMemoryIsNat, MemoriesAssumption
    <3>2. n + z <= y /\ x + y <= z + u
      BY <2>1, <3>1
    <3>3. n + x <= u
      BY <3>2
    <3> QED
      BY <3>3
  <2>2. ASSUME NEW f \in Entities
        PROVE  ByMemory(Reliability, ToCount(calls', f)) <= ByMemory(Reliability, Fedings(fed', f))
    <3> PICK x, z \in Nat : /\ x = ByMemory(Reliability, ToCount(calls', f))
                            /\ z = ByMemory(Reliability, ToCount(calls, f))
      BY TalliesFinite, ByMemoryIsNat, MemoriesAssumption
    <3>1. 0 + z <= ByMemory(Reliability, Fedings(fed, f))
      BY CountersFacts DEF WithinFed
    <3>2. 0 + x <= ByMemory(Reliability, Fedings(fed', f))
      BY <2>1, <3>1
    <3>3. 0 + x = x
      OBVIOUS
    <3> QED
      BY <3>2, <3>3
  <2>3. \A k \in Keys(graph) : graph.rows[k].entity \in Entities /\ graph.rows[k].evidence \in Nat
    BY <1>3, CountersFacts DEF WellFormed, RowsCounted
  <2> QED
    BY <1>2, <2>1, <2>2, <2>3, CountersFacts DEF WithinFed
<1>12. MentionsCounted(graph', calls')
  <2>1. /\ \A f \in Entities : ToCount(rest, f) \subseteq ToCount(calls, f)
        /\ \A k : Promised(rest, k) \subseteq Promised(calls, k)
    BY <1>3, NothingHeld, QuietCall
  <2>2. \A k : Promised(calls', k) = Promised(rest, k)
    <3>1. rest[w] = Idle /\ \A v \in Writers : v # w => rest[v] = calls[v]
      BY <1>3
    <3> HIDE DEF rest
    <3> QED
      BY <1>7, <1>8, <3>1, NothingHeld DEF Promised
  <2> HIDE DEF rest
  <2>3. Quiet(graph, graph, calls, rest)
    BY <2>1 DEF Quiet
  <2>4. MentionsCounted(graph, rest)
    BY <2>3, CountersFacts, QuietCounts
  <2> QED
    BY <1>2, <2>2, <2>4 DEF MentionsCounted
<1>13. RowsCounted(graph') /\ MentionsOld(graph')
  BY <1>2, CountersFacts
<1> QED
  BY <1>9, <1>11, <1>12, <1>13 DEF CountersInv

-----------------------------------------------------------------------------
(* The sums that Matched speaks of.                                          *)
LEMMA SumOfMentioners ==
  ASSUME NEW weight \in [Memories -> Nat], NEW g, NEW k
  PROVE  ByMemory(weight, Mentionings(g, k)) = SumFunctionOnSet(weight, Mentioners(g, k))
<1> DEFINE S == Mentioners(g, k)
           T == Mentionings(g, k)
           f == [t \in T |-> weight[t[2]]]
           from == [t \in T |-> t[2]]
           to == [m \in S |-> <<k, m>>]
<1>1. S \in SUBSET Memories /\ IsFiniteSet(S)
  BY MemoriesAssumption, FS_Subset DEF Mentioners
<1>2. AllNat(weight, S) /\ AllNat(f, T)
  BY <1>1, MentioningsFinite, ByMemoryIsNat DEF AllNat
<1>3. \A t \in T : t[1] = k /\ t[2] \in S /\ t = <<t[1], t[2]>>
  BY DEF Mentionings
<1>4. \A m \in S : <<k, m>> \in T
  BY DEF Mentionings
<1>5. SumFunctionOnSet(f, T) <= SumFunctionOnSet(weight, S)
  <2>1. /\ \A t \in T : from[t] \in S /\ f[t] <= weight[from[t]]
        /\ \A t, u \in T : from[t] = from[u] => t = u
    BY <1>1, <1>3
  <2> HIDE DEF f, from, S, T
  <2> QED
    BY <1>2, <2>1, SumInjects
<1>6. SumFunctionOnSet(weight, S) <= SumFunctionOnSet(f, T)
  <2>1. /\ \A m \in S : to[m] \in T /\ weight[m] <= f[to[m]]
        /\ \A m, n \in S : to[m] = to[n] => m = n
    BY <1>1, <1>4
  <2> HIDE DEF f, to, S, T
  <2> QED
    BY <1>2, <2>1, SumInjects
<1> HIDE DEF f, S, T
<1>7. SumFunctionOnSet(f, T) \in Nat /\ SumFunctionOnSet(weight, S) \in Nat
  BY <1>2, SumIsNat
<1> QED
  BY <1>5, <1>6, <1>7 DEF ByMemory, f, S, T

LEMMA TriplesCount ==
  ASSUME NEW n \in Nat, NEW m, NEW H, IsFiniteSet(H)
  PROVE  /\ IsFiniteSet((1..n) \X {m} \X H)
         /\ Cardinality((1..n) \X {m} \X H) = n * Cardinality(H)
<1> DEFINE S == (1..n) \X H
           T == (1..n) \X {m} \X H
           f == [p \in S |-> <<p[1], m, p[2]>>]
<1>1. IsFiniteSet(1..n) /\ Cardinality(1..n) = n
  BY FS_Interval
<1>2. IsFiniteSet(S) /\ Cardinality(S) = n * Cardinality(H)
  BY <1>1, FS_Product
<1>3. f \in Bijection(S, T)
  <2>1. \A p \in S : f[p] \in T
    OBVIOUS
  <2>2. ASSUME NEW p \in S, NEW q \in S, f[p] = f[q] PROVE p = q
    <3>1. p[1] = q[1] /\ p[2] = q[2]
      BY <2>2
    <3>2. p = <<p[1], p[2]>> /\ q = <<q[1], q[2]>>
      OBVIOUS
    <3> QED
      BY <3>1, <3>2
  <2>3. ASSUME NEW t \in T PROVE \E p \in S : f[p] = t
    <3>1. t = <<t[1], m, t[3]>> /\ <<t[1], t[3]>> \in S
      OBVIOUS
    <3>2. f[<<t[1], t[3]>>] = <<t[1], m, t[3]>>
      BY <3>1
    <3> QED
      BY <3>1, <3>2
  <2>4. f \in [S -> T]
    BY <2>1
  <2> HIDE DEF f, S, T
  <2> QED
    BY <2>2, <2>3, <2>4 DEF Bijection, Injection, Surjection, IsInjective
<1>4. ExistsBijection(S, T)
  <2> HIDE DEF f, S, T
  <2> QED
    BY <1>3 DEF ExistsBijection
<1> HIDE DEF f, S, T
<1>5. IsFiniteSet(T) /\ Cardinality(T) = Cardinality(S)
  BY <1>2, <1>4, FS_Bijection
<1> QED
  BY <1>2, <1>5 DEF T

LEMMA SumOfFedings ==
  ASSUME NEW times \in [Memories -> Nat], NEW f
  PROVE  ByMemory(Reliability, Fedings(times, f))
           = SumFunctionOnSet([m \in Memories |-> Reliability[m] * MayCount(times, m, f)], Memories)
<1> DEFINE P == [m \in Memories |-> (1..times[m]) \X {m} \X Heard(m, f)]
           F == Fedings(times, f)
           x == [t \in F |-> Reliability[t[2]]]
           sums == [m \in Memories |-> Reliability[m] * MayCount(times, m, f)]
<1>1. ASSUME NEW m \in Memories
      PROVE  AllNat(x, P[m]) /\ sums[m] = SumFunctionOnSet(x, P[m])
  <2>1. times[m] \in Nat /\ Reliability[m] \in Nat /\ IsFiniteSet(Heard(m, f))
    BY MemoriesAssumption, HeardFinite
  <2>2. IsFiniteSet(P[m]) /\ Cardinality(P[m]) = times[m] * Cardinality(Heard(m, f))
    BY <2>1, TriplesCount
  <2>3. \A t \in P[m] : x[t] = Reliability[m]
    BY DEF Fedings
  <2>4. sums[m] = Reliability[m] * (times[m] * Cardinality(Heard(m, f)))
    BY DEF MayCount, Heard
  <2> HIDE DEF x, P, sums
  <2>5. AllNat(x, P[m]) /\ SumFunctionOnSet(x, P[m]) = Reliability[m] * Cardinality(P[m])
    BY <2>1, <2>2, <2>3, SumOfSame
  <2> QED
    BY <2>2, <2>4, <2>5
<1>2. \A m, n \in Memories : m # n => P[m] \cap P[n] = {}
  OBVIOUS
<1>3. \A t : t \in F <=> \E m \in Memories : t \in P[m]
  BY DEF Fedings
<1>4. Parts(Memories, P, x, sums, F)
  <2> HIDE DEF P, x, sums, F
  <2> QED
    BY <1>1, <1>2, <1>3, MemoriesAssumption DEF Parts
<1> HIDE DEF P, x, sums, F
<1>5. SumFunctionOnSet(sums, Memories) = SumFunctionOnSet(x, F)
  BY <1>4, SumOfParts
<1> QED
  BY <1>5 DEF ByMemory, x, sums, F

LEMMA CountOfMentioners ==
  ASSUME NEW g, NEW k
  PROVE  ByMemory(Ones, Mentionings(g, k)) = Cardinality(Mentioners(g, k))
<1>1. Mentioners(g, k) \in SUBSET Memories /\ IsFiniteSet(Mentioners(g, k))
  BY MemoriesAssumption, FS_Subset DEF Mentioners
<1>2. Ones \in [Memories -> Nat] /\ \A m \in Mentioners(g, k) : Ones[m] = 1
  BY <1>1 DEF Ones
<1>3. SumFunctionOnSet(Ones, Mentioners(g, k)) = Cardinality(Mentioners(g, k))
  BY <1>1, <1>2, SumOfOnes
<1> QED
  BY <1>2, <1>3, SumOfMentioners

-----------------------------------------------------------------------------
LEMMA InitCounts == Init => CountersInv
<1> SUFFICES ASSUME Init PROVE CountersInv
  OBVIOUS
<1>1. graph = Stored /\ \A w \in Writers : calls[w] = Idle /\ fed = Once
  BY DEF Init
<1>2. fed = Once /\ Once \in [Memories -> Nat]
  BY DEF Init, Once
<1>3. /\ WellFormed(graph) /\ RowsCounted(graph) /\ Matched(graph, fed)
      /\ \A l \in graph.mentions : l[2] \in Keys(graph)
  BY <1>1, <1>2, StoredAssumption DEF Counted, RowsCounted, EdgesEndIn
<1>4. MentionsOld(graph)
  BY <1>3 DEF MentionsOld, WellFormed
<1>5. \A w \in Writers : CallTrue(graph, calls[w])
  BY <1>1, NothingHeld
<1>6. \A k : Promised(calls, k) = {} /\ ToCount(calls, k) = {}
  BY <1>1, NothingHeld DEF Promised, ToCount
<1>7. WithinFed(graph, calls, fed)
  <2>1. ASSUME NEW f \in Entities
        PROVE  /\ ByMemory(Reliability, ToCount(calls, f)) = 0
               /\ ByMemory(Reliability, Fedings(fed, f)) \in Nat
    BY <1>2, <1>6, ByMemoryOfNone, ByMemoryIsNat, FedingsFinite, MemoriesAssumption
  <2>2. ASSUME NEW k \in Keys(graph)
        PROVE  graph.rows[k].evidence + ByMemory(Reliability, ToCount(calls, graph.rows[k].entity))
                 <= ByMemory(Reliability, Fedings(fed, graph.rows[k].entity))
    <3>1. graph.rows[k].entity \in Entities /\ graph.rows[k].evidence \in Nat
      BY <1>3 DEF WellFormed, RowsCounted
    <3>2. graph.rows[k].evidence <= ByMemory(Reliability, Fedings(fed, graph.rows[k].entity))
      BY <1>2, <1>3, SumOfFedings DEF Matched
    <3> QED
      BY <2>1, <3>1, <3>2
  <2>3. ASSUME NEW f \in Entities
        PROVE  ByMemory(Reliability, ToCount(calls, f)) <= ByMemory(Reliability, Fedings(fed, f))
    BY <2>1
  <2> QED
    BY <2>2, <2>3 DEF WithinFed
<1>8. MentionsCounted(graph, calls)
  <2> SUFFICES ASSUME NEW k \in Keys(graph)
               PROVE  /\ ByMemory(Ones, Mentionings(graph, k)) + ByMemory(Ones, Promised(calls, k))
                           <= graph.rows[k].mentions
                      /\ ByMemory(Reliability, Mentionings(graph, k))
                           + ByMemory(Reliability, Promised(calls, k)) <= graph.rows[k].evidence
    BY DEF MentionsCounted
  <2>1. Ones \in [Memories -> Nat] /\ Reliability \in [Memories -> Nat]
    BY MemoriesAssumption DEF Ones
  <2>2. ByMemory(Ones, Promised(calls, k)) = 0 /\ ByMemory(Reliability, Promised(calls, k)) = 0
    BY <1>6, ByMemoryOfNone
  <2>3. ByMemory(Ones, Mentionings(graph, k)) \in Nat /\ ByMemory(Reliability, Mentionings(graph, k)) \in Nat
    BY <2>1, MentioningsFinite, ByMemoryIsNat
  <2>4. /\ ByMemory(Ones, Mentionings(graph, k)) <= graph.rows[k].mentions
        /\ ByMemory(Reliability, Mentionings(graph, k)) <= graph.rows[k].evidence
    <3>1. graph.rows[k].mentions \in Nat /\ graph.rows[k].evidence \in Nat
      BY <1>3 DEF RowsCounted
    <3>2. /\ graph.rows[k].mentions >= Cardinality(Mentioners(graph, k))
          /\ graph.rows[k].evidence >= SumFunctionOnSet(Reliability, Mentioners(graph, k))
      BY <1>3 DEF Matched
    <3>3. /\ ByMemory(Ones, Mentionings(graph, k)) = Cardinality(Mentioners(graph, k))
          /\ ByMemory(Reliability, Mentionings(graph, k)) = SumFunctionOnSet(Reliability, Mentioners(graph, k))
      BY <2>1, CountOfMentioners, SumOfMentioners
    <3> QED
      BY <2>3, <3>1, <3>2, <3>3
  <2> QED
    BY <2>2, <2>3, <2>4
<1> QED
  BY <1>3, <1>4, <1>5, <1>7, <1>8 DEF CountersInv

LEMMA WriterCounts ==
  ASSUME EntityInv, CorroborationInv, CountersInv, NEW w \in Writers,
         \/ \E m \in Singles : Check(w, <<m>>, FALSE)
         \/ \E ms \in Batches : Check(w, ms, TRUE)
         \/ Record(w) \/ LookUpIndex(w) \/ Scan(w) \/ Write(w) \/ IncrementMany(w) \/ UpsertMany(w)
         \/ AddMentions(w) \/ AddProducedBy(w) \/ RelateOne(w) \/ RelateMany(w)
         \/ Return(w) \/ Crash(w)
  PROVE  CountersInv'
<1>1. CASE (\E m \in Singles : Check(w, <<m>>, FALSE)) \/ \E ms \in Batches : Check(w, ms, TRUE)
  BY <1>1, CheckCounts
<1>2. CASE Record(w) \/ LookUpIndex(w) \/ Scan(w)
  BY <1>2, RecordCounts, LookCounts
<1>3. CASE Write(w) \/ IncrementMany(w) \/ UpsertMany(w)
  BY <1>3, WriteCounts, IncrementManyCounts, UpsertManyCounts
<1>4. CASE AddMentions(w) \/ AddProducedBy(w)
  BY <1>4, MentionCounts, ProduceCounts
<1>5. CASE RelateOne(w) \/ RelateMany(w)
  BY <1>5, RelateCallCounts
<1>6. CASE Return(w) \/ Crash(w)
  BY <1>6, LeaveCounts
<1> QED
  BY <1>1, <1>2, <1>3, <1>4, <1>5, <1>6

LEMMA NextCounts ==
  EntityInv /\ CorroborationInv /\ CountersInv /\ [Next]_graphVars => CountersInv'
<1> SUFFICES ASSUME EntityInv, CorroborationInv, CountersInv, [Next]_graphVars PROVE CountersInv'
  OBVIOUS
<1>1. CASE UNCHANGED graphVars
  <2>1. UNCHANGED <<graph, calls, fed>>
    BY <1>1 DEF graphVars
  <2> QED
    BY <2>1, ShrinkCounts
<1>2. CASE \E s \in Seeds : Seed(s[1], s[2])
  BY <1>2, SeedCounts
<1>3. CASE (\E scope \in PurgeScopes : PurgeStart(scope)) \/ PurgeCrash \/ PurgeStep
  BY <1>3, PurgeCounts
<1>4. ASSUME NEW w \in Writers,
             \/ \E m \in Singles : Check(w, <<m>>, FALSE)
             \/ \E ms \in Batches : Check(w, ms, TRUE)
             \/ Record(w) \/ LookUpIndex(w) \/ Scan(w) \/ Write(w) \/ IncrementMany(w) \/ UpsertMany(w)
             \/ AddMentions(w) \/ AddProducedBy(w) \/ RelateOne(w) \/ RelateMany(w)
             \/ Return(w) \/ Crash(w)
      PROVE  CountersInv'
  BY <1>4, WriterCounts
<1> QED
  BY <1>1, <1>2, <1>3, <1>4 DEF Next

(* The counters of a row lag behind no mention edge and never exceed what its   *)
(* memories said, each as often as it was fed: the increments of every call are *)
(* added up exactly, under every interleaving, merge, crash, seed and purge     *)
(* (ingest/entities.py, _UPSERT_ENTITY, _BULK_INCREMENT, _BULK_UPSERT_ENTITY).  *)
THEOREM CountersMatchMentions == Spec => []EvidenceMatchesMentions
<1>1. EntityInv /\ CorroborationInv /\ CountersInv => EvidenceMatchesMentions
  <2> SUFFICES ASSUME EntityInv, CorroborationInv, CountersInv, NEW k \in Keys(graph)
               PROVE  LET row == graph.rows[k] IN
                      /\ row.mentions >= Cardinality(Mentioners(graph, k))
                      /\ row.evidence >= SumFunctionOnSet(Reliability, Mentioners(graph, k))
                      /\ row.evidence <=
                           SumFunctionOnSet([m \in Memories |-> Reliability[m] * MayCount(fed, m, row.entity)],
                                            Memories)
    BY DEF EvidenceMatchesMentions, Matched
  <2> PICK e, n, r : e = graph.rows[k].entity /\ n = graph.rows[k].mentions /\ r = graph.rows[k].evidence
    OBVIOUS
  <2>1. e \in Entities /\ n \in Nat /\ r \in Nat /\ fed \in [Memories -> Nat]
    BY CountersFacts DEF WellFormed, RowsCounted
  <2>2. Ones \in [Memories -> Nat] /\ Reliability \in [Memories -> Nat]
    BY MemoriesAssumption DEF Ones
  <2>3. \A f : Tuples(Mentionings(graph, f)) /\ Tuples(Promised(calls, f)) /\ Tuples(ToCount(calls, f))
               /\ Tuples(Fedings(fed, f))
    BY <2>1, MentioningsFinite, TalliesFinite, FedingsFinite
  <2>4. n >= Cardinality(Mentioners(graph, k))
    <3> PICK a, b \in Nat : /\ a = ByMemory(Ones, Mentionings(graph, k))
                            /\ b = ByMemory(Ones, Promised(calls, k))
      BY <2>2, <2>3, ByMemoryIsNat
    <3>1. a + b <= n
      BY CountersFacts DEF MentionsCounted
    <3>2. n >= a
      BY <2>1, <3>1
    <3> QED
      BY <3>2, CountOfMentioners
  <2>5. r >= SumFunctionOnSet(Reliability, Mentioners(graph, k))
    <3> PICK a, b \in Nat : /\ a = ByMemory(Reliability, Mentionings(graph, k))
                            /\ b = ByMemory(Reliability, Promised(calls, k))
      BY <2>2, <2>3, ByMemoryIsNat
    <3>1. a + b <= r
      BY CountersFacts DEF MentionsCounted
    <3>2. r >= a
      BY <2>1, <3>1
    <3> QED
      BY <2>2, <3>2, SumOfMentioners
  <2>6. r <= ByMemory(Reliability, Fedings(fed, e))
    <3> PICK a, b \in Nat : /\ a = ByMemory(Reliability, ToCount(calls, e))
                            /\ b = ByMemory(Reliability, Fedings(fed, e))
      BY <2>2, <2>3, ByMemoryIsNat
    <3>1. r + a <= b
      BY CountersFacts DEF WithinFed
    <3>2. r <= b
      BY <2>1, <3>1
    <3> QED
      BY <3>2
  <2>7. r <= SumFunctionOnSet([m \in Memories |-> Reliability[m] * MayCount(fed, m, e)], Memories)
    BY <2>1, <2>6, SumOfFedings
  <2> QED
    BY <2>4, <2>5, <2>7
<1> QED
  BY <1>1, EntityInvariant, InitOwes, NextOwes, InitCounts, NextCounts, PTL DEF Spec
============================================================================
