-------------------------- MODULE RetrievalProofs ---------------------------
(***************************************************************************)
(* What a retrieval may answer with, how it spends its budget and where it  *)
(* puts what is superseded, for every set of memories, every pool and       *)
(* result size, weight, score, cost and number of concurrent writes; and    *)
(* what a search of the CrewAI storage backend returns.                     *)
(***************************************************************************)
EXTENDS Retrieval, CrewRecall, SumTheorems, FiniteSetTheorems, SequenceTheorems, TLAPS

(* A list of candidates, each memory at most once.                           *)
Candidate(S) == [key : S, score : Int]
Ranking(s, S) ==
  /\ s \in Seq(Candidate(S))
  /\ \A i, j \in DOMAIN s : s[i].key = s[j].key => i = j

StrictOrder(S, R) ==
  /\ \A x \in S : <<x, x>> \notin R
  /\ \A x, y \in S : x # y => <<x, y>> \in R \/ <<y, x>> \in R
  /\ \A x, y, z \in S : <<x, y>> \in R /\ <<y, z>> \in R => <<x, z>> \in R

LEMMA CountTo ==
  ASSUME NEW n \in Nat PROVE IsFiniteSet(1..n) /\ Cardinality(1..n) = n
BY FS_Interval

(* In a strict order of a finite set as many stand ahead of each member as   *)
(* its place says.                                                          *)
LEMMA InOrderLists ==
  ASSUME NEW S, IsFiniteSet(S), NEW R, StrictOrder(S, R)
  PROVE  /\ InOrder(S, R) \in Injection(1..Cardinality(S), S)
         /\ \A n \in 1..Cardinality(S) :
              Cardinality({y \in S : <<y, InOrder(S, R)[n]>> \in R}) = n - 1
<1> DEFINE N == Cardinality(S)
           Ahead(x) == {y \in S : <<y, x>> \in R}
           rank == [x \in S |-> Cardinality(Ahead(x)) + 1]
           order == InOrder(S, R)
<1>0. N \in Nat BY FS_CardinalityType
<1>1. ASSUME NEW x \in S
      PROVE  IsFiniteSet(Ahead(x)) /\ Cardinality(Ahead(x)) \in 0..(N - 1)
  <2>1. Ahead(x) \in SUBSET (S \ {x}) BY DEF StrictOrder
  <2>2. IsFiniteSet(S \ {x}) /\ Cardinality(S \ {x}) = N - 1 BY FS_RemoveElement
  <2>. HIDE DEF Ahead, N
  <2>3. IsFiniteSet(Ahead(x)) /\ Cardinality(Ahead(x)) <= N - 1
    BY <2>1, <2>2, FS_Subset
  <2>. QED BY <2>3, FS_CardinalityType, <1>0
<1>. HIDE DEF Ahead
<1>2. rank \in [S -> 1..N] BY <1>1, <1>0
<1>3. ASSUME NEW x \in S, NEW y \in S, <<x, y>> \in R PROVE rank[x] < rank[y]
  <2>1. Ahead(x) \cup {x} \in SUBSET Ahead(y) BY <1>3 DEF StrictOrder, Ahead
  <2>2. x \notin Ahead(x) BY DEF StrictOrder, Ahead
  <2>3. Cardinality(Ahead(x) \cup {x}) = Cardinality(Ahead(x)) + 1
    BY <1>1, <2>2, FS_AddElement
  <2>4. Cardinality(Ahead(x) \cup {x}) <= Cardinality(Ahead(y))
    BY <2>1, <1>1, FS_Subset
  <2>. QED BY <2>3, <2>4, <1>1, <1>0
<1>. HIDE DEF rank
<1>4. rank \in Injection(S, 1..N)
  <2>1. ASSUME NEW x \in S, NEW y \in S, rank[x] = rank[y] PROVE x = y
    <3>1. ~(<<x, y>> \in R) /\ ~(<<y, x>> \in R) BY <2>1, <1>3, <1>2
    <3>. QED BY <3>1 DEF StrictOrder
  <2>. QED BY <2>1, <1>2 DEF Injection, IsInjective
<1>5. rank \in Surjection(S, 1..N)
  BY <1>4, <1>0, FS_Injection, FS_Interval
<1>6. ASSUME NEW n \in 1..N
      PROVE  order[n] \in S /\ rank[order[n]] = n /\ Cardinality(Ahead(order[n])) = n - 1
  <2>1. PICK x \in S : rank[x] = n BY <1>5 DEF Surjection
  <2>2. Cardinality(Ahead(x)) = n - 1 BY <2>1, <1>1, <1>0 DEF rank
  <2>3. order[n] = CHOOSE z \in S : Cardinality(Ahead(z)) = n - 1 BY DEF InOrder, Ahead
  <2>4. order[n] \in S /\ Cardinality(Ahead(order[n])) = n - 1 BY <2>2, <2>3
  <2>. QED BY <2>4, <1>0 DEF rank
<1>7. order \in [1..N -> S] BY <1>6 DEF InOrder
<1>8. \A a, b \in 1..N : order[a] = order[b] => a = b BY <1>6
<1>. QED BY <1>6, <1>7, <1>8 DEF Injection, IsInjective, Ahead

(* Of a finite set of places the last d have at most d from themselves on.   *)
LEMMA LastPlaces ==
  ASSUME NEW P \in SUBSET Nat, IsFiniteSet(P), NEW d \in Nat, d <= Cardinality(P)
  PROVE  LET last == {i \in P : Cardinality({j \in P : j >= i}) <= d}
         IN  IsFiniteSet(last) /\ Cardinality(last) >= d
<1> DEFINE R == {p \in P \X P : p[1] > p[2]}
           order == InOrder(P, R)
           From(i) == {j \in P : j >= i}
           last == {i \in P : Cardinality(From(i)) <= d}
<1>0. \A a, b \in P : <<a, b>> \in R <=> a > b OBVIOUS
<1>1. StrictOrder(P, R) BY DEF StrictOrder
<1>2. /\ order \in Injection(1..Cardinality(P), P)
      /\ \A n \in 1..Cardinality(P) : Cardinality({j \in P : <<j, order[n]>> \in R}) = n - 1
  BY <1>1, InOrderLists
<1>3. Cardinality(P) \in Nat BY FS_CardinalityType
<1>4. \A n \in 1..d : n \in 1..Cardinality(P) BY <1>3
<1>5. ASSUME NEW n \in 1..d PROVE order[n] \in last
  <2> DEFINE i == order[n]
             after == {j \in P : <<j, i>> \in R}
  <2>1. i \in P BY <1>2, <1>4 DEF Injection
  <2>2. IsFiniteSet(after) BY FS_Subset
  <2>3. From(i) = after \cup {i}
    <3>. HIDE DEF R, order, i
    <3>1. \A j \in P : j >= i <=> j > i \/ j = i BY <2>1
    <3>2. \A j \in P : <<j, i>> \in R <=> j > i BY <1>0, <2>1
    <3>3. \A j \in P : j \in From(i) <=> j \in after \/ j = i BY <3>1, <3>2
    <3>. QED BY <2>1, <3>3
  <2>4. Cardinality(after) = n - 1 BY <1>2, <1>4
  <2>. HIDE DEF after, From, order, R, i
  <2>5. Cardinality(after \cup {i}) <= n
    <3>1. Cardinality(after \cup {i}) = IF i \in after THEN Cardinality(after) ELSE Cardinality(after) + 1
      BY <2>2, FS_AddElement
    <3>2. n \in Nat BY <1>4
    <3>. QED BY <2>4, <3>1, <3>2
  <2>6. Cardinality(From(i)) <= d
    <3>1. Cardinality(after \cup {i}) \in Nat BY <2>2, FS_AddElement, FS_CardinalityType
    <3>. QED BY <2>3, <2>5, <3>1
  <2>. QED BY <2>1, <2>6 DEF i
<1>6. IsFiniteSet(last) BY FS_Subset
<1>. HIDE DEF last, order
<1>7. [n \in 1..d |-> order[n]] \in Injection(1..d, last)
  <2> DEFINE g == [n \in 1..d |-> order[n]]
  <2>1. g \in [1..d -> last] BY <1>5
  <2>2. \A a, b \in 1..d : g[a] = g[b] => a = b BY <1>2, <1>4 DEF Injection, IsInjective
  <2>. QED BY <2>1, <2>2 DEF Injection, IsInjective
<1>8. Cardinality(1..d) <= Cardinality(last) BY <1>6, <1>7, FS_Injection
<1>. QED BY <1>6, <1>8, CountTo DEF last

-----------------------------------------------------------------------------
(* A part of a list, in whatever order, is such a list.                      *)
LEMMA Rearranged ==
  ASSUME NEW S, NEW s, Ranking(s, S), NEW n \in Nat,
         NEW order \in Injection(1..n, DOMAIN s)
  PROVE  LET t == [i \in 1..n |-> s[order[i]]]
         IN  /\ Ranking(t, S) /\ Len(t) = n
             /\ KeysOf(t) \subseteq KeysOf(s)
             /\ KeysOf(t) = {s[order[i]].key : i \in 1..n}
<1> DEFINE t == [i \in 1..n |-> s[order[i]]]
<1>1. \A i \in 1..n : order[i] \in DOMAIN s BY DEF Injection
<1>2. \A i \in DOMAIN s : s[i] \in Candidate(S) BY DEF Ranking
<1>3. t \in [1..n -> Candidate(S)] BY <1>1, <1>2
<1>4. t \in Seq(Candidate(S)) /\ Len(t) = n BY <1>3, SeqDef, LenProperties
<1>5. \A i, j \in 1..n : t[i].key = t[j].key => i = j
  BY <1>1 DEF Ranking, Injection, IsInjective
<1>6. KeysOf(t) = {s[order[i]].key : i \in 1..n} BY DEF KeysOf
<1>7. KeysOf(t) \subseteq KeysOf(s) BY <1>6, <1>1 DEF KeysOf
<1>. QED BY <1>3, <1>4, <1>5, <1>6, <1>7 DEF Ranking

LEMMA RankingDomain ==
  ASSUME NEW S, NEW s, Ranking(s, S)
  PROVE  /\ Len(s) \in Nat /\ DOMAIN s = 1..Len(s)
         /\ IsFiniteSet(DOMAIN s) /\ Cardinality(DOMAIN s) = Len(s)
         /\ \A i \in DOMAIN s : s[i].key \in S /\ s[i].score \in Int
<1>1. Len(s) \in Nat /\ DOMAIN s = 1..Len(s) BY DEF Ranking
<1>2. IsFiniteSet(1..Len(s)) /\ Cardinality(1..Len(s)) = Len(s) BY <1>1, CountTo
<1>3. \A i \in DOMAIN s : s[i] \in Candidate(S) BY DEF Ranking
<1>4. \A c \in Candidate(S) : c.key \in S /\ c.score \in Int BY DEF Candidate
<1>. QED BY <1>1, <1>2, <1>3, <1>4

LEMMA ByScoreRanks ==
  ASSUME NEW S, NEW s, Ranking(s, S)
  PROVE  Ranking(ByScore(s), S) /\ Len(ByScore(s)) = Len(s) /\ KeysOf(ByScore(s)) = KeysOf(s)
<1> DEFINE order == InOrder(DOMAIN s, Better(s))
           n == Len(s)
<1>1. StrictOrder(DOMAIN s, Better(s)) BY RankingDomain DEF StrictOrder, Better
<1>2. order \in Injection(1..n, DOMAIN s) BY <1>1, RankingDomain, InOrderLists
<1>3. order \in Surjection(1..n, DOMAIN s) BY <1>2, RankingDomain, FS_Injection
<1>. HIDE DEF order
<1>4. ByScore(s) = [i \in 1..n |-> s[order[i]]] BY <1>2 DEF ByScore, order, Injection
<1>5. {s[order[i]].key : i \in 1..n} = KeysOf(s) BY <1>2, <1>3 DEF KeysOf, Surjection, Injection
<1>6. n \in Nat BY RankingDomain
<1>. HIDE DEF n
<1>7. LET t == [i \in 1..n |-> s[order[i]]]
      IN  Ranking(t, S) /\ Len(t) = n /\ KeysOf(t) = {s[order[i]].key : i \in 1..n}
  BY <1>2, <1>6, Rearranged
<1>. QED BY <1>4, <1>5, <1>7 DEF n

LEMMA PickedPlaces ==
  ASSUME NEW n \in Nat, NEW places \in SUBSET (1..n)
  PROVE  /\ Cardinality(places) \in Nat /\ Cardinality(places) <= n
         /\ InOrder(places, Earlier(places)) \in Injection(1..Cardinality(places), places)
         /\ InOrder(places, Earlier(places)) \in Surjection(1..Cardinality(places), places)
<1>0. IsFiniteSet(1..n) /\ Cardinality(1..n) = n BY CountTo
<1>1. IsFiniteSet(places) /\ Cardinality(places) <= n BY <1>0, FS_Subset
<1>2. Cardinality(places) \in Nat BY <1>1, FS_CardinalityType
<1>3. StrictOrder(places, Earlier(places)) BY DEF StrictOrder, Earlier
<1>4. InOrder(places, Earlier(places)) \in Injection(1..Cardinality(places), places)
  BY <1>1, <1>3, InOrderLists
<1>5. Cardinality(1..Cardinality(places)) = Cardinality(places) BY <1>2, CountTo
<1>. QED BY <1>1, <1>2, <1>4, <1>5, FS_Injection

LEMMA PickedRanks ==
  ASSUME NEW S, NEW s, Ranking(s, S), NEW places \in SUBSET DOMAIN s
  PROVE  /\ Ranking(Picked(s, places), S) /\ Len(Picked(s, places)) = Cardinality(places)
         /\ KeysOf(Picked(s, places)) = {s[i].key : i \in places}
<1> DEFINE order == InOrder(places, Earlier(places))
           n == Cardinality(places)
<1>1. n \in Nat /\ order \in Injection(1..n, places) /\ order \in Surjection(1..n, places)
  BY RankingDomain, PickedPlaces
<1>. HIDE DEF order, n
<1>2. Picked(s, places) = [i \in 1..n |-> s[order[i]]]
  BY <1>1 DEF Picked, order, Injection
<1>3. order \in Injection(1..n, DOMAIN s) BY <1>1 DEF Injection
<1>4. {s[order[i]].key : i \in 1..n} = {s[i].key : i \in places}
  BY <1>1 DEF Surjection, Injection
<1>5. LET t == [i \in 1..n |-> s[order[i]]]
      IN  Ranking(t, S) /\ Len(t) = n /\ KeysOf(t) = {s[order[i]].key : i \in 1..n}
  BY <1>1, <1>3, Rearranged
<1>. QED BY <1>2, <1>4, <1>5 DEF n

LEMMA Rescored ==
  ASSUME NEW S, NEW s, Ranking(s, S), NEW t \in [DOMAIN s -> Candidate(S)],
         \A i \in DOMAIN s : t[i].key = s[i].key
  PROVE  Ranking(t, S) /\ Len(t) = Len(s) /\ KeysOf(t) = KeysOf(s)
<1>1. Len(s) \in Nat /\ DOMAIN s = 1..Len(s) BY RankingDomain
<1>2. t \in Seq(Candidate(S)) /\ Len(t) = Len(s) BY <1>1, SeqDef, LenProperties
<1>3. KeysOf(t) = KeysOf(s) BY DEF KeysOf
<1>. QED BY <1>1, <1>2, <1>3 DEF Ranking

-----------------------------------------------------------------------------
(* Fusion.                                                                   *)
Arms == {"bm25", "vector", "graph"}
ArmLists(ranked, S) ==
  /\ ranked \in Seq([arm : Arms, rows : Seq(S)])
  /\ \A i \in DOMAIN ranked : IsInjective(ranked[i].rows)

LEMMA ArmListRows ==
  ASSUME NEW S, NEW ranked, ArmLists(ranked, S), NEW i \in DOMAIN ranked
  PROVE  /\ i \in Nat /\ i >= 1
         /\ ranked[i].rows \in Seq(S) /\ IsInjective(ranked[i].rows)
<1>1. i \in 1..Len(ranked) /\ Len(ranked) \in Nat BY DEF ArmLists
<1> DEFINE Lists == [arm : Arms, rows : Seq(S)]
<1>0. ranked \in Seq(Lists) BY DEF ArmLists
<1>. HIDE DEF Lists
<1>2. ranked[i] \in Lists BY <1>0
<1>3. IsInjective(ranked[i].rows) BY DEF ArmLists
<1>. QED BY <1>1, <1>2, <1>3 DEF Lists

LEMMA ShareIsInt == ASSUME NEW rank \in Nat \ {0} PROVE Share(rank) \in Int
<1>1. Scale \in Nat /\ RrfK \in Nat BY RetrievalAssumption
<1>. QED BY <1>1 DEF Share

LEMMA MassIsInt == ASSUME NEW S, NEW rows \in Seq(S), NEW key PROVE MassIn(rows, key) \in Int
<1>1. CASE key \in Range(rows)
  <2>1. \E r \in DOMAIN rows : rows[r] = key BY <1>1 DEF Range
  <2>2. RowOf(rows, key) \in DOMAIN rows BY <2>1 DEF RowOf
  <2>3. RowOf(rows, key) \in Nat \ {0} BY <2>2
  <2>. QED BY <1>1, <2>3, ShareIsInt DEF MassIn
<1>2. CASE key \notin Range(rows) BY <1>2 DEF MassIn
<1>. QED BY <1>1, <1>2

LEMMA ArmMassIsInt ==
  ASSUME NEW S, NEW ranked, ArmLists(ranked, S), NEW arm \in Arms, NEW key
  PROVE  ArmMass(ranked, arm, key) \in Int
<1> DEFINE at == {i \in DOMAIN ranked : ranked[i].arm = arm}
           first == CHOOSE i \in at : TRUE
<1>1. CASE at = {} BY <1>1 DEF ArmMass
<1>2. CASE at # {}
  <2>1. first \in DOMAIN ranked BY <1>2
  <2>2. ranked[first].rows \in Seq(S) BY <2>1, ArmListRows
  <2>3. MassIn(ranked[first].rows, key) \in Int BY <2>2, MassIsInt
  <2>4. ArmWeight[arm] \in Int BY RetrievalAssumption DEF Arms
  <2>5. ArmMass(ranked, arm, key) = ArmWeight[arm] * MassIn(ranked[first].rows, key)
    BY <1>2 DEF ArmMass
  <2>. QED BY <2>3, <2>4, <2>5
<1>. QED BY <1>1, <1>2

LEMMA FirstPlacesOrder ==
  ASSUME NEW S, IsFiniteSet(S), NEW ranked, ArmLists(ranked, S)
  PROVE  /\ IsFiniteSet(FirstPlaces(ranked))
         /\ StrictOrder(FirstPlaces(ranked), ListByList(FirstPlaces(ranked)))
         /\ \A p \in FirstPlaces(ranked) : ranked[p[1]].rows[p[2]] \in S
         /\ \A p, q \in FirstPlaces(ranked) :
              ranked[p[1]].rows[p[2]] = ranked[q[1]].rows[q[2]] => p = q
<1> DEFINE P == FirstPlaces(ranked)
           Key(p) == ranked[p[1]].rows[p[2]]
           key == [p \in P |-> Key(p)]
<1>1. ASSUME NEW p \in P
      PROVE  /\ p = <<p[1], p[2]>> /\ p[1] \in DOMAIN ranked /\ p[2] \in DOMAIN ranked[p[1]].rows
             /\ \A j \in 1..(p[1] - 1) : Key(p) \notin Range(ranked[j].rows)
  BY DEF FirstPlaces
<1>2. ASSUME NEW i \in DOMAIN ranked
      PROVE  i \in Nat /\ i >= 1 /\ ranked[i].rows \in Seq(S) /\ IsInjective(ranked[i].rows)
  BY ArmListRows
<1>3. ASSUME NEW p \in P
      PROVE  /\ p[1] \in Nat /\ p[1] >= 1 /\ p[2] \in Nat
             /\ Key(p) \in S /\ Key(p) \in Range(ranked[p[1]].rows)
  BY <1>1, <1>2 DEF Range
<1>. HIDE DEF P, Key
<1>4. ASSUME NEW p \in P, NEW q \in P, Key(p) = Key(q) PROVE p = q
  <2>1. ~(p[1] < q[1]) /\ ~(q[1] < p[1]) BY <1>1, <1>3, <1>4
  <2>2. p[1] = q[1] BY <1>3, <2>1
  <2>3. p[2] = q[2] BY <1>1, <1>2, <1>4, <2>2 DEF IsInjective, Key
  <2>. QED BY <1>1, <2>2, <2>3
<1>5. key \in Injection(P, S) BY <1>3, <1>4 DEF Injection, IsInjective
<1>6. IsFiniteSet(P) BY <1>5, FS_Injection
<1>7. StrictOrder(P, ListByList(P))
  <2>1. \A p, q \in P : <<p, q>> \in ListByList(P) <=> p[1] < q[1] \/ (p[1] = q[1] /\ p[2] < q[2])
    BY DEF ListByList
  <2>2. \A p, q \in P : p # q => p[1] # q[1] \/ p[2] # q[2] BY <1>1
  <2>. QED BY <1>3, <2>1, <2>2 DEF StrictOrder
<1>. QED BY <1>3, <1>4, <1>6, <1>7 DEF P, Key

LEMMA FusedRanks ==
  ASSUME NEW S \in SUBSET Memories, NEW ranked, ArmLists(ranked, S)
  PROVE  Ranking(Fused(ranked), S)
<1> DEFINE P == FirstPlaces(ranked)
           order == InOrder(P, ListByList(P))
           N == Cardinality(P)
           mass(key) == ArmMass(ranked, "bm25", key) + ArmMass(ranked, "vector", key)
                          + ArmMass(ranked, "graph", key)
           seen == [n \in DOMAIN order |-> ranked[order[n][1]].rows[order[n][2]]]
           first == [n \in DOMAIN seen |-> [key |-> seen[n], score |-> mass(seen[n])]]
           scored == ByScore(first)
           freshened == [n \in DOMAIN scored |-> [scored[n] EXCEPT !.score = @ * Fresh[scored[n].key]]]
<1>1. IsFiniteSet(S) BY RetrievalAssumption, FS_Subset
<1>2. N \in Nat /\ order \in Injection(1..N, P)
  BY <1>1, FirstPlacesOrder, InOrderLists, FS_CardinalityType
<1>3. DOMAIN order = 1..N /\ \A n \in 1..N : order[n] \in P BY <1>2 DEF Injection
<1>4. \A n \in 1..N : seen[n] = ranked[order[n][1]].rows[order[n][2]] BY <1>3
<1>5. \A n \in 1..N : seen[n] \in S
  <2>. HIDE DEF P, order, seen
  <2>1. \A p \in P : ranked[p[1]].rows[p[2]] \in S BY <1>1, FirstPlacesOrder DEF P
  <2>. QED BY <1>3, <1>4, <2>1
<1>6. \A m, n \in 1..N : seen[m] = seen[n] => m = n
  <2>. HIDE DEF P, order, seen
  <2>1. \A p, q \in P : ranked[p[1]].rows[p[2]] = ranked[q[1]].rows[q[2]] => p = q
    BY <1>1, FirstPlacesOrder DEF P
  <2>2. ASSUME NEW m \in 1..N, NEW n \in 1..N, seen[m] = seen[n] PROVE m = n
    <3>1. order[m] = order[n] BY <1>3, <1>4, <2>1, <2>2
    <3>. QED BY <1>2, <1>3, <3>1 DEF Injection, IsInjective
  <2>. QED BY <2>2
<1>7. DOMAIN seen = 1..N BY <1>3
<1>8. \A key : mass(key) \in Int
  <2> TAKE key
  <2>1. ArmMass(ranked, "bm25", key) \in Int BY ArmMassIsInt DEF Arms
  <2>2. ArmMass(ranked, "vector", key) \in Int BY ArmMassIsInt DEF Arms
  <2>3. ArmMass(ranked, "graph", key) \in Int BY ArmMassIsInt DEF Arms
  <2>. QED BY <2>1, <2>2, <2>3
<1>. HIDE DEF seen, mass
<1>9. Ranking(first, S)
  <2>1. first \in [1..N -> Candidate(S)] BY <1>5, <1>7, <1>8 DEF Candidate
  <2>2. first \in Seq(Candidate(S)) BY <1>2, <2>1, SeqDef
  <2>. QED BY <1>6, <1>7, <2>2 DEF Ranking
<1>. HIDE DEF first
<1>10. Ranking(scored, S) BY <1>9, ByScoreRanks
<1>. HIDE DEF scored
<1>11. Ranking(freshened, S)
  <2>1. ASSUME NEW n \in DOMAIN scored
        PROVE  freshened[n] \in Candidate(S) /\ freshened[n].key = scored[n].key
    <3>1. scored[n] \in Candidate(S) BY <1>10 DEF Ranking
    <3>2. Fresh[scored[n].key] \in Int BY <3>1, RetrievalAssumption DEF Candidate
    <3>. QED BY <3>1, <3>2 DEF Candidate
  <2>2. freshened \in [DOMAIN scored -> Candidate(S)] BY <2>1
  <2>. QED BY <1>10, <2>1, <2>2, Rescored
<1>. HIDE DEF freshened
<1>12. Fused(ranked) = ByScore(freshened) BY DEF Fused, freshened, scored, first, mass, seen
<1>. QED BY <1>11, <1>12, ByScoreRanks

-----------------------------------------------------------------------------
LEMMA FiniteMin ==
  ASSUME NEW S \in SUBSET Int, IsFiniteSet(S), S # {}
  PROVE  Min(S) \in S /\ \A x \in S : Min(S) <= x
<1> DEFINE R == {p \in S \X S : p[1] < p[2]}
           least == InOrder(S, R)[1]
           below == {y \in S : <<y, least>> \in R}
<1>1. StrictOrder(S, R) BY DEF StrictOrder
<1>2. Cardinality(S) \in Nat /\ Cardinality(S) # 0 BY FS_CardinalityType, FS_EmptySet
<1>3. 1 \in 1..Cardinality(S) BY <1>2
<1>. HIDE DEF R
<1>4. least \in S /\ Cardinality(below) = 0
  <2>1. /\ InOrder(S, R) \in Injection(1..Cardinality(S), S)
        /\ \A n \in 1..Cardinality(S) :
             Cardinality({y \in S : <<y, InOrder(S, R)[n]>> \in R}) = n - 1
    BY <1>1, InOrderLists
  <2>2. least \in S BY <1>3, <2>1 DEF Injection
  <2>3. Cardinality(below) = 1 - 1 BY <1>3, <2>1
  <2>. QED BY <2>2, <2>3
<1>5. below = {}
  <2>1. IsFiniteSet(below) BY FS_Subset
  <2>. QED BY <1>4, <2>1, FS_EmptySet
<1>6. \A y \in S : ~(y < least) BY <1>4, <1>5 DEF R
<1>. HIDE DEF least
<1>7. \E x \in S : \A y \in S : x =< y BY <1>4, <1>6
<1>. QED BY <1>7 DEF Min

LEMMA MinOfTwo ==
  ASSUME NEW a \in Int, NEW b \in Int
  PROVE  Min({a, b}) = IF a <= b THEN a ELSE b
<1>1. CASE a <= b
  <2>1. \A x \in {a, b} : a =< x BY <1>1
  <2>2. \A x \in {a, b} : (\A y \in {a, b} : x =< y) => x = a BY <1>1
  <2>. QED BY <1>1, <2>1, <2>2 DEF Min
<1>2. CASE ~(a <= b)
  <2>1. \A x \in {a, b} : b =< x BY <1>2
  <2>2. \A x \in {a, b} : (\A y \in {a, b} : x =< y) => x = b BY <1>2
  <2>. QED BY <1>2, <2>1, <2>2 DEF Min
<1>. QED BY <1>1, <1>2

LEMMA MaxOfTwo ==
  ASSUME NEW a \in Int, NEW b \in Int
  PROVE  Max({a, b}) = IF a >= b THEN a ELSE b
<1>1. CASE a >= b
  <2>1. \A x \in {a, b} : a >= x BY <1>1
  <2>2. \A x \in {a, b} : (\A y \in {a, b} : x >= y) => x = a BY <1>1
  <2>. QED BY <1>1, <2>1, <2>2 DEF Max
<1>2. CASE ~(a >= b)
  <2>1. \A x \in {a, b} : b >= x BY <1>2
  <2>2. \A x \in {a, b} : (\A y \in {a, b} : x >= y) => x = b BY <1>2
  <2>. QED BY <1>2, <2>1, <2>2 DEF Max
<1>. QED BY <1>1, <1>2

(* Two lists without a common memory, one after the other.                   *)
LEMMA Joined ==
  ASSUME NEW S, NEW s, Ranking(s, S), NEW t, Ranking(t, S), KeysOf(s) \cap KeysOf(t) = {}
  PROVE  /\ Ranking(s \o t, S) /\ Len(s \o t) = Len(s) + Len(t)
         /\ KeysOf(s \o t) = KeysOf(s) \cup KeysOf(t)
<1> DEFINE u == s \o t
<1>1. /\ Len(s) \in Nat /\ DOMAIN s = 1..Len(s)
      /\ Len(t) \in Nat /\ DOMAIN t = 1..Len(t)
  BY RankingDomain
<1>2. s \in Seq(Candidate(S)) /\ t \in Seq(Candidate(S)) BY DEF Ranking
<1>3. u \in Seq(Candidate(S)) /\ Len(u) = Len(s) + Len(t)
  BY <1>2, ConcatProperties
<1>4. DOMAIN u = 1..(Len(s) + Len(t)) BY <1>3
<1>5. \A i \in DOMAIN s : i \in DOMAIN u /\ u[i] = s[i] BY <1>1, <1>2, <1>4, ConcatProperties
<1>6. \A i \in DOMAIN t : Len(s) + i \in DOMAIN u /\ u[Len(s) + i] = t[i]
  BY <1>1, <1>2, <1>4, ConcatProperties
<1>7. \A i \in DOMAIN u : i \in DOMAIN s \/ (i > Len(s) /\ i - Len(s) \in DOMAIN t) BY <1>1, <1>4
<1>8. \A i \in DOMAIN u : i > Len(s) => u[i] = t[i - Len(s)]
  BY <1>1, <1>2, <1>4, ConcatProperties
<1>. HIDE DEF u
<1>9. KeysOf(u) = KeysOf(s) \cup KeysOf(t)
  <2>1. ASSUME NEW i \in DOMAIN u PROVE u[i].key \in KeysOf(s) \cup KeysOf(t)
    BY <1>5, <1>7, <1>8 DEF KeysOf
  <2>2. ASSUME NEW i \in DOMAIN s PROVE s[i].key \in KeysOf(u) BY <1>5 DEF KeysOf
  <2>3. ASSUME NEW i \in DOMAIN t PROVE t[i].key \in KeysOf(u) BY <1>6 DEF KeysOf
  <2>. QED BY <2>1, <2>2, <2>3 DEF KeysOf
<1>10. ASSUME NEW i \in DOMAIN u, NEW j \in DOMAIN u, u[i].key = u[j].key PROVE i = j
  <2>1. CASE i \in DOMAIN s /\ j \in DOMAIN s BY <1>5, <1>10, <2>1 DEF Ranking
  <2>2. CASE i \notin DOMAIN s /\ j \notin DOMAIN s
    <3>1. i - Len(s) = j - Len(s) BY <1>7, <1>8, <1>10, <2>2 DEF Ranking
    <3>. QED BY <1>1, <1>4, <3>1
  <2>3. CASE i \in DOMAIN s /\ j \notin DOMAIN s
    BY <1>5, <1>7, <1>8, <1>10, <2>3 DEF KeysOf
  <2>4. CASE i \notin DOMAIN s /\ j \in DOMAIN s
    BY <1>5, <1>7, <1>8, <1>10, <2>4 DEF KeysOf
  <2>. QED BY <2>1, <2>2, <2>3, <2>4
<1>. QED BY <1>3, <1>9, <1>10 DEF Ranking, u

LEMMA MergedRanks ==
  ASSUME NEW S, NEW sofar, Ranking(sofar, S), NEW ranked, Ranking(ranked, S)
  PROVE  Ranking(Merged(sofar, ranked), S)
<1> DEFINE keys == KeyList(ranked)
           places == {i \in DOMAIN keys : keys[i] \notin KeysOf(sofar)}
           new == Picked(keys, places)
           order == InOrder(places, Earlier(places))
           n == Cardinality(places)
           added == [i \in DOMAIN new |-> [key |-> new[i], score |-> 0]]
           all == sofar \o added
           merged == [i \in DOMAIN all |-> [all[i] EXCEPT !.score = @ + MassIn(keys, all[i].key)]]
<1>1. /\ DOMAIN ranked = 1..Len(ranked) /\ Len(ranked) \in Nat
      /\ \A i \in DOMAIN ranked : ranked[i].key \in S
  BY RankingDomain
<1>2. keys \in [1..Len(ranked) -> S] /\ DOMAIN keys = 1..Len(ranked) BY <1>1 DEF KeyList
<1>3. keys \in Seq(S) BY <1>1, <1>2, SeqDef
<1>4. \A i, j \in DOMAIN keys : keys[i] = keys[j] => i = j BY DEF KeyList, Ranking
<1>. HIDE DEF keys
<1>5. places \in SUBSET (1..Len(ranked)) BY <1>2
<1>6. n \in Nat /\ order \in Injection(1..n, places) BY <1>1, <1>5, PickedPlaces
<1>. HIDE DEF order, n
<1>7. new = [i \in 1..n |-> keys[order[i]]] BY <1>6 DEF Picked, order, Injection
<1>8. \A i \in 1..n : order[i] \in DOMAIN keys /\ keys[order[i]] \notin KeysOf(sofar)
  BY <1>6 DEF Injection
<1>. HIDE DEF places, new
<1>9. Ranking(added, S) /\ KeysOf(added) \cap KeysOf(sofar) = {}
  <2>1. added \in [1..n -> Candidate(S)] BY <1>2, <1>7, <1>8 DEF Candidate
  <2>2. added \in Seq(Candidate(S)) BY <1>6, <2>1, SeqDef
  <2>3. \A i, j \in 1..n : added[i].key = added[j].key => i = j
    <3>1. \A i \in 1..n : added[i].key = keys[order[i]] BY <1>7
    <3>. HIDE DEF added
    <3>. QED BY <1>4, <1>6, <1>8, <3>1 DEF Injection, IsInjective
  <2>4. \A i \in 1..n : added[i].key \notin KeysOf(sofar) BY <1>7, <1>8
  <2>. QED BY <2>1, <2>2, <2>3, <2>4 DEF Ranking, KeysOf
<1>. HIDE DEF added
<1>10. Ranking(all, S) BY <1>9, Joined
<1>. HIDE DEF all
<1>11. Ranking(merged, S)
  <2>1. ASSUME NEW i \in DOMAIN all
        PROVE  merged[i] \in Candidate(S) /\ merged[i].key = all[i].key
    <3>1. all[i] \in Candidate(S) BY <1>10 DEF Ranking
    <3>2. MassIn(keys, all[i].key) \in Int BY <1>3, MassIsInt
    <3>. QED BY <3>1, <3>2 DEF Candidate
  <2>2. merged \in [DOMAIN all -> Candidate(S)] BY <2>1
  <2>. QED BY <1>10, <2>1, <2>2, Rescored
<1>. QED BY <1>11 DEF Merged, merged, all, added, new, places, keys

-----------------------------------------------------------------------------
(* The time view, reranking and diversity keep a part of the list.           *)
LEMMA TimeViewRanks ==
  ASSUME NEW S, NEW s, Ranking(s, S), NEW view
  PROVE  /\ Ranking(TimeView(view, s), S) /\ KeysOf(TimeView(view, s)) \subseteq KeysOf(s)
         /\ \A key \in KeysOf(TimeView(view, s)) : InViewOf(view, At[key])
<1> DEFINE places == {i \in DOMAIN s : InViewOf(view, At[s[i].key])}
<1>1. places \in SUBSET DOMAIN s OBVIOUS
<1>2. KeysOf(TimeView(view, s)) = {s[i].key : i \in places} BY <1>1, PickedRanks DEF TimeView
<1>3. Ranking(TimeView(view, s), S) BY <1>1, PickedRanks DEF TimeView
<1>. QED BY <1>2, <1>3 DEF KeysOf

LEMMA HeadLenBounds ==
  ASSUME NEW S, NEW s, Ranking(s, S)
  PROVE  HeadLen(s) \in Nat /\ HeadLen(s) <= Len(s)
<1>1. TopN \in Nat /\ Len(s) \in Nat BY RetrievalAssumption, RankingDomain
<1>. QED BY <1>1, MinOfTwo DEF HeadLen

LEMMA NewnessIsInt ==
  ASSUME NEW S, NEW s, Ranking(s, S), NEW i
  PROVE  Newness(s, i) \in Int
<1> DEFINE n == HeadLen(s)
           times == {At[s[j].key] : j \in 1..n}
           time == [j \in 1..n |-> At[s[j].key]]
           older == {t \in times : t < At[s[i].key]}
<1>1. n \in Nat BY HeadLenBounds
<1>. HIDE DEF n
<1>2. time \in Surjection(1..n, times) BY DEF Surjection
<1>3. IsFiniteSet(times) BY <1>1, <1>2, CountTo, FS_Surjection
<1>4. Cardinality(times) \in Nat BY <1>3, FS_CardinalityType
<1>5. IsFiniteSet(older) BY <1>3, FS_Subset
<1>6. Cardinality(older) \in Nat BY <1>5, FS_CardinalityType
<1>7. Newness(s, i) = IF Cardinality(times) < 2 THEN 1
                      ELSE (2 * Cardinality(older)) \div (Cardinality(times) - 1)
  BY DEF Newness, n
<1>. HIDE DEF times, older
<1>. QED BY <1>4, <1>6, <1>7

LEMMA HeadScoreIsInt ==
  ASSUME NEW S, NEW s, Ranking(s, S), NEW scoring \in Scorings,
         NEW n \in Nat, NEW ce \in [1..n -> Relevances], NEW i \in 1..n
  PROVE  HeadScore(s, scoring, ce, i) \in Int
<1>1. ce[i] \in Int BY RetrievalAssumption
<1>2. RankAmong(ce, i) \in Nat \ {0}
  <2> DEFINE above == {j \in DOMAIN ce : ce[j] > ce[i] \/ (ce[j] = ce[i] /\ j < i)}
  <2>1. above \in SUBSET (1..n) OBVIOUS
  <2>2. IsFiniteSet(above) BY <2>1, CountTo, FS_Subset
  <2>3. Cardinality(above) \in Nat BY <2>2, FS_CardinalityType
  <2>. QED BY <2>3 DEF RankAmong
<1>3. Share(RankAmong(ce, i)) \in Int /\ Share(i) \in Int BY <1>2, ShareIsInt
<1>4. Newness(s, i) \in Int /\ TimeWeight \in Int BY NewnessIsInt, RetrievalAssumption
<1>5. scoring \in {"replace", "rrf", "event_time"} BY RetrievalAssumption
<1>6. CASE scoring = "replace" BY <1>1, <1>6 DEF HeadScore
<1>7. CASE scoring = "rrf" BY <1>3, <1>7 DEF HeadScore
<1>8. CASE scoring = "event_time" BY <1>1, <1>4, <1>8 DEF HeadScore
<1>. QED BY <1>5, <1>6, <1>7, <1>8

LEMMA RerankedRanks ==
  ASSUME NEW S, NEW s, Ranking(s, S), NEW scoring \in Scorings, HeadLen(s) # 0,
         NEW ce \in [1..HeadLen(s) -> Relevances]
  PROVE  Ranking(Reranked(s, scoring, ce), S) /\ KeysOf(Reranked(s, scoring, ce)) \subseteq KeysOf(s)
<1> DEFINE n == HeadLen(s)
           score(i) == HeadScore(s, scoring, ce, i)
           head == [i \in DOMAIN ce |-> [s[i] EXCEPT !.score = score(i)]]
           scores == {head[i].score : i \in DOMAIN head}
           floor == Min(scores)
           tail == [i \in 1..(Len(s) - Len(head)) |-> [s[Len(head) + i] EXCEPT !.score = floor - i]]
<1>1. n \in Nat /\ n >= 1 /\ n <= Len(s) /\ Len(s) \in Nat /\ DOMAIN s = 1..Len(s)
  BY HeadLenBounds, RankingDomain
<1>2. DOMAIN ce = 1..n OBVIOUS
<1>3. \A i \in 1..n : score(i) \in Int BY <1>1, HeadScoreIsInt
<1>. HIDE DEF n, score
<1>4. ASSUME NEW i \in 1..n
      PROVE  head[i] \in Candidate(S) /\ head[i].key = s[i].key /\ head[i].score = score(i)
  <2>1. s[i] \in Candidate(S) BY <1>1 DEF Ranking
  <2>. QED BY <1>2, <1>3, <2>1 DEF Candidate
<1>5. DOMAIN head = 1..n BY <1>2
<1>. HIDE DEF head
<1>6. Ranking(head, S) /\ Len(head) = n /\ \A key \in KeysOf(head) : \E i \in 1..n : key = s[i].key
  <2>1. head \in Seq(Candidate(S)) /\ Len(head) = n
    <3>1. head = [i \in 1..n |-> head[i]] BY <1>5 DEF head
    <3>2. head \in [1..n -> Candidate(S)] BY <1>4, <3>1
    <3>. QED BY <1>1, <3>2, SeqDef, LenProperties
  <2>2. \A i, j \in 1..n : head[i].key = head[j].key => i = j BY <1>1, <1>4 DEF Ranking
  <2>. QED BY <1>4, <1>5, <2>1, <2>2 DEF Ranking, KeysOf
<1>7. floor \in Int
  <2>1. scores \in SUBSET Int /\ scores # {}
    <3>1. scores = {score(i) : i \in 1..n} BY <1>4, <1>5
    <3>2. 1 \in 1..n BY <1>1
    <3>. QED BY <1>3, <3>1, <3>2
  <2>2. [i \in 1..n |-> head[i].score] \in Surjection(1..n, scores) BY <1>5 DEF Surjection
  <2>3. IsFiniteSet(scores) BY <1>1, <2>2, CountTo, FS_Surjection
  <2>. QED BY <2>1, <2>3, FiniteMin
<1>. HIDE DEF floor
<1>8. ASSUME NEW i \in 1..(Len(s) - n)
      PROVE  tail[i] \in Candidate(S) /\ tail[i].key = s[n + i].key
  <2>1. n + i \in DOMAIN s BY <1>1
  <2>2. s[n + i] \in Candidate(S) BY <2>1 DEF Ranking
  <2>3. tail[i] = [s[n + i] EXCEPT !.score = floor - i] BY <1>6
  <2>4. floor - i \in Int BY <1>7
  <2>. QED BY <2>2, <2>3, <2>4 DEF Candidate
<1>9. DOMAIN tail = 1..(Len(s) - n) BY <1>6
<1>10. Ranking(tail, S) /\ \A key \in KeysOf(tail) : \E i \in 1..(Len(s) - n) : key = s[n + i].key
  <2>1. tail \in [1..(Len(s) - n) -> Candidate(S)] BY <1>8, <1>9
  <2>2. tail \in Seq(Candidate(S))
    <3>1. Len(s) - n \in Nat BY <1>1
    <3>. QED BY <2>1, <3>1, SeqDef
  <2>. HIDE DEF tail
  <2>3. \A i, j \in 1..(Len(s) - n) : tail[i].key = tail[j].key => i = j
    <3> TAKE i, j \in 1..(Len(s) - n)
    <3>1. n + i \in DOMAIN s /\ n + j \in DOMAIN s BY <1>1
    <3>2. s[n + i].key = s[n + j].key => n + i = n + j BY <3>1 DEF Ranking
    <3>. QED BY <1>1, <1>8, <3>2
  <2>. QED BY <1>8, <1>9, <2>2, <2>3 DEF Ranking, KeysOf
<1>. HIDE DEF tail
<1>11. KeysOf(head) \cap KeysOf(tail) = {}
  <2> SUFFICES ASSUME NEW i \in 1..n, NEW j \in 1..(Len(s) - n), s[i].key = s[n + j].key PROVE FALSE
    BY <1>6, <1>10
  <2>1. i \in DOMAIN s /\ n + j \in DOMAIN s /\ i # n + j BY <1>1
  <2>. QED BY <2>1 DEF Ranking
<1>12. Ranking(ByScore(head), S) /\ KeysOf(ByScore(head)) = KeysOf(head) BY <1>6, ByScoreRanks
<1>13. Reranked(s, scoring, ce) = ByScore(head) \o tail
  BY DEF Reranked, head, tail, floor, score
<1>14. KeysOf(head) \subseteq KeysOf(s)
  <2>1. \A i \in 1..n : i \in DOMAIN s /\ head[i].key = s[i].key BY <1>1, <1>4
  <2>. QED BY <1>5, <2>1 DEF KeysOf
<1>15. KeysOf(tail) \subseteq KeysOf(s)
  <2>1. \A i \in 1..(Len(s) - n) : n + i \in DOMAIN s BY <1>1
  <2>. QED BY <1>10, <2>1 DEF KeysOf
<1>. QED BY <1>10, <1>11, <1>12, <1>13, <1>14, <1>15, Joined

LEMMA RerankingsRank ==
  ASSUME NEW S, NEW s, Ranking(s, S), NEW t \in Rerankings(s)
  PROVE  Ranking(t, S) /\ KeysOf(t) \subseteq KeysOf(s)
<1>1. CASE t = s BY <1>1
<1>2. CASE t # s
  <2>1. HeadLen(s) # 0 BY <1>2 DEF Rerankings
  <2>2. PICK scoring \in Scorings, ce \in [1..HeadLen(s) -> Relevances] : t = Reranked(s, scoring, ce)
    BY <1>2, <2>1 DEF Rerankings
  <2>. QED BY <2>1, <2>2, RerankedRanks
<1>. QED BY <1>1, <1>2

LEMMA DiverseRanks ==
  ASSUME NEW S, NEW s, Ranking(s, S), NEW t \in Diverse(s)
  PROVE  Ranking(t, S) /\ KeysOf(t) \subseteq KeysOf(s) /\ Len(t) <= HitCount
<1> DEFINE n == Min({HitCount, Len(s)})
<1>1. n \in Nat /\ n <= HitCount
  <2>1. HitCount \in Nat /\ Len(s) \in Nat BY RetrievalAssumption, RankingDomain
  <2>. QED BY <2>1, MinOfTwo
<1>2. PICK p \in [1..n -> DOMAIN s] :
        /\ t = [i \in DOMAIN p |-> s[p[i]]]
        /\ \A i \in 1..n : p[i] \notin {p[m] : m \in 1..(i - 1)}
  BY DEF Diverse
<1>. HIDE DEF n
<1>3. p \in Injection(1..n, DOMAIN s)
  <2>1. \A i, j \in 1..n : i < j => p[i] # p[j]
    <3> SUFFICES ASSUME NEW i \in 1..n, NEW j \in 1..n, i < j PROVE p[i] # p[j]
      OBVIOUS
    <3>1. i \in 1..(j - 1) BY <1>1
    <3>. QED BY <1>2, <3>1
  <2>2. \A i, j \in 1..n : p[i] = p[j] => i = j BY <1>1, <2>1
  <2>. QED BY <2>2 DEF Injection, IsInjective
<1>4. t = [i \in 1..n |-> s[p[i]]] BY <1>2
<1>5. LET u == [i \in 1..n |-> s[p[i]]]
      IN  Ranking(u, S) /\ Len(u) = n /\ KeysOf(u) \subseteq KeysOf(s)
  BY <1>1, <1>3, Rearranged
<1>. QED BY <1>1, <1>4, <1>5

-----------------------------------------------------------------------------
(* Following supersession.                                                   *)
LEMMA RaisedRanks ==
  ASSUME NEW S, NEW s, Ranking(s, S), NEW i \in DOMAIN s, NEW key
  PROVE  /\ Ranking(Raised(s, i, key), S) /\ Len(Raised(s, i, key)) = Len(s)
         /\ KeysOf(Raised(s, i, key)) = KeysOf(s)
<1> DEFINE t == Raised(s, i, key)
<1>1. ASSUME NEW j \in DOMAIN s PROVE t[j] \in Candidate(S) /\ t[j].key = s[j].key
  <2>1. s[j] \in Candidate(S) BY DEF Ranking
  <2>2. s[j].score \in Int /\ s[i].score + 1 \in Int BY RankingDomain
  <2>3. Max({s[j].score, s[i].score + 1}) \in Int BY <2>2, MaxOfTwo
  <2>4. t[j] = IF s[j].key = key THEN [s[j] EXCEPT !.score = Max({s[j].score, s[i].score + 1})] ELSE s[j]
    BY <2>1 DEF Raised, Candidate
  <2>. QED BY <2>1, <2>3, <2>4 DEF Candidate
<1>2. DOMAIN t = DOMAIN s BY DEF Raised
<1>3. t \in [DOMAIN s -> Candidate(S)]
  <2>1. t = [j \in DOMAIN s |-> t[j]] BY DEF Raised
  <2>. QED BY <1>1, <2>1
<1>. QED BY <1>1, <1>3, Rescored

LEMMA AppendedRanks ==
  ASSUME NEW S, NEW s, Ranking(s, S), NEW key \in S, key \notin KeysOf(s)
  PROVE  LET t == Append(s, [key |-> key, score |-> 0])
         IN  Ranking(t, S) /\ Len(t) = Len(s) + 1 /\ KeysOf(t) = KeysOf(s) \cup {key}
<1> DEFINE one == <<[key |-> key, score |-> 0]>>
           t == Append(s, [key |-> key, score |-> 0])
<1>1. Ranking(one, S) /\ KeysOf(one) = {key} /\ Len(one) = 1 BY DEF Ranking, Candidate, KeysOf
<1>2. t = s \o one BY AppendIsConcat DEF Ranking, Candidate
<1>. HIDE DEF one, t
<1>3. KeysOf(s) \cap KeysOf(one) = {} BY <1>1
<1>4. \A u : Ranking(u, S) /\ KeysOf(s) \cap KeysOf(u) = {} =>
        /\ Ranking(s \o u, S) /\ Len(s \o u) = Len(s) + Len(u)
        /\ KeysOf(s \o u) = KeysOf(s) \cup KeysOf(u)
  BY Joined
<1>5. Ranking(t, S) /\ Len(t) = Len(s) + Len(one) /\ KeysOf(t) = KeysOf(s) \cup KeysOf(one)
  BY <1>1, <1>2, <1>3, <1>4
<1>6. Ranking(t, S) /\ Len(t) = Len(s) + 1 /\ KeysOf(t) = KeysOf(s) \cup {key}
  BY <1>1, <1>5
<1>. QED BY <1>6 DEF t

(* Of a list with at most HitCount pulled in memories HitCount are kept.     *)
LEMMA TrimRanks ==
  ASSUME NEW S, NEW s, Ranking(s, S), IsFiniteSet(pulled), Cardinality(pulled) <= HitCount
  PROVE  Ranking(Trim(s), S) /\ KeysOf(Trim(s)) \subseteq KeysOf(s) /\ Len(Trim(s)) <= HitCount
<1> DEFINE D == DOMAIN s
           others == {i \in D : s[i].key \notin pulled}
           beyond == Len(s) - HitCount
           Below(i) == {j \in others : j >= i}
           kept == {i \in D : i \notin others \/ Cardinality(Below(i)) > beyond}
           gone == {i \in others : Cardinality(Below(i)) <= beyond}
<1>1. /\ Len(s) \in Nat /\ D = 1..Len(s) /\ IsFiniteSet(D) /\ Cardinality(D) = Len(s)
      /\ HitCount \in Nat
  BY RankingDomain, RetrievalAssumption
<1>2. Trim(s) = Picked(s, kept) BY DEF Trim
<1>3. kept \in SUBSET D OBVIOUS
<1>4. IsFiniteSet(others) BY <1>1, FS_Subset
<1>5. Cardinality(others) \in Nat BY <1>4, FS_CardinalityType
<1>6. ASSUME NEW i \in others PROVE Cardinality(Below(i)) \in Nat
  <2>1. IsFiniteSet(Below(i)) BY <1>4, FS_Subset
  <2>. QED BY <2>1, FS_CardinalityType
<1>7. IsFiniteSet(kept) /\ Cardinality(kept) \in Nat /\ Cardinality(kept) <= Len(s)
  BY <1>1, <1>3, FS_Subset, FS_CardinalityType
<1>8. Cardinality(D \ others) <= HitCount
  <2> DEFINE g == [i \in D \ others |-> s[i].key]
  <2>1. g \in Injection(D \ others, pulled)
    <3>1. g \in [D \ others -> pulled] OBVIOUS
    <3>2. \A i, j \in D \ others : g[i] = g[j] => i = j BY DEF Ranking
    <3>. QED BY <3>1, <3>2 DEF Injection, IsInjective
  <2>2. Cardinality(D \ others) <= Cardinality(pulled) BY <2>1, FS_Injection
  <2>3. IsFiniteSet(D \ others) BY <1>1, FS_Difference
  <2>4. Cardinality(D \ others) \in Nat /\ Cardinality(pulled) \in Nat BY <2>3, FS_CardinalityType
  <2>. QED BY <1>1, <2>2, <2>4
<1>9. Cardinality(kept) <= HitCount
  <2>1. CASE beyond <= 0 BY <1>1, <1>7, <2>1
  <2>2. CASE beyond > 0
    <3>1. Cardinality(D \ others) = Len(s) - Cardinality(others)
      <4>1. D \cap others = others OBVIOUS
      <4>. HIDE DEF others, D
      <4>2. Cardinality(D \ others) = Cardinality(D) - Cardinality(D \cap others) BY <1>1, FS_Difference
      <4>. QED BY <1>1, <4>1, <4>2
    <3>2. beyond \in Nat /\ beyond <= Cardinality(others) BY <1>1, <1>5, <1>8, <2>2, <3>1
    <3>3. others \in SUBSET Nat BY <1>1
    <3>. HIDE DEF beyond, others
    <3>4. IsFiniteSet(gone) /\ Cardinality(gone) >= beyond BY <1>4, <3>2, <3>3, LastPlaces
    <3>. HIDE DEF Below
    <3>5. kept \subseteq D \ gone
      <4> SUFFICES ASSUME NEW i \in kept, i \in gone PROVE FALSE OBVIOUS
      <4>. QED BY <1>6, <3>2
    <3>6. D \cap gone = gone BY DEF others
    <3>7. Cardinality(gone) \in Nat BY <3>4, FS_CardinalityType
    <3>. HIDE DEF kept, gone, D
    <3>8. IsFiniteSet(D \ gone) /\ Cardinality(D \ gone) = Len(s) - Cardinality(gone)
      <4>1. IsFiniteSet(D) /\ Cardinality(D) = Len(s) BY <1>1
      <4>2. /\ IsFiniteSet(D \ gone)
            /\ Cardinality(D \ gone) = Cardinality(D) - Cardinality(D \cap gone)
        BY <4>1, FS_Difference
      <4>. QED BY <3>6, <4>1, <4>2
    <3>9. Cardinality(kept) <= Cardinality(D \ gone) BY <3>5, <3>8, FS_Subset
    <3>. QED BY <1>1, <1>7, <3>2, <3>4, <3>7, <3>8, <3>9 DEF beyond
  <2>. QED BY <1>1, <2>1, <2>2
<1>. HIDE DEF kept
<1>10. KeysOf(Trim(s)) = {s[i].key : i \in kept} BY <1>2, <1>3, PickedRanks
<1>. QED BY <1>2, <1>3, <1>9, <1>10, PickedRanks DEF KeysOf

-----------------------------------------------------------------------------
(* What may be answered, and what a call knows on its way there.             *)
Scope == {m \in Readable : m \in before => m \in lagging}

RetrievalTypeOK ==
  /\ pc \in {"enrich", "lexical", "vector", "graph", "rank", "links", "follow",
             "assemble", "refresh", "brief", "done"}
  /\ forgotten \subseteq Memories /\ before \subseteq forgotten /\ indexed \subseteq forgotten
  /\ withdrawn \subseteq indexed \cap before /\ lagging \subseteq before \ withdrawn
  /\ pc = "enrich" => before = forgotten /\ lagging = {}
  /\ newer \in [Memories -> Memories \cup {NoMemory}]
  /\ link \in [Memories -> Memories \cup {NoMemory, Unread, Gone}]
  /\ follow \in [cand : Nat, key : Memories \cup {NoMemory}, hops : Int,
                 current : Memories \cup {NoMemory}]
  /\ pulled \subseteq Memories
  /\ "hits" \in DOMAIN answer

(* Nothing is gathered before the call knows what was forgotten.             *)
CandidatesInScope ==
  /\ ArmLists(lists, Scope) /\ Ranking(pool, Scope)
  /\ pc = "enrich" => lists = <<>> /\ pool = <<>>

CandidatesInView ==
  pc \in {"links", "follow", "assemble", "refresh", "brief"} =>
    \A key \in KeysOf(pool) : InView(At[key])

(* What was pulled in stands in the list beside at most HitCount selected,   *)
(* at most one for each candidate concluded.                                *)
PulledIn ==
  /\ pc \in {"enrich", "lexical", "vector", "graph", "rank", "links"} => pulled = {}
  /\ pc = "links" => Len(pool) <= HitCount
  /\ pc = "follow" =>
       /\ pulled \subseteq KeysOf(pool)
       /\ Selected <= HitCount
       /\ Cardinality(pulled) < follow.cand /\ follow.cand <= Selected + 1
       /\ follow.key # NoMemory => follow.cand <= Selected
  /\ pc = "assemble" => Len(pool) <= HitCount

(* A link that was read is a link of a memory the call may answer with.      *)
LinksInScope ==
  pc = "follow" =>
    /\ \A m \in Memories : link[m] \notin {Unread, Gone} => m \in Scope
    /\ follow.current # NoMemory => follow.current \in Scope /\ InView(At[follow.current])

AnswerSound ==
  /\ ~Answered => answer = NoAnswer
  /\ HitsInView

RetrievalInv ==
  RetrievalTypeOK /\ CandidatesInScope /\ CandidatesInView /\ PulledIn /\ LinksInScope /\ AnswerSound

LEMMA NothingRanks == ASSUME NEW S PROVE ArmLists(<<>>, S) /\ Ranking(<<>>, S)
BY DEF ArmLists, Ranking

LEMMA NoHits == IsInjective(<<>>) /\ Len(<<>>) = 0 /\ Range(<<>>) = {} /\ KeysOf(<<>>) = {}
BY DEF IsInjective, Range, KeysOf

LEMMA RetrievalInitInv == RetrievalInit => RetrievalInv
<1>. SUFFICES ASSUME RetrievalInit PROVE RetrievalInv OBVIOUS
<1>. USE DEF RetrievalInit
<1>1. RetrievalTypeOK BY DEF RetrievalTypeOK, NothingFollowed, NoAnswer
<1>2. CandidatesInScope BY NothingRanks DEF CandidatesInScope
<1>3. CandidatesInView /\ PulledIn /\ LinksInScope /\ AnswerSound
  BY DEF CandidatesInView, PulledIn, LinksInScope, AnswerSound, Answered, HitsInView
<1>. QED BY <1>1, <1>2, <1>3 DEF RetrievalInv

LEMMA VisibleInScope == ASSUME RetrievalInv PROVE Visible \subseteq Scope
BY DEF RetrievalInv, RetrievalTypeOK, Visible, Scope

LEMMA RowsFromRows ==
  ASSUME NEW S, NEW T, S \subseteq T, NEW rows \in RowsFrom(S)
  PROVE  rows \in Seq(T) /\ IsInjective(rows)
<1> DEFINE size == IF lookups = 1 THEN PoolSize ELSE HopPoolSize
<1>1. size \in Nat BY RetrievalAssumption
<1>2. PICK n \in 0..size : rows \in [1..n -> S] BY DEF RowsFrom
<1>3. rows \in [1..n -> T] /\ n \in Nat BY <1>1, <1>2
<1>. QED BY <1>3, SeqDef DEF RowsFrom

LEMMA ArmListsAppend ==
  ASSUME NEW S, NEW ranked, ArmLists(ranked, S), NEW arm \in Arms,
         NEW rows \in Seq(S), IsInjective(rows)
  PROVE  ArmLists(Append(ranked, ListOf(arm, rows)), S)
<1> DEFINE Lists == [arm : Arms, rows : Seq(S)]
           t == Append(ranked, ListOf(arm, rows))
<1>1. ranked \in Seq(Lists) BY DEF ArmLists
<1>2. ListOf(arm, rows) \in Lists /\ ListOf(arm, rows).rows = rows BY DEF ListOf
<1>. HIDE DEF Lists
<1>3. t \in Seq(Lists) /\ Len(t) = Len(ranked) + 1 /\ DOMAIN t = 1..(Len(ranked) + 1)
  BY <1>1, <1>2, AppendProperties
<1>4. \A i \in DOMAIN t : IF i \in DOMAIN ranked THEN t[i] = ranked[i] ELSE t[i] = ListOf(arm, rows)
  BY <1>1, <1>2, <1>3, AppendProperties
<1>5. \A i \in DOMAIN t : IsInjective(t[i].rows) BY <1>2, <1>4 DEF ArmLists
<1>. QED BY <1>3, <1>5 DEF ArmLists, Lists

-----------------------------------------------------------------------------
(* Each action keeps the invariant.                                          *)
LEMMA OthersKeep ==
  ASSUME RetrievalInv, NEW m \in Memories,
         Forgotten(m) \/ ViewCatchesUp(m) \/ \E n \in Memories : Superseded(m, n)
  PROVE  RetrievalInv'
<1>1. UNCHANGED callVars BY DEF Forgotten, ViewCatchesUp, Superseded
<1>2. RetrievalTypeOK'
  <2>1. CASE Forgotten(m)
    BY <1>1, <2>1 DEF RetrievalInv, RetrievalTypeOK, Forgotten, callVars
  <2>2. CASE ViewCatchesUp(m)
    BY <1>1, <2>2 DEF RetrievalInv, RetrievalTypeOK, ViewCatchesUp, callVars
  <2>3. CASE \E n \in Memories : Superseded(m, n)
    <3>1. PICK n \in Memories : Superseded(m, n) BY <2>3
    <3>2. newer' \in [Memories -> Memories \cup {NoMemory}]
      BY <3>1 DEF Superseded, RetrievalInv, RetrievalTypeOK
    <3>. QED BY <1>1, <3>1, <3>2 DEF RetrievalInv, RetrievalTypeOK, Superseded, callVars
  <2>. QED BY <2>1, <2>2, <2>3
<1>3. CASE pc = "enrich"
  <2>1. CandidatesInScope' BY <1>1, <1>3, NothingRanks DEF RetrievalInv, CandidatesInScope, callVars
  <2>2. CandidatesInView' /\ PulledIn' /\ LinksInScope' /\ AnswerSound'
    BY <1>1, <1>3 DEF RetrievalInv, CandidatesInView, PulledIn, LinksInScope, AnswerSound,
                      Answered, HitsInView, callVars
  <2>. QED BY <1>2, <2>1, <2>2 DEF RetrievalInv
<1>4. CASE pc # "enrich"
  <2>1. before' = before /\ withdrawn' = withdrawn
    BY <1>4 DEF Forgotten, ViewCatchesUp, Superseded
  <2>2. Scope' = Scope /\ Selected' = Selected /\ Answered' = Answered /\ Hits' = Hits
    BY <1>1, <2>1 DEF Scope, Selected, Answered, Hits, callVars
  <2>3. CandidatesInScope' /\ CandidatesInView' /\ PulledIn'
    BY <1>1, <2>1, <2>2 DEF RetrievalInv, CandidatesInScope, CandidatesInView, PulledIn, InView,
                            callVars
  <2>4. LinksInScope' /\ AnswerSound'
    BY <1>1, <2>1, <2>2 DEF RetrievalInv, LinksInScope, AnswerSound, HitsInView, InView, callVars
  <2>. QED BY <1>2, <2>3, <2>4 DEF RetrievalInv
<1>. QED BY <1>3, <1>4

LEMMA EmptyKeeps == ASSUME RetrievalInv, Empty PROVE RetrievalInv'
<1>. USE DEF Empty, Gathered, Selection, Others
<1>1. RetrievalTypeOK' BY DEF RetrievalInv, RetrievalTypeOK, NoAnswer
<1>2. Scope' = Scope BY DEF Scope
<1>3. CandidatesInScope' /\ CandidatesInView' /\ PulledIn' /\ LinksInScope'
  BY <1>2 DEF RetrievalInv, CandidatesInScope, CandidatesInView, PulledIn, LinksInScope
<1>4. AnswerSound'
  <2>1. answer'.hits = <<>> BY DEF NoAnswer
  <2>2. HitCount \in Nat BY RetrievalAssumption
  <2>. QED BY <2>1, <2>2, NoHits DEF AnswerSound, Answered, HitsInView, Hits
<1>. QED BY <1>1, <1>3, <1>4 DEF RetrievalInv

LEMMA RankingWidens ==
  ASSUME NEW S, NEW T, S \subseteq T, NEW s, Ranking(s, S) PROVE Ranking(s, T)
<1>1. s \in Seq(Candidate(S)) BY DEF Ranking
<1>2. Candidate(S) \subseteq Candidate(T) BY DEF Candidate
<1>. HIDE DEF Candidate
<1>3. s \in Seq(Candidate(T)) BY <1>1, <1>2, SeqDef
<1>. QED BY <1>3 DEF Ranking

(* Up to the selection nothing is pulled in or answered; what the view matches *)
(* widens what may be.                                                       *)
LEMMA GatheringKeeps ==
  ASSUME RetrievalInv, pc \in {"enrich", "lexical", "vector", "graph"},
         pc' \in {"lexical", "vector", "graph", "rank"},
         UNCHANGED <<asOf, answer, Selection, Others>>, lagging' \subseteq before \ withdrawn,
         ArmLists(lists', Scope'), Ranking(pool', Scope')
  PROVE  RetrievalInv'
<1>. USE DEF Selection, Others
<1>1. RetrievalTypeOK' BY DEF RetrievalInv, RetrievalTypeOK
<1>2. CandidatesInScope' BY DEF CandidatesInScope
<1>3. CandidatesInView' /\ PulledIn' /\ LinksInScope' /\ AnswerSound'
  BY DEF RetrievalInv, CandidatesInView, PulledIn, LinksInScope, AnswerSound, Answered, HitsInView
<1>. QED BY <1>1, <1>2, <1>3 DEF RetrievalInv

(* The other steps up to there match nothing in the view.                    *)
LEMMA GatheringOnKeeps ==
  ASSUME RetrievalInv, pc \in {"enrich", "lexical", "vector", "graph"},
         pc' \in {"lexical", "vector", "graph", "rank"},
         UNCHANGED <<asOf, lagging, answer, Selection, Others>>,
         ArmLists(lists', Scope), Ranking(pool', Scope)
  PROVE  RetrievalInv'
<1>1. Scope' = Scope BY DEF Scope, Others
<1>2. lagging' \subseteq before \ withdrawn BY DEF RetrievalInv, RetrievalTypeOK
<1>. QED BY <1>1, <1>2, GatheringKeeps

LEMMA EnrichKeeps == ASSUME RetrievalInv, Enrich PROVE RetrievalInv'
BY GatheringOnKeeps DEF Enrich, RetrievalInv, CandidatesInScope, Selection, Others

(* A row forgotten before the call is one the view still shows.              *)
LEMMA LexicalArmKeeps == ASSUME RetrievalInv, LexicalArm PROVE RetrievalInv'
<1>1. PICK rows \in RowsFrom(Readable \ indexed) :
        /\ lists' = <<ListOf("bm25", rows)>>
        /\ lagging' = lagging \cup (Range(rows) \cap before)
  BY DEF LexicalArm, MatchingRows
<1>2. /\ pc = "lexical" /\ pc' = "vector"
      /\ UNCHANGED <<asOf, pool, answer, Selection, Others>>
  BY DEF LexicalArm
<1>3. /\ lagging \subseteq before \ withdrawn /\ withdrawn \subseteq indexed
      /\ ArmLists(lists, Scope) /\ Ranking(pool, Scope)
  BY DEF RetrievalInv, RetrievalTypeOK, CandidatesInScope
<1>4. rows \in Seq(Readable \ indexed) /\ IsInjective(rows) BY RowsFromRows
<1>5. \A i \in 1..Len(rows) : rows[i] \in Readable \ indexed /\ rows[i] \in Range(rows)
  BY <1>4 DEF Range
<1>6. \A i \in 1..Len(rows) : rows[i] \in Scope'
  BY <1>1, <1>2, <1>5 DEF Scope, Others
<1>7. rows \in Seq(Scope') BY <1>4, <1>6, SeqDef
<1>8. lists' = Append(<<>>, ListOf("bm25", rows)) BY <1>1
<1>9. ArmLists(lists', Scope') BY <1>4, <1>7, <1>8, NothingRanks, ArmListsAppend DEF Arms
<1>10. Ranking(pool', Scope')
  <2>1. Scope \subseteq Scope' BY <1>1, <1>2 DEF Scope, Others
  <2>. QED BY <1>2, <1>3, <2>1, RankingWidens
<1>11. lagging' \subseteq before \ withdrawn BY <1>1, <1>3, <1>4, <1>5 DEF Range
<1>. QED BY <1>2, <1>9, <1>10, <1>11, GatheringKeeps

LEMMA VectorArmKeeps == ASSUME RetrievalInv, VectorArm PROVE RetrievalInv'
<1>1. ArmLists(lists, Scope) BY DEF RetrievalInv, CandidatesInScope
<1>2. ArmLists(lists', Scope)
  <2>1. CASE WithoutVector BY <1>1, <2>1 DEF WithoutVector
  <2>2. CASE \E rows \in NearRows : lists' = Append(lists, ListOf("vector", rows))
    <3>1. PICK rows \in RowsFrom(Visible) : lists' = Append(lists, ListOf("vector", rows))
      BY <2>2 DEF NearRows
    <3>2. rows \in Seq(Scope) /\ IsInjective(rows) BY VisibleInScope, RowsFromRows
    <3>. QED BY <1>1, <3>1, <3>2, ArmListsAppend DEF Arms
  <2>. QED BY <2>1, <2>2 DEF VectorArm
<1>. QED BY <1>2, GatheringOnKeeps DEF VectorArm, RetrievalInv, CandidatesInScope

LEMMA GraphArmKeeps == ASSUME RetrievalInv, GraphArm PROVE RetrievalInv'
<1>1. ArmLists(lists, Scope) /\ Ranking(pool, Scope) /\ Scope \in SUBSET Memories
  BY RetrievalAssumption DEF RetrievalInv, CandidatesInScope, Scope
<1>2. PICK rows \in LinkedRows :
        LET ranked == Fused(IF rows = <<>> THEN lists ELSE Append(lists, ListOf("graph", rows)))
        IN pool' = IF lookups = 1 THEN ranked
                   ELSE IF queries = 1 THEN ByScore(Merged(pool, ranked)) ELSE Merged(pool, ranked)
  BY DEF GraphArm
<1> DEFINE gathered == IF rows = <<>> THEN lists ELSE Append(lists, ListOf("graph", rows))
<1>3. rows \in Seq(Scope) /\ IsInjective(rows)
  <2> DEFINE S == IF SeedKeys = {} THEN {} ELSE Visible \ SeedKeys
  <2>1. S \subseteq Scope BY VisibleInScope
  <2>2. rows \in RowsFrom(S) BY DEF LinkedRows
  <2>. HIDE DEF S
  <2>. QED BY <2>1, <2>2, RowsFromRows
<1>4. ArmLists(gathered, Scope) BY <1>1, <1>3, ArmListsAppend DEF Arms
<1>. HIDE DEF gathered
<1>5. Ranking(Fused(gathered), Scope) BY <1>1, <1>4, FusedRanks
<1>6. Ranking(Merged(pool, Fused(gathered)), Scope) BY <1>1, <1>5, MergedRanks
<1>7. Ranking(ByScore(Merged(pool, Fused(gathered))), Scope) BY <1>6, ByScoreRanks
<1>8. Ranking(pool', Scope) BY <1>2, <1>5, <1>6, <1>7 DEF gathered
<1>9. ArmLists(lists', Scope) BY NothingRanks DEF GraphArm
<1>10. /\ pc = "graph" /\ pc' \in {"lexical", "rank"}
       /\ UNCHANGED <<asOf, lagging, answer, Selection, Others>>
  BY DEF GraphArm
<1>. QED BY <1>8, <1>9, <1>10, GatheringOnKeeps

LEMMA RankKeeps == ASSUME RetrievalInv, Rank PROVE RetrievalInv'
<1> DEFINE seen == TimeView(asOf', pool)
<1>1. /\ pc = "rank" /\ Scope' = Scope /\ pulled' = {} /\ follow' = follow /\ link' = link
      /\ lists' = lists /\ forgotten' = forgotten /\ before' = before /\ newer' = newer
      /\ indexed' = indexed /\ withdrawn' = withdrawn /\ lagging' = lagging
      /\ answer' = answer /\ answer = NoAnswer
  BY DEF Rank, Gathered, Selection, Others, Scope, RetrievalInv, PulledIn, AnswerSound, Answered
<1>2. ArmLists(lists', Scope) /\ Ranking(pool, Scope)
  BY <1>1 DEF RetrievalInv, CandidatesInScope
<1>3. /\ Ranking(seen, Scope) /\ \A key \in KeysOf(seen) : InViewOf(asOf', At[key])
  BY <1>2, TimeViewRanks
<1>. HIDE DEF seen
<1>4. CASE seen = <<>>
  <2>1. pc' = "done" /\ pool' = <<>> BY <1>4 DEF Rank, seen
  <2>2. RetrievalTypeOK' BY <1>1, <2>1 DEF RetrievalInv, RetrievalTypeOK
  <2>3. CandidatesInScope' BY <1>1, <1>2, <2>1, NothingRanks DEF CandidatesInScope
  <2>4. CandidatesInView' /\ PulledIn' /\ LinksInScope'
    BY <2>1 DEF CandidatesInView, PulledIn, LinksInScope
  <2>5. AnswerSound'
    <3>1. answer'.hits = <<>> /\ HitCount \in Nat BY <1>1, RetrievalAssumption DEF NoAnswer
    <3>. QED BY <2>1, <3>1, NoHits DEF AnswerSound, Answered, HitsInView, Hits
  <2>. QED BY <2>2, <2>3, <2>4, <2>5 DEF RetrievalInv
<1>5. CASE seen # <<>>
  <2>1. pc' = "links" BY <1>5 DEF Rank, seen
  <2>2. PICK s \in Rerankings(seen) : \E t \in Diverse(s) : pool' = ByScore(t)
    BY <1>5 DEF Rank, seen
  <2>11. PICK t \in Diverse(s) : pool' = ByScore(t) BY <2>2
  <2>3. Ranking(s, Scope) /\ KeysOf(s) \subseteq KeysOf(seen) BY <1>3, RerankingsRank
  <2>4. Ranking(t, Scope) /\ KeysOf(t) \subseteq KeysOf(s) /\ Len(t) <= HitCount
    BY <2>3, DiverseRanks
  <2>5. Ranking(pool', Scope) /\ Len(pool') <= HitCount /\ KeysOf(pool') \subseteq KeysOf(seen)
    BY <2>11, <2>3, <2>4, ByScoreRanks
  <2>6. RetrievalTypeOK' BY <1>1, <2>1 DEF RetrievalInv, RetrievalTypeOK
  <2>7. CandidatesInScope' BY <1>1, <1>2, <2>1, <2>5 DEF CandidatesInScope
  <2>8. CandidatesInView'
    <3>1. \A key \in KeysOf(pool') : InViewOf(asOf', At[key]) BY <1>3, <2>5
    <3>. QED BY <3>1 DEF CandidatesInView, InView, KeysOf
  <2>9. PulledIn' /\ LinksInScope' BY <1>1, <2>1, <2>5 DEF PulledIn, LinksInScope
  <2>10. AnswerSound' BY <1>1, <2>1 DEF AnswerSound, Answered, HitsInView
  <2>. QED BY <2>6, <2>7, <2>8, <2>9, <2>10 DEF RetrievalInv
<1>. QED BY <1>4, <1>5

LEMMA KeysInScope ==
  ASSUME RetrievalInv
  PROVE  /\ KeysOf(pool) \subseteq Scope /\ Len(pool) \in Nat /\ DOMAIN pool = 1..Len(pool)
         /\ Scope \subseteq Memories
<1>1. Ranking(pool, Scope) BY DEF RetrievalInv, CandidatesInScope
<1>. QED BY <1>1, RankingDomain, RetrievalAssumption DEF KeysOf, Scope

LEMMA ReadLinksKeeps == ASSUME RetrievalInv, ReadLinks PROVE RetrievalInv'
<1>1. /\ pc = "links" /\ pc' = "follow" /\ Scope' = Scope /\ pool' = pool /\ pulled' = pulled
      /\ asOf' = asOf /\ answer' = answer /\ lists' = lists
      /\ forgotten' = forgotten /\ before' = before /\ newer' = newer
      /\ indexed' = indexed /\ withdrawn' = withdrawn /\ lagging' = lagging
      /\ follow' = [cand |-> 1, key |-> NoMemory, hops |-> 0, current |-> NoMemory]
      /\ link' = [m \in Memories |-> IF m \in KeysOf(pool) THEN newer[m] ELSE Unread]
  BY DEF ReadLinks, Gathered, Others, Scope, NothingFollowed
<1>2. pulled = {} /\ Len(pool) <= HitCount BY <1>1 DEF RetrievalInv, PulledIn
<1>3. RetrievalTypeOK' BY <1>1 DEF RetrievalInv, RetrievalTypeOK
<1>4. CandidatesInScope' /\ CandidatesInView'
  BY <1>1 DEF RetrievalInv, CandidatesInScope, CandidatesInView, InView
<1>5. PulledIn'
  <2>1. Cardinality(pulled') = 0 BY <1>1, <1>2, FS_EmptySet
  <2>2. Selected' = Len(pool) BY <1>1, <2>1, KeysInScope DEF Selected
  <2>. QED BY <1>1, <1>2, <2>1, <2>2, KeysInScope DEF PulledIn
<1>6. LinksInScope' BY <1>1, KeysInScope DEF LinksInScope
<1>7. AnswerSound' BY <1>1 DEF RetrievalInv, AnswerSound, Answered, HitsInView
<1>. QED BY <1>3, <1>4, <1>5, <1>6, <1>7 DEF RetrievalInv

LEMMA SelectedIsNat ==
  ASSUME RetrievalInv
  PROVE  IsFiniteSet(pulled) /\ Cardinality(pulled) \in Nat /\ Selected \in Int
<1>1. IsFiniteSet(pulled)
  BY RetrievalAssumption, FS_Subset DEF RetrievalInv, RetrievalTypeOK
<1>2. Cardinality(pulled) \in Nat BY <1>1, FS_CardinalityType
<1>. QED BY <1>1, <1>2, KeysInScope DEF Selected

LEMMA TurnToKeeps == ASSUME RetrievalInv, TurnTo PROVE RetrievalInv'
<1> DEFINE m == pool[follow.cand].key
<1>1. /\ pc = "follow" /\ pc' = pc /\ Scope' = Scope /\ Selected' = Selected
      /\ pool' = pool /\ pulled' = pulled /\ link' = link
      /\ asOf' = asOf /\ answer' = answer /\ lists' = lists
      /\ forgotten' = forgotten /\ before' = before /\ newer' = newer
      /\ indexed' = indexed /\ withdrawn' = withdrawn /\ lagging' = lagging
      /\ follow.cand <= Selected /\ follow.key = NoMemory
      /\ follow' = IF HasNewer(m) THEN [follow EXCEPT !.key = link[m]]
                   ELSE [follow EXCEPT !.cand = @ + 1]
  BY DEF TurnTo, Gathered, Others, Scope, Selected
<1>2. follow \in [cand : Nat, key : Memories \cup {NoMemory}, hops : Int,
                  current : Memories \cup {NoMemory}]
  BY DEF RetrievalInv, RetrievalTypeOK
<1>. HIDE DEF m
<1>3. CASE HasNewer(m)
  <2>1. follow' = [follow EXCEPT !.key = link[m]] /\ link[m] \in Memories
    BY <1>1, <1>3 DEF HasNewer
  <2>2. /\ follow'.cand = follow.cand /\ follow'.key \in Memories /\ follow'.current = follow.current
        /\ follow' \in [cand : Nat, key : Memories \cup {NoMemory}, hops : Int,
                        current : Memories \cup {NoMemory}]
    BY <1>2, <2>1
  <2>3. RetrievalTypeOK' BY <1>1, <2>2 DEF RetrievalInv, RetrievalTypeOK
  <2>4. CandidatesInScope' /\ CandidatesInView'
    BY <1>1 DEF RetrievalInv, CandidatesInScope, CandidatesInView, InView
  <2>5. PulledIn' BY <1>1, <2>2 DEF RetrievalInv, PulledIn
  <2>6. LinksInScope' BY <1>1, <2>2 DEF RetrievalInv, LinksInScope, InView
  <2>7. AnswerSound' BY <1>1 DEF RetrievalInv, AnswerSound, Answered, HitsInView
  <2>. QED BY <2>3, <2>4, <2>5, <2>6, <2>7 DEF RetrievalInv
<1>4. CASE ~HasNewer(m)
  <2>1. follow' = [follow EXCEPT !.cand = @ + 1] BY <1>1, <1>4
  <2>2. /\ follow'.cand = follow.cand + 1 /\ follow'.key = NoMemory /\ follow'.current = follow.current
        /\ follow' \in [cand : Nat, key : Memories \cup {NoMemory}, hops : Int,
                        current : Memories \cup {NoMemory}]
    BY <1>1, <1>2, <2>1
  <2>3. RetrievalTypeOK' BY <1>1, <2>2 DEF RetrievalInv, RetrievalTypeOK
  <2>4. CandidatesInScope' /\ CandidatesInView'
    BY <1>1 DEF RetrievalInv, CandidatesInScope, CandidatesInView, InView
  <2>5. PulledIn'
    <3>1. follow.cand \in Nat /\ Selected \in Int /\ Cardinality(pulled) \in Nat
      BY <1>2, SelectedIsNat
    <3>. QED BY <1>1, <2>2, <3>1 DEF RetrievalInv, PulledIn
  <2>6. LinksInScope' BY <1>1, <2>2 DEF RetrievalInv, LinksInScope, InView
  <2>7. AnswerSound' BY <1>1 DEF RetrievalInv, AnswerSound, Answered, HitsInView
  <2>. QED BY <2>3, <2>4, <2>5, <2>6, <2>7 DEF RetrievalInv
<1>. QED BY <1>3, <1>4

LEMMA ConcludeKeeps ==
  ASSUME RetrievalInv, pc = "follow", follow.key # NoMemory,
         NEW current, current # NoMemory => current \in Scope /\ InView(At[current]),
         Conclude(current),
         link' \in [Memories -> Memories \cup {NoMemory, Unread, Gone}],
         \A x \in Memories : link'[x] \notin {Unread, Gone} => x \in Scope,
         UNCHANGED <<asOf, pc, Gathered, answer, accessed, Others>>
  PROVE  RetrievalInv'
<1>1. /\ pc' = "follow" /\ Scope' = Scope
      /\ asOf' = asOf /\ answer' = answer /\ lists' = lists
      /\ forgotten' = forgotten /\ before' = before /\ newer' = newer
      /\ indexed' = indexed /\ withdrawn' = withdrawn /\ lagging' = lagging
      /\ follow' = [cand |-> follow.cand + 1, key |-> NoMemory, hops |-> 0, current |-> NoMemory]
  BY DEF Conclude, Gathered, Others, Scope, NothingFollowed
<1>2. /\ follow.cand \in Nat /\ follow.cand <= Selected /\ Cardinality(pulled) < follow.cand
      /\ pulled \subseteq KeysOf(pool) /\ Selected <= HitCount /\ pulled \subseteq Memories
  BY DEF RetrievalInv, RetrievalTypeOK, PulledIn
<1>3. IsFiniteSet(pulled) /\ Cardinality(pulled) \in Nat /\ Selected \in Int BY SelectedIsNat
<1>4. follow.cand \in DOMAIN pool
  <2>1. Cardinality(pulled) >= 0 /\ Len(pool) \in Nat /\ DOMAIN pool = 1..Len(pool)
    BY <1>3, KeysInScope
  <2>. QED BY <1>2, <1>3, <2>1 DEF Selected
<1>5. Ranking(pool, Scope) /\ \A key \in KeysOf(pool) : InView(At[key])
  BY DEF RetrievalInv, CandidatesInScope, CandidatesInView
<1>6. /\ Ranking(pool', Scope) /\ \A key \in KeysOf(pool') : InView(At[key])
      /\ pulled' \subseteq KeysOf(pool') /\ pulled' \subseteq Memories
      /\ Cardinality(pulled') <= Cardinality(pulled) + 1 /\ Selected' = Selected
      /\ Cardinality(pulled') \in Nat
  <2>1. CASE current = NoMemory
    <3>1. pool' = pool /\ pulled' = pulled BY <2>1 DEF Conclude
    <3>. QED BY <1>2, <1>3, <1>5, <3>1 DEF Selected
  <2>2. CASE current # NoMemory /\ current \in KeysOf(pool)
    <3>1. pool' = Raised(pool, follow.cand, current) /\ pulled' = pulled BY <2>2 DEF Conclude
    <3>2. Ranking(pool', Scope) /\ Len(pool') = Len(pool) /\ KeysOf(pool') = KeysOf(pool)
      BY <1>4, <1>5, <3>1, RaisedRanks
    <3>. QED BY <1>2, <1>3, <1>5, <3>1, <3>2 DEF Selected
  <2>3. CASE current # NoMemory /\ current \notin KeysOf(pool)
    <3> DEFINE longer == Append(pool, [key |-> current, score |-> 0])
    <3>1. pool' = Raised(longer, follow.cand, current) /\ pulled' = pulled \cup {current}
      BY <2>3 DEF Conclude
    <3>2. /\ Ranking(longer, Scope) /\ Len(longer) = Len(pool) + 1
          /\ KeysOf(longer) = KeysOf(pool) \cup {current}
      BY <1>5, <2>3, AppendedRanks
    <3>. HIDE DEF longer
    <3>3. follow.cand \in DOMAIN longer
      BY <1>4, <3>2, KeysInScope, RankingDomain
    <3>4. /\ Ranking(pool', Scope) /\ Len(pool') = Len(pool) + 1
          /\ KeysOf(pool') = KeysOf(pool) \cup {current}
      BY <3>1, <3>2, <3>3, RaisedRanks
    <3>5. Cardinality(pulled') = Cardinality(pulled) + 1
      BY <1>2, <1>3, <2>3, <3>1, FS_AddElement
    <3>6. Selected' = Selected
      BY <1>3, <3>4, <3>5, KeysInScope DEF Selected
    <3>7. \A key \in KeysOf(pool') : InView(At[key]) BY <1>5, <2>3, <3>4
    <3>8. pulled' \subseteq KeysOf(pool') /\ pulled' \subseteq Memories
      BY <1>2, <2>3, <3>1, <3>4, KeysInScope
    <3>. QED BY <1>3, <3>4, <3>5, <3>6, <3>7, <3>8
  <2>. QED BY <2>1, <2>2, <2>3
<1>7. RetrievalTypeOK' BY <1>1, <1>2, <1>6 DEF RetrievalInv, RetrievalTypeOK
<1>8. CandidatesInScope' BY <1>1, <1>6 DEF RetrievalInv, CandidatesInScope
<1>9. CandidatesInView' BY <1>1, <1>6 DEF CandidatesInView, InView
<1>10. PulledIn' BY <1>1, <1>2, <1>3, <1>6 DEF PulledIn
<1>11. LinksInScope' BY <1>1 DEF LinksInScope
<1>12. AnswerSound' BY <1>1 DEF RetrievalInv, AnswerSound, Answered, HitsInView
<1>. QED BY <1>7, <1>8, <1>9, <1>10, <1>11, <1>12 DEF RetrievalInv

LEMMA HopKeeps == ASSUME RetrievalInv, Hop PROVE RetrievalInv'
<1> DEFINE m == follow.key
           next == IF link[m] # Unread THEN link[m] ELSE IF Fetchable(m) THEN newer[m] ELSE Gone
           onward == next \in Memories /\ InView(At[m]) /\ InView(At[next]) /\ follow.hops + 1 < MaxHops
<1>1. /\ pc = "follow" /\ m # NoMemory /\ link' = [link EXCEPT ![m] = next]
      /\ UNCHANGED <<asOf, pc, Gathered, answer, accessed, Others>>
  BY DEF Hop
<1>2. /\ follow \in [cand : Nat, key : Memories \cup {NoMemory}, hops : Int,
                     current : Memories \cup {NoMemory}]
      /\ link \in [Memories -> Memories \cup {NoMemory, Unread, Gone}]
      /\ newer \in [Memories -> Memories \cup {NoMemory}]
  BY DEF RetrievalInv, RetrievalTypeOK
<1>3. m \in Memories BY <1>1, <1>2
<1>4. next \in Memories \cup {NoMemory, Gone} BY <1>2, <1>3
<1>5. next # Gone => m \in Scope
  <2>1. CASE link[m] # Unread BY <1>1, <1>3, <2>1 DEF RetrievalInv, LinksInScope
  <2>2. CASE link[m] = Unread BY <2>2, VisibleInScope DEF Fetchable
  <2>. QED BY <2>1, <2>2
<1>. HIDE DEF next
<1>6. link' \in [Memories -> Memories \cup {NoMemory, Unread, Gone}] BY <1>1, <1>2, <1>3, <1>4
<1>7. \A x \in Memories : link'[x] \notin {Unread, Gone} => x \in Scope
  <2>1. \A x \in Memories : link'[x] = IF x = m THEN next ELSE link[x] BY <1>1, <1>2
  <2>. QED BY <1>1, <1>5, <2>1 DEF RetrievalInv, LinksInScope
<1>8. CASE next = Gone \/ ~InView(At[m])
  <2>0. ~onward BY <1>8, RetrievalAssumption
  <2>1. Conclude(follow.current) BY <1>8, <2>0 DEF Hop, next
  <2>2. follow.current # NoMemory => follow.current \in Scope /\ InView(At[follow.current])
    BY <1>1 DEF RetrievalInv, LinksInScope
  <2>. QED BY <1>1, <1>6, <1>7, <2>1, <2>2, ConcludeKeeps
<1>9. CASE ~(next = Gone \/ ~InView(At[m])) /\ onward
  <2>1. /\ follow' = [follow EXCEPT !.key = next, !.hops = @ + 1, !.current = m]
        /\ UNCHANGED <<pool, pulled, stale>>
    BY <1>9 DEF Hop, next
  <2>2. /\ follow'.cand = follow.cand /\ follow'.key = next /\ follow'.current = m
        /\ follow' \in [cand : Nat, key : Memories \cup {NoMemory}, hops : Int,
                        current : Memories \cup {NoMemory}]
    <3>1. next \in Memories BY <1>9
    <3>2. follow' = [cand |-> follow.cand, key |-> next, hops |-> follow.hops + 1, current |-> m]
      BY <1>2, <2>1
    <3>3. follow.cand \in Nat /\ follow.hops + 1 \in Int BY <1>2
    <3>. HIDE DEF m
    <3>. QED BY <1>3, <3>1, <3>2, <3>3
  <2>3. Scope' = Scope /\ Selected' = Selected BY <1>1, <2>1 DEF Others, Gathered, Scope, Selected
  <2>4. RetrievalTypeOK'
    BY <1>1, <1>6, <2>1, <2>2 DEF RetrievalInv, RetrievalTypeOK, Others, Gathered
  <2>5. CandidatesInScope' /\ CandidatesInView'
    BY <1>1, <2>1, <2>3 DEF RetrievalInv, CandidatesInScope, CandidatesInView, InView, Gathered
  <2>6. PulledIn' BY <1>1, <2>1, <2>2, <2>3 DEF RetrievalInv, PulledIn
  <2>7. LinksInScope' BY <1>1, <1>5, <1>7, <1>9, <2>2, <2>3 DEF LinksInScope, InView
  <2>8. AnswerSound' BY <1>1 DEF RetrievalInv, AnswerSound, Answered, HitsInView
  <2>. QED BY <2>4, <2>5, <2>6, <2>7, <2>8 DEF RetrievalInv
<1>10. CASE ~(next = Gone \/ ~InView(At[m])) /\ ~onward
  <2>1. Conclude(m) BY <1>10 DEF Hop, next
  <2>2. m \in Scope /\ InView(At[m]) BY <1>5, <1>10
  <2>. QED BY <1>1, <1>6, <1>7, <2>1, <2>2, ConcludeKeeps
<1>. QED BY <1>8, <1>9, <1>10

LEMMA EndFollowKeeps == ASSUME RetrievalInv, EndFollow PROVE RetrievalInv'
<1> DEFINE kept == Trim(ByScore(pool))
<1>1. /\ pc = "follow" /\ pc' = "assemble" /\ Scope' = Scope
      /\ asOf' = asOf /\ answer' = answer /\ lists' = lists /\ link' = link /\ follow' = follow
      /\ pulled' = pulled /\ forgotten' = forgotten /\ before' = before /\ newer' = newer
      /\ indexed' = indexed /\ withdrawn' = withdrawn /\ lagging' = lagging
      /\ pool' = [i \in DOMAIN kept |-> [kept[i] EXCEPT !.score = 0]]
  BY DEF EndFollow, Gathered, Selection, Others, Scope
<1>2. Ranking(ByScore(pool), Scope) /\ KeysOf(ByScore(pool)) = KeysOf(pool)
  BY ByScoreRanks DEF RetrievalInv, CandidatesInScope
<1>3. IsFiniteSet(pulled) /\ Cardinality(pulled) <= HitCount
  <2>1. HitCount \in Nat /\ follow.cand \in Nat
    BY RetrievalAssumption DEF RetrievalInv, RetrievalTypeOK
  <2>. QED BY <1>1, <2>1, SelectedIsNat DEF RetrievalInv, PulledIn
<1>4. Ranking(kept, Scope) /\ KeysOf(kept) \subseteq KeysOf(pool) /\ Len(kept) <= HitCount
  BY <1>2, <1>3, TrimRanks
<1>. HIDE DEF kept
<1>5. Ranking(pool', Scope) /\ Len(pool') = Len(kept) /\ KeysOf(pool') = KeysOf(kept)
  <2>1. ASSUME NEW i \in DOMAIN kept
        PROVE  pool'[i] \in Candidate(Scope) /\ pool'[i].key = kept[i].key
    <3>1. kept[i] \in Candidate(Scope) BY <1>4 DEF Ranking
    <3>. QED BY <1>1, <3>1 DEF Candidate
  <2>2. pool' \in [DOMAIN kept -> Candidate(Scope)] BY <1>1, <2>1
  <2>. QED BY <1>4, <2>1, <2>2, Rescored
<1>6. RetrievalTypeOK' BY <1>1 DEF RetrievalInv, RetrievalTypeOK
<1>7. CandidatesInScope' BY <1>1, <1>5 DEF RetrievalInv, CandidatesInScope
<1>8. CandidatesInView'
  <2>1. \A key \in KeysOf(pool') : InView(At[key])
    BY <1>1, <1>4, <1>5 DEF RetrievalInv, CandidatesInView
  <2>. QED BY <1>1, <2>1 DEF CandidatesInView, InView
<1>9. PulledIn' /\ LinksInScope' BY <1>1, <1>4, <1>5 DEF PulledIn, LinksInScope
<1>10. AnswerSound' BY <1>1 DEF RetrievalInv, AnswerSound, Answered, HitsInView
<1>. QED BY <1>6, <1>7, <1>8, <1>9, <1>10 DEF RetrievalInv

LEMMA AssembleKeeps == ASSUME RetrievalInv, Assemble PROVE RetrievalInv'
<1>1. /\ pc = "assemble" /\ pc' = "refresh" /\ Scope' = Scope
      /\ asOf' = asOf /\ lists' = lists /\ link' = link /\ follow' = follow /\ pool' = pool
      /\ pulled' = pulled /\ forgotten' = forgotten /\ before' = before /\ newer' = newer
      /\ indexed' = indexed /\ withdrawn' = withdrawn /\ lagging' = lagging
  BY DEF Assemble, Gathered, Selection, Others, Scope
<1>2. "hits" \in DOMAIN answer' /\ answer'.hits = KeyList(pool)
  BY DEF Assemble
<1>3. RetrievalTypeOK' BY <1>1, <1>2 DEF RetrievalInv, RetrievalTypeOK
<1>4. CandidatesInScope' /\ CandidatesInView' /\ PulledIn' /\ LinksInScope'
  BY <1>1 DEF RetrievalInv, CandidatesInScope, CandidatesInView, PulledIn, LinksInScope, InView
<1>5. AnswerSound'
  <2>1. Ranking(pool, Scope) /\ Len(pool) <= HitCount /\ \A key \in KeysOf(pool) : InView(At[key])
    BY <1>1 DEF RetrievalInv, CandidatesInScope, CandidatesInView, PulledIn
  <2>2. IsInjective(KeyList(pool)) BY <2>1 DEF Ranking, KeyList, IsInjective
  <2>3. Range(KeyList(pool)) = KeysOf(pool) BY DEF Range, KeyList, KeysOf
  <2>4. Len(KeyList(pool)) = Len(pool) BY KeysInScope DEF KeyList
  <2>5. KeysOf(pool) \subseteq Readable \ withdrawn /\ KeysOf(pool) \cap before \subseteq lagging
    BY KeysInScope DEF RetrievalInv, RetrievalTypeOK, Scope
  <2>6. HitsInView'
    BY <1>1, <1>2, <2>1, <2>2, <2>3, <2>4, <2>5 DEF HitsInView, Hits, InView
  <2>. QED BY <1>1, <2>6 DEF AnswerSound, Answered
<1>. QED BY <1>3, <1>4, <1>5 DEF RetrievalInv

(* The last statements leave the hits alone.                                 *)
LEMMA AnsweredKeeps ==
  ASSUME RetrievalInv, pc \in {"refresh", "brief"}, pc' \in {"brief", "done"},
         "hits" \in DOMAIN answer', answer'.hits = answer.hits,
         UNCHANGED <<asOf, Gathered, pool, Selection, Others>>
  PROVE  RetrievalInv'
<1>. USE DEF Gathered, Selection, Others
<1>1. RetrievalTypeOK' BY DEF RetrievalInv, RetrievalTypeOK
<1>2. Scope' = Scope /\ Hits' = Hits BY DEF Scope, Hits
<1>3. CandidatesInScope' /\ CandidatesInView' /\ PulledIn' /\ LinksInScope'
  BY <1>2 DEF RetrievalInv, CandidatesInScope, CandidatesInView, PulledIn, LinksInScope, InView
<1>4. AnswerSound' BY <1>2 DEF RetrievalInv, AnswerSound, Answered, HitsInView, InView
<1>. QED BY <1>1, <1>3, <1>4 DEF RetrievalInv

LEMMA RefreshKeeps == ASSUME RetrievalInv, Refresh PROVE RetrievalInv'
BY AnsweredKeeps DEF Refresh, RetrievalInv, RetrievalTypeOK

LEMMA BriefKeeps == ASSUME RetrievalInv, Brief PROVE RetrievalInv'
<1>1. PICK include \in SUBSET Sections :
        LET shown == {s \in include : SectionCost(s) > 0}
        IN answer' = [answer EXCEPT !.sections = shown,
             !.brief = SumFunctionOnSet(HeadingCost, shown)
                         + SumFunctionOnSet([s \in Sections |-> SectionCost(s)], shown)]
  BY DEF Brief
<1>2. "hits" \in DOMAIN answer' /\ answer'.hits = answer.hits
  BY <1>1 DEF RetrievalInv, RetrievalTypeOK
<1>. QED BY <1>2, AnsweredKeeps DEF Brief

LEMMA RetrievalStep == RetrievalInv /\ [RetrievalNext]_retrievalVars => RetrievalInv'
<1>. SUFFICES ASSUME RetrievalInv, [RetrievalNext]_retrievalVars PROVE RetrievalInv' OBVIOUS
<1>1. CASE \E m \in Memories : Forgotten(m) \/ ViewCatchesUp(m) \/ \E n \in Memories : Superseded(m, n)
  BY <1>1, OthersKeep
<1>2. CASE GateSkips \/ Fault BY <1>2, EmptyKeeps DEF GateSkips, Fault
<1>3. CASE Enrich BY <1>3, EnrichKeeps
<1>4. CASE LexicalArm BY <1>4, LexicalArmKeeps
<1>5. CASE VectorArm BY <1>5, VectorArmKeeps
<1>6. CASE GraphArm BY <1>6, GraphArmKeeps
<1>7. CASE Rank BY <1>7, RankKeeps
<1>8. CASE ReadLinks BY <1>8, ReadLinksKeeps
<1>9. CASE TurnTo BY <1>9, TurnToKeeps
<1>10. CASE Hop BY <1>10, HopKeeps
<1>11. CASE EndFollow BY <1>11, EndFollowKeeps
<1>12. CASE Assemble BY <1>12, AssembleKeeps
<1>13. CASE Refresh BY <1>13, RefreshKeeps
<1>14. CASE Brief BY <1>14, BriefKeeps
<1>15. CASE UNCHANGED retrievalVars
  <2>. USE <1>15 DEF retrievalVars, callVars
  <2>1. RetrievalTypeOK' BY DEF RetrievalInv, RetrievalTypeOK
  <2>2. Scope' = Scope /\ Selected' = Selected /\ Answered' = Answered /\ Hits' = Hits
    BY DEF Scope, Selected, Answered, Hits
  <2>3. CandidatesInScope' /\ CandidatesInView' /\ PulledIn'
    BY <2>2 DEF RetrievalInv, CandidatesInScope, CandidatesInView, PulledIn, InView
  <2>4. LinksInScope' /\ AnswerSound'
    BY <2>2 DEF RetrievalInv, LinksInScope, AnswerSound, HitsInView, InView
  <2>. QED BY <2>1, <2>3, <2>4 DEF RetrievalInv
<1>. QED
  BY <1>1, <1>2, <1>3, <1>4, <1>5, <1>6, <1>7, <1>8, <1>9, <1>10, <1>11, <1>12, <1>13, <1>14, <1>15
  DEF RetrievalNext

(* Whatever others forget, link and index while a call runs, it answers with  *)
(* at most HitCount distinct memories of its reader and of the time asked for; *)
(* none that the search view had committed as forgotten when the call began,   *)
(* and of those it lagged behind on only what it matched itself (retrieve and  *)
(* _supersession, retrieve/search.py).                                        *)
THEOREM HitsAreInView == RetrievalSpec => []HitsInView
<1>1. RetrievalInv => HitsInView BY DEF RetrievalInv, AnswerSound
<1>. QED BY <1>1, RetrievalInitInv, RetrievalStep, PTL DEF RetrievalSpec
-----------------------------------------------------------------------------
(***************************************************************************)
(* Retrieval: what is packed stays within its budget, and what is left out  *)
(* would not have fitted.                                                   *)
(***************************************************************************)

LEMMA FiniteMax ==
  ASSUME NEW S \in SUBSET Int, IsFiniteSet(S), S # {}
  PROVE  Max(S) \in S /\ \A x \in S : Max(S) >= x
<1> DEFINE T == {-x : x \in S}
<1>1. T \in SUBSET Int /\ T # {}
  <2>1. \A x \in S : -x \in Int OBVIOUS
  <2>2. \A y \in T : y \in Int BY <2>1
  <2>. QED BY <2>2
<1>2. IsFiniteSet(T)
  <2> DEFINE f == [x \in S |-> -x]
  <2>1. f \in Surjection(S, T) BY DEF Surjection
  <2>. QED BY <2>1, FS_Surjection
<1>3. Min(T) \in T /\ \A y \in T : Min(T) <= y
  <2>. HIDE DEF T
  <2>. QED BY <1>1, <1>2, FiniteMin
<1>4. PICK x \in S : Min(T) = -x BY <1>3
<1>5. \A y \in S : x >= y
  <2> SUFFICES ASSUME NEW y \in S PROVE x >= y OBVIOUS
  <2>1. -y \in T OBVIOUS
  <2>2. -x <= -y BY <1>3, <1>4, <2>1
  <2>. QED BY <2>2
<1>6. \E z \in S : \A y \in S : z >= y BY <1>5
<1>. QED BY <1>6 DEF Max

(* Packed lines fit, and cost nothing when none does.                        *)
LEMMA PackedFits ==
  ASSUME NEW costs \in Seq(Nat), NEW budget \in Int
  PROVE  /\ PackedCost(costs, budget) \in Nat
         /\ PackedCost(costs, budget) # 0 => PackedCost(costs, budget) <= budget
<1> DEFINE total(n) == SumFunctionOnSet(costs, 1..n)
           fit == {l \in DOMAIN costs : total(l) <= budget}
           totals == {total(n) : n \in fit}
<1>1. DOMAIN costs = 1..Len(costs) /\ Len(costs) \in Nat OBVIOUS
<1>2. ASSUME NEW n \in DOMAIN costs PROVE total(n) \in Nat
  <2>1. IsFiniteSet(1..n) BY <1>1, CountTo
  <2>2. \A x \in 1..n : costs[x] \in Nat BY <1>1
  <2>3. AllNat(costs, 1..n) BY <2>1, <2>2 DEF AllNat
  <2>. QED BY <2>3, SumIsNat
<1>3. IsFiniteSet(fit)
  <2>1. IsFiniteSet(DOMAIN costs) BY <1>1, CountTo
  <2>. QED BY <2>1, FS_Subset
<1>4. IsFiniteSet(totals)
  <2> DEFINE f == [n \in fit |-> total(n)]
  <2>1. f \in Surjection(fit, totals) BY DEF Surjection
  <2>. HIDE DEF fit, totals
  <2>. QED BY <1>3, <2>1, FS_Surjection
<1>5. \A x \in totals : x \in Nat /\ x <= budget BY <1>2
<1>6. PackedCost(costs, budget) = Max({0} \cup totals) BY DEF PackedCost
<1>. HIDE DEF totals
<1>7. IsFiniteSet({0} \cup totals)
  <2>1. totals \cup {0} = {0} \cup totals OBVIOUS
  <2>. QED BY <1>4, <2>1, FS_AddElement
<1>8. Max({0} \cup totals) \in {0} \cup totals BY <1>5, <1>7, FiniteMax
<1>. QED BY <1>5, <1>6, <1>8

(* The entity summaries take no more than the budget.                        *)
LEMMA SummariesFit ==
  ASSUME NEW rows \in SummaryRows PROVE EntityTokens(rows) \in 0..MaxTokens
<1>. USE BudgetAssumption
<1> DEFINE lines == SubSeq(SummaryCosts, 1, rows)
           room == Cap("semantic", MaxTokens) - HeaderCost
<1>1. lines \in Seq(Nat)
  <2>1. Len(SummaryCosts) \in Nat OBVIOUS
  <2>. QED BY <2>1, SubSeqProperties DEF SummaryRows
<1>2. Cap("semantic", MaxTokens) \in Int /\ Cap("semantic", MaxTokens) <= MaxTokens
  <2>1. Cap("semantic", MaxTokens) = (200 * MaxTokens) \div 1000 BY DEF Cap, Fraction
  <2>2. (200 * MaxTokens) \div 1000 \in Int /\ (200 * MaxTokens) \div 1000 <= MaxTokens OBVIOUS
  <2>. QED BY <2>1, <2>2
<1>3. room \in Int BY <1>2
<1>4. /\ PackedCost(lines, room) \in Nat
      /\ PackedCost(lines, room) # 0 => PackedCost(lines, room) <= room
  <2>. HIDE DEF lines, room
  <2>. QED BY <1>1, <1>3, PackedFits
<1>5. EntityTokens(rows) =
        IF PackedCost(lines, room) = 0 THEN 0 ELSE HeaderCost + PackedCost(lines, room)
  BY DEF EntityTokens
<1>. HIDE DEF lines
<1>. QED BY <1>2, <1>4, <1>5

Packing(budget) == [chosen : SUBSET Memories, total : 0..budget, used : [DOMAIN Fraction -> Nat]]

LEMMA TakePacks ==
  ASSUME NEW budget \in Nat, NEW acc \in Packing(budget), NEW m \in Memories,
         Cost[m] <= budget - acc.total
  PROVE  /\ Take(acc, m) \in Packing(budget)
         /\ Take(acc, m).chosen = acc.chosen \cup {m}
         /\ Take(acc, m).total = acc.total + Cost[m]
<1>1. Cost[m] \in Nat /\ Tier[m] \in DOMAIN Fraction BY RetrievalAssumption, BudgetAssumption
<1>2. /\ acc.chosen \in SUBSET Memories /\ acc.total \in 0..budget
      /\ acc.used \in [DOMAIN Fraction -> Nat]
      /\ acc = [chosen |-> acc.chosen, total |-> acc.total, used |-> acc.used]
  BY DEF Packing
<1>3. [acc.used EXCEPT ![Tier[m]] = @ + Cost[m]] \in [DOMAIN Fraction -> Nat] BY <1>1, <1>2
<1>5. acc.total + Cost[m] \in 0..budget BY <1>1, <1>2
<1>6. acc.chosen \cup {m} \in SUBSET Memories BY <1>2
<1>. QED BY <1>3, <1>5, <1>6 DEF Packing, Take

LEMMA CappedPacks ==
  ASSUME NEW budget \in Nat, NEW acc \in Packing(budget), NEW m \in Memories
  PROVE  Capped(acc, m, budget) \in Packing(budget)
BY TakePacks DEF Capped, Fits

(* A memory rolled up is chosen, or does not fit into what is left.          *)
LEMMA RolledUpPacks ==
  ASSUME NEW budget \in Nat, NEW acc \in Packing(budget), NEW m \in Memories,
         NEW next, next = RolledUp(acc, m, budget)
  PROVE  /\ next \in Packing(budget)
         /\ acc.chosen \subseteq next.chosen /\ acc.total <= next.total
         /\ m \in next.chosen \/ Cost[m] > budget - next.total
<1>1. Cost[m] \in Nat /\ acc.total \in 0..budget BY RetrievalAssumption DEF Packing
<1>2. CASE m \notin acc.chosen /\ Cost[m] <= budget - acc.total
  <2>1. next = Take(acc, m) BY <1>2 DEF RolledUp, Fits
  <2>2. /\ Take(acc, m) \in Packing(budget)
        /\ Take(acc, m).chosen = acc.chosen \cup {m}
        /\ Take(acc, m).total = acc.total + Cost[m]
    BY <1>2, TakePacks
  <2>. QED BY <1>1, <2>1, <2>2
<1>3. CASE ~(m \notin acc.chosen /\ Cost[m] <= budget - acc.total)
  <2>1. next = acc BY <1>3 DEF RolledUp, Fits
  <2>. QED BY <1>1, <1>3, <2>1
<1>. QED BY <1>2, <1>3

LEMMA ByTierKeeps ==
  ASSUME NEW keys \in Seq(Memories) PROVE ByTier(keys) \in Seq(Memories)
<1> DEFINE D == DOMAIN keys
           order == InOrder(D, TierByTier(keys))
           rank(i) == TierOrder[Tier[keys[i]]]
<1>1. D = 1..Len(keys) /\ Len(keys) \in Nat OBVIOUS
<1>2. IsFiniteSet(D) /\ Cardinality(D) = Len(keys) BY <1>1, CountTo
<1>3. ASSUME NEW i \in D PROVE rank(i) \in Nat
  <2>1. Tier[keys[i]] \in DOMAIN Fraction BY BudgetAssumption
  <2>2. \A t \in DOMAIN Fraction : TierOrder[t] \in Nat BY DEF Fraction, TierOrder
  <2>. QED BY <2>1, <2>2
<1>4. \A i, j \in D : <<i, j>> \in TierByTier(keys) <=> rank(i) < rank(j) \/ (rank(i) = rank(j) /\ i < j)
  BY DEF TierByTier
<1>. HIDE DEF rank
<1>5. StrictOrder(D, TierByTier(keys))
  <2>1. \A i \in D : i \in Nat BY <1>1
  <2>. HIDE DEF D
  <2>. QED BY <1>3, <1>4, <2>1 DEF StrictOrder
<1>6. order \in Injection(1..Len(keys), D)
  <2>. HIDE DEF D
  <2>. QED BY <1>2, <1>5, InOrderLists
<1>. HIDE DEF order
<1>7. order \in [1..Len(keys) -> D] BY <1>6 DEF Injection
<1>8. ByTier(keys) = [n \in 1..Len(keys) |-> keys[order[n]]] BY <1>7 DEF ByTier, order
<1>9. [n \in 1..Len(keys) |-> keys[order[n]]] \in [1..Len(keys) -> Memories] BY <1>7
<1>. QED BY <1>1, <1>8, <1>9, SeqDef

LEMMA CappedPassPacks ==
  ASSUME NEW keys \in Seq(Memories), NEW budget \in Nat
  PROVE  CappedPass(keys, budget) \in Packing(budget)
<1> DEFINE N == Len(keys)
           A == Packing(budget)
           Eq(g) == g = [n \in 0..N |-> IF n = 0 THEN NothingPacked ELSE Capped(g[n - 1], keys[n], budget)]
           step == [p \in A \X (1..N) |-> Capped(p[1], keys[p[2]], budget)]
           packed == CHOOSE g : Eq(g)
<1>1. N \in Nat /\ \A n \in 1..N : keys[n] \in Memories OBVIOUS
<1>2. NothingPacked \in A BY DEF NothingPacked, Packing
<1>3. step \in [A \X (1..N) -> A] BY <1>1, CappedPacks
<1>4. \E g : Eq(g)
  <2>0. \E g : Recursion(g, A, N, NothingPacked, step)
    <3>. HIDE DEF step, A, N
    <3>. QED BY <1>1, <1>2, <1>3, RecursionUpTo
  <2>1. PICK g \in [0..N -> A] : g[0] = NothingPacked /\ \A n \in 1..N : g[n] = step[<<g[n - 1], n>>]
    <3>. HIDE DEF step, A, N
    <3>. QED BY <2>0 DEF Recursion
  <2>2. \A n \in 1..N : step[<<g[n - 1], n>>] = Capped(g[n - 1], keys[n], budget)
    <3> SUFFICES ASSUME NEW n \in 1..N PROVE step[<<g[n - 1], n>>] = Capped(g[n - 1], keys[n], budget) OBVIOUS
    <3>1. g[n - 1] \in A BY <1>1, <2>1
    <3>. QED BY <3>1
  <2>3. \A n \in 0..N : g[n] = IF n = 0 THEN NothingPacked ELSE Capped(g[n - 1], keys[n], budget)
    <3>1. \A n \in 0..N : n = 0 \/ n \in 1..N BY <1>1
    <3>. HIDE DEF step, A, N
    <3>. QED BY <2>1, <2>2, <3>1
  <2>4. g = [n \in 0..N |-> IF n = 0 THEN NothingPacked ELSE Capped(g[n - 1], keys[n], budget)]
    BY <2>1, <2>3
  <2>. QED BY <2>4
<1>5. Eq(packed) BY <1>4
<1>6. CappedPass(keys, budget) = packed[N] BY DEF CappedPass
<1>. HIDE DEF packed
<1>7. packed[0] = NothingPacked /\ \A n \in 1..N : packed[n] = Capped(packed[n - 1], keys[n], budget)
  <2>. HIDE DEF N
  <2>1. \A n \in 0..N : packed[n] = IF n = 0 THEN NothingPacked ELSE Capped(packed[n - 1], keys[n], budget) BY <1>5
  <2>2. 0 \in 0..N /\ \A n \in 1..N : n \in 0..N /\ n # 0 BY <1>1
  <2>. QED BY <2>1, <2>2
<1> DEFINE G == {n \in 0..N : packed[n] \in A}
<1>8. 0 \in G BY <1>1, <1>2, <1>7
<1>9. ASSUME NEW n \in 1..N, n - 1 \in G PROVE n \in G
  BY <1>1, <1>7, <1>9, CappedPacks
<1>10. \A n \in 0..N : n \in G
  <2>. HIDE DEF G, N
  <2>. QED BY <1>1, <1>8, <1>9, UpTo
<1>11. N \in G BY <1>1, <1>10
<1>. QED BY <1>6, <1>11

(* What does not fit beside less does not fit beside more.                    *)
LEMMA StillOver ==
  ASSUME NEW budget \in Nat, NEW cost \in Nat, NEW less \in 0..budget, NEW more \in 0..budget,
         less <= more, cost > budget - less
  PROVE  cost > budget - more
OBVIOUS

(* What the second pass leaves out would not have fitted, even at its end.    *)
LEMMA RollUpLeavesNone ==
  ASSUME NEW keys \in Seq(Memories), NEW budget \in Nat, NEW start \in Packing(budget),
         NEW last, last = RollUpPass(start, keys, budget)
  PROVE  /\ last \in Packing(budget)
         /\ \A i \in DOMAIN keys : keys[i] \in last.chosen \/ Cost[keys[i]] > budget - last.total
<1> DEFINE N == Len(keys)
           A == Packing(budget)
           Eq(g) == g = [n \in 0..N |-> IF n = 0 THEN start ELSE RolledUp(g[n - 1], keys[n], budget)]
           step == [p \in A \X (1..N) |-> RolledUp(p[1], keys[p[2]], budget)]
           packed == CHOOSE g : Eq(g)
<1>1. N \in Nat /\ \A n \in 1..N : keys[n] \in Memories OBVIOUS
<1>3. step \in [A \X (1..N) -> A] BY <1>1, RolledUpPacks
<1>4. \E g : Eq(g)
  <2>0. \E g : Recursion(g, A, N, start, step)
    <3>1. start \in A OBVIOUS
    <3>. HIDE DEF step, A, N
    <3>. QED BY <1>1, <1>3, <3>1, RecursionUpTo
  <2>1. PICK g \in [0..N -> A] : g[0] = start /\ \A n \in 1..N : g[n] = step[<<g[n - 1], n>>]
    <3>. HIDE DEF step, A, N
    <3>. QED BY <2>0 DEF Recursion
  <2>2. \A n \in 1..N : step[<<g[n - 1], n>>] = RolledUp(g[n - 1], keys[n], budget)
    <3> SUFFICES ASSUME NEW n \in 1..N PROVE step[<<g[n - 1], n>>] = RolledUp(g[n - 1], keys[n], budget) OBVIOUS
    <3>1. g[n - 1] \in A BY <1>1, <2>1
    <3>. QED BY <3>1
  <2>3. \A n \in 0..N : g[n] = IF n = 0 THEN start ELSE RolledUp(g[n - 1], keys[n], budget)
    <3>1. \A n \in 0..N : n = 0 \/ n \in 1..N BY <1>1
    <3>. HIDE DEF step, A, N
    <3>. QED BY <2>1, <2>2, <3>1
  <2>4. g = [n \in 0..N |-> IF n = 0 THEN start ELSE RolledUp(g[n - 1], keys[n], budget)]
    BY <2>1, <2>3
  <2>. QED BY <2>4
<1>5. Eq(packed) BY <1>4
<1>6. RollUpPass(start, keys, budget) = packed[N] BY DEF RollUpPass
<1>. HIDE DEF packed
<1>7. packed[0] = start /\ \A n \in 1..N : packed[n] = RolledUp(packed[n - 1], keys[n], budget)
  <2>. HIDE DEF N
  <2>1. \A n \in 0..N : packed[n] = IF n = 0 THEN start ELSE RolledUp(packed[n - 1], keys[n], budget) BY <1>5
  <2>2. 0 \in 0..N /\ \A n \in 1..N : n \in 0..N /\ n # 0 BY <1>1
  <2>. QED BY <2>1, <2>2
<1> DEFINE Left(n, i) == keys[i] \in packed[n].chosen \/ Cost[keys[i]] > budget - packed[n].total
           G == {n \in 0..N : packed[n] \in A /\ \A i \in 1..n : Left(n, i)}
<1>8. 0 \in G BY <1>1, <1>7
<1>9. ASSUME NEW n \in 1..N, n - 1 \in G PROVE n \in G
  <2>1. packed[n - 1] \in A /\ \A i \in 1..(n - 1) : Left(n - 1, i) BY <1>9
  <2>2. /\ packed[n] \in A
        /\ packed[n - 1].chosen \subseteq packed[n].chosen /\ packed[n - 1].total <= packed[n].total
        /\ Left(n, n)
    BY <1>1, <1>7, <2>1, RolledUpPacks
  <2>3. ASSUME NEW i \in 1..(n - 1) PROVE Left(n, i)
    <3>1. keys[i] \in Memories BY <1>1
    <3>2. Cost[keys[i]] \in Nat BY <3>1, RetrievalAssumption
    <3>3. packed[n].total \in 0..budget /\ packed[n - 1].total \in 0..budget BY <2>1, <2>2 DEF Packing
    <3>4. Left(n - 1, i) BY <2>1
    <3>5. CASE keys[i] \in packed[n - 1].chosen BY <2>2, <3>5
    <3>6. CASE Cost[keys[i]] > budget - packed[n - 1].total
      <4>1. packed[n - 1].total <= packed[n].total BY <2>2
      <4>. QED BY <3>2, <3>3, <3>6, <4>1, StillOver
    <3>7. keys[i] \in packed[n - 1].chosen \/ Cost[keys[i]] > budget - packed[n - 1].total BY <3>4
    <3>. HIDE DEF Left
    <3>. QED BY <3>5, <3>6, <3>7
  <2>4. \A i \in 1..n : i = n \/ i \in 1..(n - 1) OBVIOUS
  <2>. HIDE DEF Left, A
  <2>. QED BY <2>2, <2>3, <2>4
<1>10. \A n \in 0..N : n \in G
  <2>. HIDE DEF G, N
  <2>. QED BY <1>1, <1>8, <1>9, UpTo
<1>11. N \in G BY <1>1, <1>10
<1>. QED BY <1>6, <1>11

(* Half and two quarters of the budget are at most the budget.               *)
LEMMA BriefFits ==
  ASSUME answer.hits \in Seq(Memories), NEW include \in SUBSET Sections,
         NEW f, f = [s \in Sections |-> PackedCost(Lines(s), MaxTokens \div Shares[s])]
  PROVE  SumFunctionOnSet(f, include) \in 0..MaxTokens
<1>. USE BudgetAssumption
<1> DEFINE g == [s \in Sections |-> MaxTokens \div Shares[s]]
           E == {"episodic"}
           ES == E \cup {"semantic"}
           ESP == ES \cup {"procedural"}
<1>1. Sections = ESP BY DEF Sections, Shares
<1>2. /\ g["episodic"] = MaxTokens \div 2 /\ g["semantic"] = MaxTokens \div 4
      /\ g["procedural"] = MaxTokens \div 4
  BY DEF Shares, Sections
<1>3. MaxTokens \div 2 \in Nat /\ MaxTokens \div 4 \in Nat
      /\ (MaxTokens \div 4) + ((MaxTokens \div 4) + ((MaxTokens \div 2) + 0)) <= MaxTokens
  OBVIOUS
<1>4. \A s \in Sections : g[s] \in Nat /\ MaxTokens \div Shares[s] = g[s] BY <1>1, <1>2, <1>3
<1>5. ASSUME NEW s \in Sections PROVE f[s] \in Nat /\ f[s] <= g[s]
  <2>1. Lines(s) \in Seq(Nat)
    <3>1. CASE s = "episodic"
      <4>1. Lines(s) = [i \in DOMAIN answer.hits |-> Cost[answer.hits[i]]] BY <3>1 DEF Lines
      <4>2. DOMAIN answer.hits = 1..Len(answer.hits) /\ Len(answer.hits) \in Nat OBVIOUS
      <4>3. \A i \in 1..Len(answer.hits) : Cost[answer.hits[i]] \in Nat
          <5>1. \A i \in 1..Len(answer.hits) : answer.hits[i] \in Memories BY <4>2
          <5>. QED BY <5>1, RetrievalAssumption
      <4>. QED BY <4>1, <4>2, <4>3, SeqDef
    <3>2. CASE s = "semantic" BY <3>2 DEF Lines
    <3>3. CASE s = "procedural" BY <3>3 DEF Lines
    <3>. QED BY <1>1, <3>1, <3>2, <3>3
  <2>2. PackedCost(Lines(s), g[s]) \in Nat
    BY <1>4, <2>1, PackedFits
  <2>3. PackedCost(Lines(s), g[s]) # 0 => PackedCost(Lines(s), g[s]) <= g[s]
    BY <1>4, <2>1, PackedFits
  <2>4. f[s] = PackedCost(Lines(s), g[s]) BY <1>4
  <2>. QED BY <1>4, <2>2, <2>3, <2>4
<1>. HIDE DEF g
<1>6. AllNat(g, {}) /\ SumFunctionOnSet(g, {}) = 0 BY SumOfNone, FS_EmptySet DEF AllNat
<1>7. AllNat(g, E) /\ SumFunctionOnSet(g, E) = (MaxTokens \div 2) + 0
  <2>1. E = {} \cup {"episodic"} /\ "episodic" \notin {} OBVIOUS
  <2>. HIDE DEF E
  <2>2. g["episodic"] \in Nat BY <1>2, <1>3
  <2>3. /\ AllNat(g, {} \cup {"episodic"})
        /\ SumFunctionOnSet(g, {} \cup {"episodic"}) = g["episodic"] + SumFunctionOnSet(g, {})
    BY <1>6, <2>1, <2>2, SumWith
  <2>. QED BY <1>2, <1>6, <2>1, <2>3
<1>8. AllNat(g, ES) /\ SumFunctionOnSet(g, ES) = (MaxTokens \div 4) + SumFunctionOnSet(g, E)
  <2>1. "semantic" \notin E OBVIOUS
  <2>2. ES = E \cup {"semantic"} OBVIOUS
  <2>. HIDE DEF E, ES
  <2>3. g["semantic"] \in Nat BY <1>2, <1>3
  <2>4. /\ AllNat(g, E \cup {"semantic"})
        /\ SumFunctionOnSet(g, E \cup {"semantic"}) = g["semantic"] + SumFunctionOnSet(g, E)
    BY <1>7, <2>1, <2>3, SumWith
  <2>. QED BY <1>2, <2>2, <2>4
<1>9. AllNat(g, ESP) /\ SumFunctionOnSet(g, ESP) = (MaxTokens \div 4) + SumFunctionOnSet(g, ES)
  <2>1. "procedural" \notin ES OBVIOUS
  <2>2. ESP = ES \cup {"procedural"} OBVIOUS
  <2>. HIDE DEF ES, ESP
  <2>3. g["procedural"] \in Nat BY <1>2, <1>3
  <2>4. /\ AllNat(g, ES \cup {"procedural"})
        /\ SumFunctionOnSet(g, ES \cup {"procedural"}) = g["procedural"] + SumFunctionOnSet(g, ES)
    BY <1>8, <2>1, <2>3, SumWith
  <2>. QED BY <1>2, <2>2, <2>4
<1>. HIDE DEF E, ES, ESP
<1>10. SumFunctionOnSet(g, ESP) <= MaxTokens BY <1>3, <1>7, <1>8, <1>9
<1>11. AllNat(f, include)
  <2>1. IsFiniteSet(include) BY <1>1, <1>9, FS_Subset DEF AllNat
  <2>. QED BY <1>5, <2>1 DEF AllNat
<1>12. SumFunctionOnSet(f, include) <= SumFunctionOnSet(g, ESP) BY <1>1, <1>5, <1>9, <1>11, SumGrows
<1>13. SumFunctionOnSet(f, include) \in Nat /\ SumFunctionOnSet(g, ESP) \in Nat
  BY <1>9, <1>11, SumIsNat
<1>. QED BY <1>10, <1>12, <1>13

Answer == [hits : Seq(Memories), chosen : SUBSET Memories, tokens : Nat, left : Int,
           sections : SUBSET Sections, brief : Nat]

BudgetInv == Answered => answer \in Answer /\ BudgetHeldAndUsed

LEMMA HeadingsAreNat ==
  ASSUME NEW shown \in SUBSET Sections PROVE SumFunctionOnSet(HeadingCost, shown) \in Nat
<1>1. Sections = {"episodic", "semantic", "procedural"} BY DEF Sections, Shares
<1>2. IsFiniteSet(shown)
  <2>1. IsFiniteSet({"episodic"}) BY FS_Singleton
  <2>2. IsFiniteSet({"episodic"} \cup {"semantic"}) BY <2>1, FS_AddElement
  <2>3. IsFiniteSet(({"episodic"} \cup {"semantic"}) \cup {"procedural"}) BY <2>2, FS_AddElement
  <2>4. Sections = ({"episodic"} \cup {"semantic"}) \cup {"procedural"} BY <1>1
  <2>. QED BY <2>3, <2>4, FS_Subset
<1>3. \A s \in shown : HeadingCost[s] \in Nat BY <1>1, BudgetAssumption
<1>4. AllNat(HeadingCost, shown) BY <1>2, <1>3 DEF AllNat
<1>. QED BY <1>4, SumIsNat

LEMMA AssembleFits == ASSUME RetrievalInv, Assemble PROVE BudgetInv'
<1>. USE BudgetAssumption
<1> DEFINE keys == KeyList(pool)
<1>1. keys \in Seq(Memories)
  <2>1. Ranking(pool, Scope) BY DEF RetrievalInv, CandidatesInScope
  <2>2. \A i \in DOMAIN pool : pool[i].key \in Memories BY <2>1, RankingDomain, KeysInScope
  <2>. QED BY <2>2, KeysInScope, SeqDef DEF KeyList
<1>2. PICK rows \in SummaryRows :
        answer' = [hits |-> keys,
                   chosen |-> Assembled(keys, MaxTokens - EntityTokens(rows)).chosen,
                   tokens |-> Assembled(keys, MaxTokens - EntityTokens(rows)).total + EntityTokens(rows),
                   left |-> MaxTokens - EntityTokens(rows) - Assembled(keys, MaxTokens - EntityTokens(rows)).total,
                   sections |-> {}, brief |-> 0]
  BY DEF Assemble
<1>3. PICK e \in 0..MaxTokens : e = EntityTokens(rows) BY SummariesFit
<1> DEFINE b == MaxTokens - e
           packed == Assembled(keys, b)
<1>4. b \in Nat OBVIOUS
<1>5. packed \in Packing(b)
  <2>1. ByTier(keys) \in Seq(Memories)
    <3>. HIDE DEF keys
    <3>. QED BY <1>1, ByTierKeeps
  <2>2. CappedPass(ByTier(keys), b) \in Packing(b)
    <3>. HIDE DEF keys, b
    <3>. QED BY <1>4, <2>1, CappedPassPacks
  <2>3. packed = RollUpPass(CappedPass(ByTier(keys), b), keys, b) BY DEF Assembled
  <2>. HIDE DEF keys, b, packed
  <2>. QED BY <1>1, <1>4, <2>2, <2>3, RollUpLeavesNone
<1>6. \A i \in DOMAIN keys : keys[i] \in packed.chosen \/ Cost[keys[i]] > b - packed.total
  <2>1. ByTier(keys) \in Seq(Memories)
    <3>. HIDE DEF keys
    <3>. QED BY <1>1, ByTierKeeps
  <2>2. CappedPass(ByTier(keys), b) \in Packing(b)
    <3>. HIDE DEF keys, b
    <3>. QED BY <1>4, <2>1, CappedPassPacks
  <2>3. packed = RollUpPass(CappedPass(ByTier(keys), b), keys, b) BY DEF Assembled
  <2>. HIDE DEF keys, b, packed
  <2>. QED BY <1>1, <1>4, <2>2, <2>3, RollUpLeavesNone
<1>. HIDE DEF packed
<1>7. answer' = [hits |-> keys, chosen |-> packed.chosen, tokens |-> packed.total + e,
                 left |-> MaxTokens - e - packed.total, sections |-> {}, brief |-> 0]
  BY <1>2, <1>3 DEF packed
<1>. HIDE DEF keys
<1>8. packed.chosen \in SUBSET Memories /\ packed.total \in 0..(MaxTokens - e) BY <1>5 DEF Packing
<1>9. answer' \in Answer BY <1>1, <1>7, <1>8 DEF Answer
<1>10. /\ answer'.tokens <= MaxTokens
       /\ answer'.brief <= MaxTokens + SumFunctionOnSet(HeadingCost, answer'.sections)
  <2>1. answer'.sections = {} /\ answer'.brief = 0 /\ answer'.tokens = packed.total + e BY <1>7
  <2>2. SumFunctionOnSet(HeadingCost, {}) \in Nat BY HeadingsAreNat
  <2>. QED BY <1>3, <1>8, <2>1, <2>2
<1>11. \A m \in Range(answer'.hits) \ answer'.chosen : Cost[m] > answer'.left
  BY <1>6, <1>7 DEF Range
<1>. QED BY <1>9, <1>10, <1>11 DEF BudgetInv, BudgetHeldAndUsed, Hits

LEMMA BriefKeepsBudget == ASSUME RetrievalInv, BudgetInv, Brief PROVE BudgetInv'
<1>1. /\ answer \in Answer /\ BudgetHeldAndUsed /\ Answered
  BY DEF Brief, BudgetInv, Answered
<1> DEFINE f == [s \in Sections |-> SectionCost(s)]
<1>2. PICK include \in SUBSET Sections :
        LET shown == {s \in include : SectionCost(s) > 0}
        IN answer' = [answer EXCEPT !.sections = shown,
             !.brief = SumFunctionOnSet(HeadingCost, shown) + SumFunctionOnSet(f, shown)]
  BY DEF Brief
<1>3. PICK shown \in SUBSET Sections :
        answer' = [answer EXCEPT !.sections = shown,
          !.brief = SumFunctionOnSet(HeadingCost, shown) + SumFunctionOnSet(f, shown)]
  <2> DEFINE shown == {s \in include : SectionCost(s) > 0}
  <2>1. shown \in SUBSET Sections OBVIOUS
  <2>. QED BY <1>2, <2>1
<1>4. PICK n \in 0..MaxTokens : n = SumFunctionOnSet(f, shown)
  <2>1. f = [s \in Sections |-> PackedCost(Lines(s), MaxTokens \div Shares[s])] BY DEF SectionCost
  <2>2. answer.hits \in Seq(Memories) BY <1>1 DEF Answer
  <2>. HIDE DEF f
  <2>. QED BY <2>1, <2>2, BriefFits
<1>5. PICK headings \in Nat : headings = SumFunctionOnSet(HeadingCost, shown) BY HeadingsAreNat
<1>. HIDE DEF f
<1>6. answer' = [answer EXCEPT !.sections = shown, !.brief = headings + n] BY <1>3, <1>4, <1>5
<1> PICK h \in Seq(Memories), c \in SUBSET Memories, t \in Nat, l \in Int, u \in SUBSET Sections, b \in Nat :
      answer = [hits |-> h, chosen |-> c, tokens |-> t, left |-> l, sections |-> u, brief |-> b]
  BY <1>1 DEF Answer
<1>7. answer' = [hits |-> h, chosen |-> c, tokens |-> t, left |-> l, sections |-> shown,
                 brief |-> headings + n]
  BY <1>6
<1>8. n \in Nat /\ n <= MaxTokens BY BudgetAssumption
<1>9. answer' \in Answer BY <1>7, <1>8 DEF Answer
<1>10. answer'.brief <= MaxTokens + SumFunctionOnSet(HeadingCost, answer'.sections)
  BY <1>5, <1>7, <1>8, BudgetAssumption
<1>11. /\ answer'.hits = answer.hits /\ answer'.chosen = answer.chosen /\ answer'.left = answer.left
       /\ answer'.tokens = answer.tokens
  BY <1>7
<1>. QED BY <1>1, <1>9, <1>10, <1>11 DEF BudgetInv, BudgetHeldAndUsed, Hits

LEMMA BudgetStep == ASSUME RetrievalInv, BudgetInv, [RetrievalNext]_retrievalVars PROVE BudgetInv'
<1>. USE DEF Others, Selection, Gathered
<1>1. CASE (\E m \in Memories : Forgotten(m) \/ ViewCatchesUp(m) \/ \E n \in Memories : Superseded(m, n))
           \/ Refresh \/ UNCHANGED retrievalVars
  <2>1. answer' = answer /\ (Answered' => Answered)
    BY <1>1 DEF Forgotten, ViewCatchesUp, Superseded, Refresh, retrievalVars, callVars, Answered
  <2>. QED BY <2>1 DEF BudgetInv, BudgetHeldAndUsed, Hits
<1>2. CASE GateSkips \/ Fault \/ Rank
  <2>1. answer' = NoAnswer
    <3>1. CASE GateSkips \/ Fault BY <3>1 DEF GateSkips, Fault, Empty
    <3>2. CASE Rank
      <4>1. ~Answered /\ answer' = answer BY <3>2 DEF Rank, Answered
      <4>. QED BY <4>1 DEF RetrievalInv, AnswerSound
    <3>. QED BY <1>2, <3>1, <3>2
  <2>2. NoAnswer \in Answer BY DEF NoAnswer, Answer
  <2>3. Range(NoAnswer.hits) = {} BY NoHits DEF NoAnswer
  <2>4. NoAnswer.tokens = 0 /\ NoAnswer.brief = 0 /\ NoAnswer.sections = {} BY DEF NoAnswer
  <2>5. SumFunctionOnSet(HeadingCost, {}) \in Nat BY HeadingsAreNat
  <2>. QED BY <2>1, <2>2, <2>3, <2>4, <2>5, BudgetAssumption DEF BudgetInv, BudgetHeldAndUsed, Hits
<1>3. CASE Enrich \/ LexicalArm \/ VectorArm \/ GraphArm \/ ReadLinks \/ TurnTo \/ EndFollow
  <2>1. CASE Enrich \/ LexicalArm \/ VectorArm BY <2>1 DEF Enrich, LexicalArm, VectorArm, Answered, BudgetInv
  <2>2. CASE GraphArm BY <2>2 DEF GraphArm, Answered, BudgetInv
  <2>4. CASE ReadLinks BY <2>4 DEF ReadLinks, Answered, BudgetInv
  <2>5. CASE TurnTo BY <2>5 DEF TurnTo, Answered, BudgetInv
  <2>6. CASE EndFollow BY <2>6 DEF EndFollow, Answered, BudgetInv
  <2>. QED BY <1>3, <2>1, <2>2, <2>4, <2>5, <2>6
<1>4. CASE Hop
  <2>1. ~Answered' BY <1>4 DEF Hop, Answered
  <2>. QED BY <2>1 DEF BudgetInv
<1>5. CASE Assemble BY <1>5, AssembleFits
<1>6. CASE Brief BY <1>6, BriefKeepsBudget
<1>. QED BY <1>1, <1>2, <1>3, <1>4, <1>5, <1>6 DEF RetrievalNext

(* Whatever the hits, their costs, tiers, entities and tool runs: what a      *)
(* result counts stays within the caller's budget, entity summaries included, *)
(* no hit is left out that would have fitted, and what a briefing counts       *)
(* exceeds the budget by the headings of its sections at most                 *)
(* (_assemble_tiered and _entity_block, retrieve/search.py; _assemble,        *)
(* prime.py).                                                                 *)
THEOREM BudgetIsHeldAndUsed == RetrievalSpec => []BudgetHeldAndUsed
<1>1. RetrievalInit => BudgetInv
  BY DEF RetrievalInit, BudgetInv, Answered
<1>2. BudgetInv => BudgetHeldAndUsed BY DEF BudgetInv, BudgetHeldAndUsed
<1>. QED BY <1>1, <1>2, RetrievalInitInv, RetrievalStep, BudgetStep, PTL DEF RetrievalSpec
-----------------------------------------------------------------------------
(***************************************************************************)
(* CrewRecall: the texts of the latest vectors are known, and a search       *)
(* returns the best of its scope.                                           *)
(***************************************************************************)

Numbers(order, places) ==
  /\ order \in [1..Cardinality(places) -> places]
  /\ \A k, l \in 1..Cardinality(places) : order[k] = order[l] => k = l
  /\ \A p \in places : \E k \in 1..Cardinality(places) : order[k] = p
  /\ \A k \in 1..Cardinality(places) : Cardinality({j \in places : j < order[k]}) = k - 1

(* The places of a sequence are numbered from the first to the last.         *)
LEMMA PlacesNumbered ==
  ASSUME NEW n \in Nat, NEW places \in SUBSET (1..n)
  PROVE  /\ IsFiniteSet(places) /\ Cardinality(places) \in 0..n
         /\ Numbers(InOrder(places, Earlier(places)), places)
<1> DEFINE order == InOrder(places, Earlier(places))
           N == Cardinality(places)
<1>1. IsFiniteSet(places) /\ N \in 0..n
  <2>1. IsFiniteSet(1..n)
    BY CountTo
  <2>2. IsFiniteSet(places)
    BY <2>1, FS_Subset
  <2>3. N \in Nat /\ N <= n
    BY PickedPlaces
  <2> QED
    BY <2>2, <2>3
<1>2. order \in Injection(1..N, places) /\ order \in Surjection(1..N, places)
  BY PickedPlaces
<1>3. StrictOrder(places, Earlier(places))
  BY DEF StrictOrder, Earlier
<1>4. \A k \in 1..N : Cardinality({j \in places : <<j, order[k]>> \in Earlier(places)}) = k - 1
  BY <1>1, <1>3, InOrderLists
<1>5. ASSUME NEW k \in 1..N PROVE Cardinality({j \in places : j < order[k]}) = k - 1
  <2>1. order[k] \in places
    BY <1>2 DEF Injection
  <2> HIDE DEF order
  <2>2. {j \in places : <<j, order[k]>> \in Earlier(places)} = {j \in places : j < order[k]}
    BY <2>1 DEF Earlier
  <2> QED
    BY <1>4, <2>2
<1> HIDE DEF order
<1>6. /\ order \in [1..N -> places]
      /\ \A k, l \in 1..N : order[k] = order[l] => k = l
      /\ \A p \in places : \E k \in 1..N : order[k] = p
  BY <1>2 DEF Injection, Surjection, IsInjective
<1>7. Numbers(order, places)
  BY <1>5, <1>6 DEF Numbers
<1> QED
  BY <1>1, <1>7 DEF order

(* What is picked stands in the order of the places.                         *)
LEMMA PickedFrom ==
  ASSUME NEW places, NEW s, Numbers(InOrder(places, Earlier(places)), places)
  PROVE  Picked(s, places) = [k \in 1..Cardinality(places) |-> s[InOrder(places, Earlier(places))[k]]]
<1>1. DOMAIN InOrder(places, Earlier(places)) = 1..Cardinality(places)
  BY DEF Numbers
<1> QED
  BY <1>1 DEF Picked

(* What is picked of a sequence.                                             *)
LEMMA PickedIs ==
  ASSUME NEW S, NEW s \in Seq(S), NEW places \in SUBSET (1..Len(s))
  PROVE  /\ Picked(s, places) \in Seq(S) /\ Len(Picked(s, places)) = Cardinality(places)
         /\ Cardinality(places) \in 0..Len(s)
         /\ Range(Picked(s, places)) = {s[i] : i \in places}
         /\ (\A i, j \in places : s[i] = s[j] => i = j) => IsInjective(Picked(s, places))
<1> DEFINE order == InOrder(places, Earlier(places))
           N == Cardinality(places)
           t == Picked(s, places)
<1>1. Len(s) \in Nat
  OBVIOUS
<1>2. /\ N \in 0..Len(s) /\ order \in [1..N -> places]
      /\ \A k, l \in 1..N : order[k] = order[l] => k = l
      /\ \A p \in places : \E k \in 1..N : order[k] = p
      /\ t = [k \in 1..N |-> s[order[k]]]
  <2> PICK n \in Nat : n = Len(s)
    BY <1>1
  <2>1. N \in 0..n /\ Numbers(order, places)
    BY PlacesNumbered
  <2>2. t = [k \in 1..N |-> s[order[k]]]
    BY <2>1, PickedFrom
  <2> HIDE DEF order, t
  <2> QED
    BY <2>1, <2>2 DEF Numbers
<1>3. \A i \in 1..Len(s) : s[i] \in S
  BY ElementOfSeq
<1> HIDE DEF order, N
<1>4. t \in [1..N -> S]
  <2>1. \A k \in 1..N : s[order[k]] \in S
    BY <1>2, <1>3
  <2> HIDE DEF t
  <2> QED
    BY <1>2, <2>1
<1>5. t \in Seq(S) /\ Len(t) = N
  <2>1. N \in Nat
    BY <1>2
  <2> QED
    BY <1>4, <2>1, SeqDef, LenProperties
<1>6. DOMAIN t = 1..N /\ \A k \in 1..N : t[k] = s[order[k]] /\ order[k] \in places
  BY <1>2
<1> HIDE DEF t
<1>7. Range(t) = {s[i] : i \in places}
  <2>1. \A x : x \in Range(t) <=> \E k \in 1..N : x = t[k]
    BY <1>6 DEF Range
  <2>2. \A i \in places : \E k \in 1..N : t[k] = s[i]
    <3>1. ASSUME NEW i \in places PROVE \E k \in 1..N : t[k] = s[i]
      <4>1. PICK k \in 1..N : order[k] = i
        BY <1>2
      <4> QED
        BY <4>1, <1>6
    <3> QED
      BY <3>1
  <2>3. \A k \in 1..N : t[k] \in {s[i] : i \in places}
    BY <1>6
  <2> QED
    BY <2>1, <2>2, <2>3
<1>8. ASSUME \A i, j \in places : s[i] = s[j] => i = j PROVE IsInjective(t)
  <2>1. ASSUME NEW k \in 1..N, NEW l \in 1..N, t[k] = t[l] PROVE k = l
    <3>1. order[k] \in places /\ order[l] \in places /\ s[order[k]] = s[order[l]]
      BY <1>6, <2>1
    <3>2. order[k] = order[l]
      BY <1>8, <3>1
    <3> QED
      BY <1>2, <3>2
  <2> QED
    BY <1>6, <2>1 DEF IsInjective
<1> QED
  BY <1>2, <1>5, <1>7, <1>8 DEF t, N

(* The last places of a longer sequence are at its end in the same order.    *)
OrderEndsWith(P, Q, d, a) ==
  /\ a \in Nat
  /\ \A k \in 1..Cardinality(Q) : InOrder(P, Earlier(P))[a + k] = InOrder(Q, Earlier(Q))[k] + d

LEMMA OrderAtEnd ==
  ASSUME NEW n \in Nat, NEW d \in Nat, NEW P \in SUBSET (1..(n + d)),
         NEW Q, Q = {p \in 1..n : p + d \in P}
  PROVE  OrderEndsWith(P, Q, d, Cardinality(P) - Cardinality(Q))
<1> DEFINE L == {p \in P : p <= d}
           up(T) == {p + d : p \in T}
<1>1. ASSUME NEW T \in SUBSET Q
      PROVE  /\ IsFiniteSet(L) /\ IsFiniteSet(T) /\ IsFiniteSet(L \cup up(T))
             /\ Cardinality(L \cup up(T)) = Cardinality(L) + Cardinality(T)
             /\ Cardinality(L) \in Nat /\ Cardinality(T) \in Nat
  <2>1. IsFiniteSet(1..(n + d)) /\ IsFiniteSet(1..n)
    BY CountTo
  <2>2. IsFiniteSet(L) /\ IsFiniteSet(T)
    BY <2>1, FS_Subset
  <2> DEFINE f == [p \in T |-> p + d]
  <2>3. f \in Surjection(T, up(T)) /\ f \in Injection(T, up(T))
    <3>1. f \in [T -> up(T)]
      OBVIOUS
    <3>2. \A p, q \in T : p \in Nat /\ q \in Nat
      OBVIOUS
    <3>3. \A p, q \in T : f[p] = f[q] => p = q
      BY <3>2
    <3>4. \A x \in up(T) : \E p \in T : f[p] = x
      OBVIOUS
    <3> QED
      BY <3>1, <3>3, <3>4 DEF Injection, Surjection, IsInjective
  <2>4. IsFiniteSet(up(T)) /\ Cardinality(up(T)) = Cardinality(T)
    BY <2>2, <2>3, FS_Surjection
  <2>5. L \cap up(T) = {}
    OBVIOUS
  <2>6. /\ IsFiniteSet(L \cup up(T))
        /\ Cardinality(L \cup up(T)) = Cardinality(L) + Cardinality(up(T)) - Cardinality(L \cap up(T))
    BY <2>2, <2>4, FS_Union
  <2>7. Cardinality(L \cap up(T)) = 0
    BY <2>5, FS_EmptySet
  <2>8. Cardinality(L) \in Nat /\ Cardinality(T) \in Nat
    BY <2>2, FS_CardinalityType
  <2> QED
    BY <2>2, <2>4, <2>6, <2>7, <2>8
<1>2. P = L \cup up(Q)
  <2>1. ASSUME NEW p \in P, ~(p <= d) PROVE p \in up(Q)
    <3>1. p - d \in 1..n /\ (p - d) + d = p
      BY <2>1
    <3> QED
      BY <3>1
  <2> QED
    BY <2>1
<1>3. /\ Cardinality(P) = Cardinality(L) + Cardinality(Q)
      /\ Cardinality(L) \in Nat /\ Cardinality(Q) \in Nat
  BY <1>1, <1>2
<1>4. ASSUME NEW k \in 1..Cardinality(Q)
      PROVE  InOrder(P, Earlier(P))[Cardinality(L) + k] = InOrder(Q, Earlier(Q))[k] + d
  <2> DEFINE oQ == InOrder(Q, Earlier(Q))
             oP == InOrder(P, Earlier(P))
  <2>1. oQ[k] \in Q /\ Cardinality({j \in Q : j < oQ[k]}) = k - 1
    <3>1. Q \in SUBSET (1..n)
      OBVIOUS
    <3>2. Numbers(oQ, Q)
      BY <3>1, PlacesNumbered
    <3> HIDE DEF oQ
    <3> QED
      BY <3>2 DEF Numbers
  <2>2. /\ \A p \in P : \E l \in 1..Cardinality(P) : oP[l] = p
        /\ \A l \in 1..Cardinality(P) : Cardinality({j \in P : j < oP[l]}) = l - 1
    <3>1. n + d \in Nat
      OBVIOUS
    <3>2. Numbers(oP, P)
      BY <3>1, PlacesNumbered
    <3> HIDE DEF oP
    <3> QED
      BY <3>2 DEF Numbers
  <2> PICK x \in Q : x = oQ[k]
    BY <2>1
  <2>3. {j \in P : j < x + d} = L \cup up({j \in Q : j < x})
    <3>1. x \in Nat /\ x >= 1
      OBVIOUS
    <3>2. ASSUME NEW j \in P, j < x + d, ~(j <= d) PROVE j \in up({i \in Q : i < x})
      <4>1. j - d \in 1..n /\ (j - d) + d = j /\ j - d < x
        BY <3>1, <3>2
      <4> QED
        BY <4>1
    <3>3. ASSUME NEW j \in L PROVE j \in P /\ j < x + d
      BY <3>1, <3>3
    <3>4. ASSUME NEW i \in Q, i < x PROVE i + d \in P /\ i + d < x + d
      BY <3>1, <3>4
    <3> QED
      BY <3>2, <3>3, <3>4
  <2>4. Cardinality({j \in P : j < x + d}) = Cardinality(L) + (k - 1)
    <3> DEFINE T == {j \in Q : j < x}
    <3>1. T \in SUBSET Q
      OBVIOUS
    <3>2. Cardinality(L \cup up(T)) = Cardinality(L) + Cardinality(T)
      BY <1>1, <3>1
    <3>3. Cardinality(T) = k - 1
      BY <2>1
    <3> QED
      BY <2>3, <3>2, <3>3
  <2>5. x + d \in P
    OBVIOUS
  <2>6. PICK l \in 1..Cardinality(P) : oP[l] = x + d
    BY <2>2, <2>5
  <2>7. l - 1 = Cardinality(L) + (k - 1)
    BY <2>2, <2>4, <2>6
  <2>8. l = Cardinality(L) + k
    BY <1>3, <2>7
  <2> QED
    BY <2>6, <2>8
<1>5. Cardinality(P) - Cardinality(Q) = Cardinality(L)
  BY <1>3
<1> HIDE DEF L
<1> QED
  BY <1>3, <1>4, <1>5 DEF OrderEndsWith

-----------------------------------------------------------------------------
(* Each key of a sequence has a last place.                                  *)
LEMMA LastPlaceOf ==
  ASSUME NEW V, NEW vs \in Seq(V), NEW i \in 1..Len(vs)
  PROVE  \E p \in FinalPlaces(vs) : p \in 1..Len(vs) /\ vs[p] = vs[i]
<1> DEFINE P == {j \in 1..Len(vs) : vs[j] = vs[i]}
           From(p) == {j \in P : j >= p}
<1>1. Len(vs) \in Nat /\ DOMAIN vs = 1..Len(vs)
  OBVIOUS
<1>2. P \in SUBSET Nat /\ i \in P /\ IsFiniteSet(P)
  <2>1. IsFiniteSet(1..Len(vs))
    BY <1>1, CountTo
  <2> QED
    BY <2>1, FS_Subset
<1>3. Cardinality(P) \in Nat /\ 1 <= Cardinality(P)
  <2>1. Cardinality(P) # 0
    BY <1>2, FS_EmptySet
  <2>2. Cardinality(P) \in Nat
    BY <1>2, FS_CardinalityType
  <2> QED
    BY <2>1, <2>2
<1> DEFINE last == {p \in P : Cardinality(From(p)) <= 1}
<1>4. IsFiniteSet(last) /\ Cardinality(last) >= 1
  BY <1>2, <1>3, LastPlaces
<1>5. PICK p \in last : TRUE
  <2> PICK c \in Nat : c = Cardinality(last)
    BY <1>4, FS_CardinalityType
  <2>1. c >= 1
    BY <1>4
  <2>2. c # 0
    BY <2>1
  <2>3. last # {}
    BY <2>2, FS_EmptySet
  <2> QED
    BY <2>3
<1>6. \A j \in From(p) : j = p
  <2>1. p \in From(p) /\ IsFiniteSet(From(p)) /\ Cardinality(From(p)) <= 1
    BY <1>2, <1>5, FS_Subset
  <2>2. ASSUME NEW j \in From(p), j # p PROVE FALSE
    <3>1. IsFiniteSet({p}) /\ Cardinality({p}) = 1
      BY FS_Singleton
    <3>2. {p} \cup {j} \subseteq From(p)
      BY <2>1
    <3> PICK both : both = {p} \cup {j}
      OBVIOUS
    <3>3. Cardinality(both) = Cardinality({p}) + 1
      BY <2>2, <3>1, FS_AddElement
    <3> HIDE DEF From
    <3>4. Cardinality(both) <= Cardinality(From(p)) /\ Cardinality(From(p)) \in Nat
      BY <2>1, <3>2, FS_Subset, FS_CardinalityType
    <3> QED
      BY <2>1, <3>1, <3>3, <3>4
  <2> QED
    BY <2>2
<1>7. \A j \in 1..Len(vs) : j > p => vs[j] # vs[p]
  <2>1. ASSUME NEW j \in 1..Len(vs), j > p, vs[j] = vs[p] PROVE FALSE
    <3>1. p \in P /\ vs[p] = vs[i]
      BY <1>5
    <3>2. j \in From(p)
      BY <2>1, <3>1
    <3> QED
      BY <1>6, <2>1, <3>2
  <2> QED
    BY <2>1
<1> QED
  BY <1>1, <1>5, <1>7 DEF FinalPlaces

(* No two of them have the same key.                                         *)
LEMMA LastPlacesDiffer ==
  ASSUME NEW V, NEW vs \in Seq(V)
  PROVE  /\ FinalPlaces(vs) \subseteq 1..Len(vs)
         /\ \A p, q \in FinalPlaces(vs) : vs[p] = vs[q] => p = q
<1>1. Len(vs) \in Nat /\ DOMAIN vs = 1..Len(vs) /\ FinalPlaces(vs) \subseteq 1..Len(vs)
  BY DEF FinalPlaces
<1>2. ASSUME NEW p \in FinalPlaces(vs), NEW q \in FinalPlaces(vs), vs[p] = vs[q] PROVE p = q
  <2>1. ~(p > q) /\ ~(q > p)
    BY <1>1, <1>2 DEF FinalPlaces
  <2> QED
    BY <1>1, <2>1
<1> QED
  BY <1>1, <1>2

(* The last n of a sequence.                                                 *)
EndsIn(s, t, n) ==
  /\ Len(t) = IF Len(s) <= n THEN Len(s) ELSE n
  /\ \A k \in 1..Len(t) : Len(s) - Len(t) + k \in 1..Len(s) /\ t[k] = s[Len(s) - Len(t) + k]

LEMMA NewestAre ==
  ASSUME NEW S, NEW s \in Seq(S), NEW n \in Nat
  PROVE  /\ Newest(s, n) \in Seq(S)
         /\ EndsIn(s, Newest(s, n), n)
<1>1. Len(s) \in Nat
  OBVIOUS
<1>2. CASE Len(s) <= n
  <2>1. Newest(s, n) = s /\ \A k \in 1..Len(s) : Len(s) - Len(s) + k = k
    BY <1>1, <1>2 DEF Newest
  <2> QED
    BY <1>2, <2>1 DEF EndsIn
<1>3. CASE ~(Len(s) <= n)
  <2> DEFINE a == Len(s) - n + 1
             t == SubSeq(s, a, Len(s))
  <2>1. a \in 1..(Len(s) + 1) /\ Len(s) - a + 1 = n
    BY <1>1, <1>3
  <2>2. Newest(s, n) = t
    BY <1>3 DEF Newest
  <2>3. t \in Seq(S) /\ Len(t) = n /\ \A k \in 1..n : t[k] = s[a + k - 1]
    BY <1>1, <1>3, <2>1
  <2> HIDE DEF t
  <2>4. \A k \in 1..n : a + k - 1 = Len(s) - n + k /\ Len(s) - n + k \in 1..Len(s)
    BY <1>1, <1>3
  <2> QED
    BY <1>3, <2>2, <2>3, <2>4 DEF EndsIn
<1> QED
  BY <1>2, <1>3

(* The first n of a sequence.                                                *)
LEMMA ForemostAre ==
  ASSUME NEW S, NEW s \in Seq(S), NEW n \in Nat
  PROVE  /\ Foremost(s, n) \in Seq(S)
         /\ Len(Foremost(s, n)) = IF Len(s) <= n THEN Len(s) ELSE n
         /\ \A k \in 1..Len(Foremost(s, n)) : k \in 1..Len(s) /\ Foremost(s, n)[k] = s[k]
<1>1. Len(s) \in Nat
  OBVIOUS
<1>2. CASE Len(s) <= n
  BY <1>1, <1>2 DEF Foremost
<1>3. CASE ~(Len(s) <= n)
  <2> DEFINE t == SubSeq(s, 1, n)
  <2>1. Foremost(s, n) = t
    BY <1>3 DEF Foremost
  <2>2. t \in Seq(S) /\ Len(t) = n /\ \A k \in 1..n : t[k] = s[k]
    BY <1>1, <1>3
  <2> QED
    BY <1>1, <1>3, <2>1, <2>2
<1> QED
  BY <1>2, <1>3

-----------------------------------------------------------------------------
(* What the embedder knows are the texts of the latest vectors.              *)
VectorSet == Range(VectorOf)
Entries == {e \in [vector : VectorSet, text : Cues] : VectorOf[e.text] = e.vector}
PairsFit ==
  /\ paired \in Seq(Entries) /\ fresh \in Seq(VectorSet) /\ IsInjective(fresh)
  /\ Len(paired) = IF Len(fresh) <= TextCapacity THEN Len(fresh) ELSE TextCapacity
  /\ \A k \in 1..Len(paired) : /\ Len(fresh) - Len(paired) + k \in 1..Len(fresh)
                               /\ paired[k].vector = fresh[Len(fresh) - Len(paired) + k]

LEMMA VectorsAre ==
  ASSUME NEW es \in Seq(Entries)
  PROVE  /\ Vectors(es) \in Seq(VectorSet) /\ Len(Vectors(es)) = Len(es)
         /\ \A i \in 1..Len(es) : Vectors(es)[i] = es[i].vector
<1>1. Len(es) \in Nat /\ DOMAIN es = 1..Len(es)
  OBVIOUS
<1>2. \A i \in 1..Len(es) : es[i] \in Entries
  BY ElementOfSeq
<1>3. \A e \in Entries : e.vector \in VectorSet
  BY DEF Entries
<1>4. Vectors(es) \in [1..Len(es) -> VectorSet]
  BY <1>1, <1>2, <1>3 DEF Vectors
<1>5. Vectors(es) \in Seq(VectorSet) /\ Len(Vectors(es)) = Len(es)
  BY <1>1, <1>4, SeqDef, LenProperties
<1> QED
  BY <1>1, <1>5 DEF Vectors

LEMMA CuesGiveEntries ==
  ASSUME NEW cues \in CueLists
  PROVE  [i \in DOMAIN cues |-> [vector |-> VectorOf[cues[i]], text |-> cues[i]]] \in Seq(Entries)
<1> DEFINE es == [i \in DOMAIN cues |-> [vector |-> VectorOf[cues[i]], text |-> cues[i]]]
<1>1. cues \in Seq(Cues)
  BY RecallAssumption
<1>2. Len(cues) \in Nat /\ DOMAIN cues = 1..Len(cues) /\ \A i \in 1..Len(cues) : cues[i] \in Cues
  BY <1>1, ElementOfSeq
<1>3. \A c \in Cues : [vector |-> VectorOf[c], text |-> c] \in Entries
  <2>1. \A c \in Cues : VectorOf[c] \in VectorSet
    BY RecallAssumption DEF VectorSet
  <2> QED
    BY <2>1 DEF Entries
<1>4. es \in [1..Len(cues) -> Entries]
  BY <1>2, <1>3
<1> QED
  BY <1>2, <1>4, SeqDef

(* Of a longer history and its end the last places are the same.             *)
IsEnd(vs, keys, d) == Len(keys) = Len(vs) + d /\ \A i \in 1..Len(vs) : vs[i] = keys[i + d]

LEMMA EndOfHistory ==
  ASSUME NEW V, NEW keys \in Seq(V), NEW vs \in Seq(V), NEW d \in Nat, IsEnd(vs, keys, d),
         NEW P, P = FinalPlaces(keys), NEW Q, Q = FinalPlaces(vs), NEW a, a = Cardinality(P) - Cardinality(Q)
  PROVE  OrderEndsWith(P, Q, d, a) /\ (d = 0 => a = 0)
<1>1. /\ Len(vs) \in Nat /\ DOMAIN vs = 1..Len(vs) /\ Len(keys) \in Nat /\ DOMAIN keys = 1..Len(keys)
      /\ Len(keys) = Len(vs) + d /\ \A i \in 1..Len(vs) : vs[i] = keys[i + d]
  BY DEF IsEnd
<1>2. FinalPlaces(keys) \in SUBSET (1..(Len(vs) + d)) /\ FinalPlaces(vs) \subseteq 1..Len(vs)
  BY <1>1, LastPlacesDiffer
<1>3. FinalPlaces(vs) = {p \in 1..Len(vs) : p + d \in FinalPlaces(keys)}
  <2>1. ASSUME NEW p \in 1..Len(vs), p \in FinalPlaces(vs) PROVE p + d \in FinalPlaces(keys)
    <3>1. p + d \in 1..Len(keys)
      BY <1>1
    <3>2. ASSUME NEW j \in 1..Len(keys), j > p + d PROVE keys[j] # keys[p + d]
      <4>1. j - d \in 1..Len(vs) /\ j - d > p /\ (j - d) + d = j
        BY <1>1, <3>2
      <4>2. vs[j - d] # vs[p]
        BY <1>1, <2>1, <4>1 DEF FinalPlaces
      <4>3. vs[j - d] = keys[j]
        BY <1>1, <4>1
      <4> QED
        BY <1>1, <2>1, <4>2, <4>3
    <3> QED
      BY <1>1, <3>1, <3>2 DEF FinalPlaces
  <2>2. ASSUME NEW p \in 1..Len(vs), p + d \in FinalPlaces(keys) PROVE p \in FinalPlaces(vs)
    <3>1. ASSUME NEW j \in 1..Len(vs), j > p PROVE vs[j] # vs[p]
      <4>1. j + d \in 1..Len(keys) /\ j + d > p + d
        BY <1>1, <3>1
      <4>2. keys[j + d] # keys[p + d]
        BY <1>1, <2>2, <4>1 DEF FinalPlaces
      <4> QED
        BY <1>1, <2>2, <3>1, <4>2
    <3> QED
      BY <1>1, <3>1 DEF FinalPlaces
  <2> QED
    BY <1>2, <2>1, <2>2
<1>4. d = 0 => FinalPlaces(vs) = FinalPlaces(keys)
  BY <1>1, <1>2, <1>3
<1>5. Q = {p \in 1..Len(vs) : p + d \in P}
  BY <1>3
<1>6. P \in SUBSET (1..(Len(vs) + d))
  BY <1>2
<1>7. OrderEndsWith(P, Q, d, Cardinality(P) - Cardinality(Q))
  <2> PICK n \in Nat : n = Len(vs)
    BY <1>1
  <2> QED
    BY <1>5, <1>6, OrderAtEnd
<1>8. d = 0 => Cardinality(P) - Cardinality(Q) = 0
  <2>1. Cardinality(P) \in Nat
    <3>1. Len(vs) + d \in Nat
      BY <1>1
    <3> QED
      BY <1>6, <3>1, PlacesNumbered
  <2> QED
    BY <1>4, <2>1
<1> QED
  BY <1>7, <1>8

LEMMA JoinedLists ==
  ASSUME NEW S, NEW s \in Seq(S), NEW t \in Seq(S)
  PROVE  s \o t \in Seq(S) /\ Len(s \o t) = Len(s) + Len(t)
OBVIOUS

LEMMA JoinedFront ==
  ASSUME NEW S, NEW s \in Seq(S), NEW t \in Seq(S), NEW i \in 1..Len(s)
  PROVE  (s \o t)[i] = s[i]
OBVIOUS

LEMMA JoinedBack ==
  ASSUME NEW S, NEW s \in Seq(S), NEW t \in Seq(S), NEW i \in 1..Len(t)
  PROVE  (s \o t)[Len(s) + i] = t[i]
OBVIOUS

LEMMA EmbedCuesPairs ==
  ASSUME PairsFit, NEW cues \in CueLists, EmbedCues(cues) PROVE PairsFit'
<1> DEFINE es == [i \in DOMAIN cues |-> [vector |-> VectorOf[cues[i]], text |-> cues[i]]]
           all == paired \o es
           vs == Vectors(all)
           keys == fresh \o Vectors(es)
           d == Len(fresh) - Len(paired)
           P == FinalPlaces(keys)
           Q == FinalPlaces(vs)
           a == Cardinality(P) - Cardinality(Q)
           kept == Picked(all, Q)
           latest == Picked(keys, P)
<1>1. es \in Seq(Entries)
  BY CuesGiveEntries
<1>2. paired' = Newest(kept, TextCapacity) /\ fresh' = latest
  BY DEF EmbedCues, Paired
<1> HIDE DEF es
<1>3. /\ paired \in Seq(Entries) /\ fresh \in Seq(VectorSet) /\ IsInjective(fresh)
      /\ Len(paired) = IF Len(fresh) <= TextCapacity THEN Len(fresh) ELSE TextCapacity
      /\ \A k \in 1..Len(paired) : d + k \in 1..Len(fresh) /\ paired[k].vector = fresh[d + k]
      /\ TextCapacity \in Nat \ {0}
  BY RecallAssumption DEF PairsFit
<1> PICK np \in Nat, nf \in Nat, ne \in Nat : np = Len(paired) /\ nf = Len(fresh) /\ ne = Len(es)
  BY <1>1, <1>3
<1>20. d \in Nat /\ d = nf - np /\ (d # 0 => np = TextCapacity)
  BY <1>3
<1>4. /\ all \in Seq(Entries) /\ Len(all) = np + ne
      /\ \A i \in 1..np : all[i] = paired[i]
      /\ \A i \in 1..ne : all[np + i] = es[i]
  <2>0. paired \in Seq(Entries)
    BY <1>3
  <2>1. all \in Seq(Entries)
    BY <1>1, <2>0, JoinedLists
  <2>2. Len(all) = Len(paired) + Len(es)
    BY <1>1, <2>0, JoinedLists
  <2>3. ASSUME NEW i \in 1..Len(paired) PROVE all[i] = paired[i]
    BY <1>1, <2>0, JoinedFront
  <2>4. ASSUME NEW i \in 1..Len(es) PROVE all[Len(paired) + i] = es[i]
    BY <1>1, <2>0, JoinedBack
  <2> QED
    BY <2>1, <2>2, <2>3, <2>4
<1>5. /\ Vectors(es) \in Seq(VectorSet) /\ Len(Vectors(es)) = ne
      /\ \A i \in 1..ne : Vectors(es)[i] = es[i].vector
  BY <1>1, VectorsAre
<1> DEFINE new == Vectors(es)
<1> HIDE DEF new
<1>6. /\ keys \in Seq(VectorSet) /\ Len(keys) = nf + ne
      /\ \A i \in 1..nf : keys[i] = fresh[i]
      /\ \A i \in 1..ne : keys[nf + i] = es[i].vector
  <2>0. fresh \in Seq(VectorSet) /\ new \in Seq(VectorSet) /\ Len(new) = ne
    BY <1>3, <1>5 DEF new
  <2>5. keys = fresh \o new
    BY DEF new
  <2>1. fresh \o new \in Seq(VectorSet)
    BY <2>0, JoinedLists
  <2>2. Len(fresh \o new) = Len(fresh) + Len(new)
    BY <2>0, JoinedLists
  <2>3. ASSUME NEW i \in 1..Len(fresh) PROVE (fresh \o new)[i] = fresh[i]
    BY <2>0, JoinedFront
  <2>4. ASSUME NEW i \in 1..Len(new) PROVE (fresh \o new)[Len(fresh) + i] = new[i]
    BY <2>0, JoinedBack
  <2> HIDE DEF keys
  <2>6. \A i \in 1..ne : new[i] = es[i].vector
    BY <1>5 DEF new
  <2> QED
    BY <2>0, <2>1, <2>2, <2>3, <2>4, <2>5, <2>6
<1> HIDE DEF all, keys
<1>7. vs \in Seq(VectorSet) /\ Len(vs) = Len(all) /\ \A i \in 1..Len(all) : vs[i] = all[i].vector
  BY <1>4, VectorsAre
<1> HIDE DEF vs, d
<1>8. Len(keys) = Len(vs) + d
  BY <1>20, <1>4, <1>6, <1>7
<1>9. ASSUME NEW i \in 1..Len(vs) PROVE vs[i] = keys[i + d]
  <2>1. i \in 1..(np + ne) /\ vs[i] = all[i].vector
    BY <1>4, <1>7
  <2>2. CASE i \in 1..np
    <3>1. i + d \in 1..nf /\ paired[i].vector = fresh[i + d]
      <4>1. d + i = i + d
        BY <1>20
      <4>2. d + i \in 1..Len(fresh) /\ paired[i].vector = fresh[d + i]
        BY <2>2, <1>3 DEF d
      <4> QED
        BY <4>1, <4>2
    <3> QED
      BY <2>1, <2>2, <3>1, <1>4, <1>6
  <2>3. CASE ~(i \in 1..np)
    <3> PICK l \in 1..ne : i = np + l
      <4>1. i - np \in 1..ne /\ i = np + (i - np)
        BY <2>1, <2>3
      <4> QED
        BY <4>1
    <3>1. i + d = nf + l
      BY <1>20
    <3> QED
      BY <2>1, <3>1, <1>4, <1>6
  <2> QED
    BY <2>2, <2>3
<1>10. /\ a \in Nat /\ (d = 0 => a = 0)
       /\ \A k \in 1..Cardinality(Q) : InOrder(P, Earlier(P))[a + k] = InOrder(Q, Earlier(Q))[k] + d
  <2>3. keys \in Seq(VectorSet) /\ vs \in Seq(VectorSet) /\ d \in Nat
    BY <1>20, <1>6, <1>7
  <2>4. IsEnd(vs, keys, d)
    BY <1>8, <1>9 DEF IsEnd
  <2>5. P = FinalPlaces(keys) /\ Q = FinalPlaces(vs) /\ a = Cardinality(P) - Cardinality(Q)
    OBVIOUS
  <2>1. a \in Nat /\ (d = 0 => a = 0)
    <3> HIDE DEF a, P, Q
    <3> QED
      BY <2>3, <2>4, <2>5, EndOfHistory DEF OrderEndsWith
  <2>2. ASSUME NEW k \in 1..Cardinality(Q)
        PROVE  InOrder(P, Earlier(P))[a + k] = InOrder(Q, Earlier(Q))[k] + d
    <3> HIDE DEF a, P, Q
    <3> QED
      BY <2>3, <2>4, <2>5, EndOfHistory DEF OrderEndsWith
  <2> QED
    BY <2>1, <2>2
<1>11. /\ P \subseteq 1..Len(keys) /\ \A p, q \in P : keys[p] = keys[q] => p = q
       /\ Q \subseteq 1..Len(all) /\ \A p, q \in Q : vs[p] = vs[q] => p = q
  BY <1>6, <1>7, LastPlacesDiffer
<1>12. /\ latest \in Seq(VectorSet) /\ Len(latest) = Cardinality(P) /\ IsInjective(latest)
       /\ Cardinality(P) \in Nat
  <2>1. keys \in Seq(VectorSet) /\ P \in SUBSET (1..Len(keys)) /\ Len(keys) \in Nat
    BY <1>6, <1>11
  <2>2. \A p, q \in P : keys[p] = keys[q] => p = q
    BY <1>11
  <2> HIDE DEF keys, P
  <2>3. latest \in Seq(VectorSet) /\ Len(latest) = Cardinality(P) /\ Cardinality(P) \in 0..Len(keys)
    BY <2>1, PickedIs
  <2>4. IsInjective(latest)
    BY <2>1, <2>2, PickedIs
  <2> QED
    BY <2>1, <2>3, <2>4
<1>13. kept \in Seq(Entries) /\ Len(kept) = Cardinality(Q) /\ Cardinality(Q) \in Nat
  BY <1>4, <1>11, PickedIs
<1>14. ASSUME NEW k \in 1..Cardinality(Q)
       PROVE  a + k \in 1..Cardinality(P) /\ kept[k].vector = latest[a + k]
  <2>1. a + k \in 1..Cardinality(P)
    BY <1>10, <1>12, <1>13
  <2>2. /\ InOrder(Q, Earlier(Q)) \in [1..Cardinality(Q) -> Q]
        /\ kept = [l \in 1..Cardinality(Q) |-> all[InOrder(Q, Earlier(Q))[l]]]
    <3> PICK n \in Nat : n = Len(all)
      BY <1>4
    <3>1. Q \in SUBSET (1..n)
      BY <1>11
    <3> HIDE DEF Q
    <3>2. Numbers(InOrder(Q, Earlier(Q)), Q)
      BY <3>1, PlacesNumbered
    <3>3. Picked(all, Q) = [l \in 1..Cardinality(Q) |-> all[InOrder(Q, Earlier(Q))[l]]]
      BY <3>2, PickedFrom
    <3> QED
      BY <3>2, <3>3 DEF Numbers
  <2>3. latest = [l \in 1..Cardinality(P) |-> keys[InOrder(P, Earlier(P))[l]]]
    <3> PICK n \in Nat : n = Len(keys)
      BY <1>6
    <3>1. P \in SUBSET (1..n)
      BY <1>11
    <3> HIDE DEF P
    <3>2. Numbers(InOrder(P, Earlier(P)), P)
      BY <3>1, PlacesNumbered
    <3>3. Picked(keys, P) = [l \in 1..Cardinality(P) |-> keys[InOrder(P, Earlier(P))[l]]]
      BY <3>2, PickedFrom
    <3> QED
      BY <3>3
  <2> PICK o \in 1..Len(all) : o = InOrder(Q, Earlier(Q))[k]
    BY <1>11, <2>2
  <2>4. kept[k] = all[o] /\ latest[a + k] = keys[o + d]
    BY <1>10, <2>1, <2>2, <2>3
  <2>5. all[o].vector = keys[o + d]
    BY <1>7, <1>9
  <2> QED
    BY <2>1, <2>4, <2>5
<1>15. d # 0 => Cardinality(Q) >= TextCapacity
  <2> SUFFICES ASSUME d # 0 PROVE Cardinality(Q) >= TextCapacity
    OBVIOUS
  <2>1. np = TextCapacity
    BY <1>20
  <2> DEFINE f == [i \in 1..TextCapacity |-> CHOOSE p \in Q : vs[p] = vs[i]]
  <2>2. \A i \in 1..TextCapacity : \E p \in Q : vs[p] = vs[i]
    <3>1. \A i \in 1..TextCapacity : i \in 1..Len(vs)
      BY <1>4, <1>7, <2>1
    <3> QED
      BY <1>7, <3>1, LastPlaceOf
  <2>3. \A i \in 1..TextCapacity : f[i] \in Q /\ vs[f[i]] = vs[i]
    BY <2>2
  <2>4. f \in [1..TextCapacity -> Q]
    BY <2>3
  <2> HIDE DEF f
  <2>5. \A i, j \in 1..TextCapacity : vs[i] = vs[j] => i = j
    <3>1. ASSUME NEW i \in 1..TextCapacity PROVE d + i \in 1..nf /\ vs[i] = fresh[d + i]
      <4>1. i \in 1..np /\ i \in 1..Len(all)
        BY <1>4, <2>1
      <4>2. vs[i] = paired[i].vector
        BY <1>4, <1>7, <4>1
      <4> QED
        BY <1>3, <4>1, <4>2 DEF d
    <3>2. ASSUME NEW i \in 1..TextCapacity, NEW j \in 1..TextCapacity, vs[i] = vs[j] PROVE i = j
      <4>1. DOMAIN fresh = 1..nf
        BY <1>3
      <4>2. d + i = d + j
        BY <1>3, <3>1, <3>2, <4>1 DEF IsInjective
      <4> QED
        BY <1>20, <1>3, <4>2
    <3> QED
      BY <3>2
  <2>6. f \in Injection(1..TextCapacity, Q)
    BY <2>3, <2>4, <2>5 DEF Injection, IsInjective
  <2>7. IsFiniteSet(Q)
    <3>1. IsFiniteSet(1..Len(all))
      BY <1>4, CountTo
    <3> QED
      BY <1>11, <3>1, FS_Subset
  <2>8. Cardinality(1..TextCapacity) <= Cardinality(Q)
    BY <2>6, <2>7, FS_Injection
  <2>9. Cardinality(1..TextCapacity) = TextCapacity
    BY <1>3, CountTo
  <2> QED
    BY <1>3, <1>13, <2>8, <2>9
<1> HIDE DEF kept, latest, P, Q
<1>16. /\ paired' \in Seq(Entries)
       /\ Len(paired') = IF Cardinality(Q) <= TextCapacity THEN Cardinality(Q) ELSE TextCapacity
       /\ \A k \in 1..Len(paired') : /\ Cardinality(Q) - Len(paired') + k \in 1..Cardinality(Q)
                                     /\ paired'[k] = kept[Cardinality(Q) - Len(paired') + k]
  <2> PICK n \in Nat : n = TextCapacity
    BY <1>3
  <2>0. EndsIn(kept, Newest(kept, n), n) /\ Newest(kept, n) \in Seq(Entries)
    BY <1>13, NewestAre
  <2>1. Newest(kept, n) \in Seq(Entries)
    BY <2>0
  <2>2. Len(Newest(kept, n)) = IF Len(kept) <= n THEN Len(kept) ELSE n
    BY <2>0 DEF EndsIn
  <2>3. \A k \in 1..Len(Newest(kept, n)) : Len(kept) - Len(Newest(kept, n)) + k \in 1..Len(kept)
    BY <2>0 DEF EndsIn
  <2>4. \A k \in 1..Len(Newest(kept, n)) : Newest(kept, n)[k] = kept[Len(kept) - Len(Newest(kept, n)) + k]
    BY <2>0 DEF EndsIn
  <2> QED
    BY <1>2, <1>13, <2>1, <2>2, <2>3, <2>4
<1>17. Len(paired') \in Nat /\ Len(fresh') = Cardinality(P) /\ fresh' \in Seq(VectorSet) /\ IsInjective(fresh')
  BY <1>2, <1>12, <1>16
<1>18. Len(paired') = IF Cardinality(P) <= TextCapacity THEN Cardinality(P) ELSE TextCapacity
  <2>1. CASE d = 0
    <3>1. Cardinality(P) = Cardinality(Q)
      BY <2>1, <1>10, <1>12, <1>13
    <3> QED
      BY <3>1, <1>16
  <2>2. CASE d # 0
    <3>1. Cardinality(Q) >= TextCapacity /\ Cardinality(P) >= Cardinality(Q)
      BY <2>2, <1>10, <1>12, <1>13, <1>15
    <3> QED
      BY <3>1, <1>3, <1>12, <1>13, <1>16
  <2> QED
    BY <2>1, <2>2
<1>19. ASSUME NEW k \in 1..Len(paired')
       PROVE  Cardinality(P) - Len(paired') + k \in 1..Cardinality(P) /\ paired'[k].vector = latest[Cardinality(P) - Len(paired') + k]
  <2> PICK l \in 1..Cardinality(Q) : l = Cardinality(Q) - Len(paired') + k
    BY <1>16
  <2>1. paired'[k] = kept[l] /\ a + l \in 1..Cardinality(P) /\ kept[l].vector = latest[a + l]
    BY <1>14, <1>16
  <2>2. a + l = Cardinality(P) - Len(paired') + k
    BY <1>12, <1>13, <1>17
  <2> QED
    BY <2>1, <2>2
<1> QED
  BY <1>2, <1>16, <1>17, <1>18, <1>19 DEF PairsFit

-----------------------------------------------------------------------------
(* Of rows that are each there once, what passes the score is returned, up to *)
(* the limit.                                                                *)
Passed(rows, score, found) ==
  LET good == {i \in 1..Len(rows) : score[rows[i]] >= MinScore}
  IN /\ found \in Seq(Notes) /\ Len(found) <= RecallLimit /\ IsInjective(found)
     /\ \A n \in Range(found) : score[n] >= MinScore /\ n \in Range(rows)
     /\ \A i \in good : rows[i] \in Range(found) \/ Len(found) = RecallLimit
     /\ Len(rows) <= RecallLimit => \A i \in good : rows[i] \in Range(found)
     /\ Len(rows) = RecallLimit /\ good = 1..Len(rows) => Len(found) = RecallLimit

LEMMA PassingIs ==
  ASSUME NEW rows \in Seq(Notes), IsInjective(rows), NEW score
  PROVE  Passed(rows, score,
                Foremost(Picked(rows, {i \in DOMAIN rows : score[rows[i]] >= MinScore}), RecallLimit))
<1> DEFINE good == {i \in 1..Len(rows) : score[rows[i]] >= MinScore}
           kept == Picked(rows, good)
           found == Foremost(kept, RecallLimit)
<1>1. /\ Len(rows) \in Nat /\ DOMAIN rows = 1..Len(rows) /\ good \in SUBSET (1..Len(rows))
      /\ RecallLimit \in Nat
  BY RecallAssumption
<1>2. /\ \A i, j \in good : rows[i] = rows[j] => i = j
      /\ \A i \in good : score[rows[i]] >= MinScore /\ rows[i] \in Range(rows)
  BY <1>1 DEF IsInjective, Range
<1>10. good = 1..Len(rows) => Cardinality(good) = Len(rows)
  BY <1>1, CountTo
<1> HIDE DEF good
<1>3. kept \in Seq(Notes) /\ Len(kept) = Cardinality(good) /\ Cardinality(good) \in 0..Len(rows)
  BY <1>1, PickedIs
<1>4. Range(kept) = {rows[i] : i \in good}
  BY <1>1, PickedIs
<1>5. IsInjective(kept)
  BY <1>1, <1>2, PickedIs
<1> HIDE DEF kept
<1>6. found \in Seq(Notes)
  BY <1>1, <1>3, ForemostAre
<1>7. Len(found) = IF Len(kept) <= RecallLimit THEN Len(kept) ELSE RecallLimit
  BY <1>1, <1>3, ForemostAre
<1>8. \A k \in 1..Len(found) : k \in 1..Len(kept) /\ found[k] = kept[k]
  BY <1>1, <1>3, ForemostAre
<1>9. Len(kept) <= RecallLimit => found = kept
  BY DEF Foremost
<1> HIDE DEF found
<1>11. DOMAIN found = 1..Len(found) /\ DOMAIN kept = 1..Len(kept) /\ Len(found) \in Nat
  BY <1>3, <1>6
<1>12. IsInjective(found)
  BY <1>5, <1>8, <1>11 DEF IsInjective
<1>13. ASSUME NEW n \in Range(found) PROVE score[n] >= MinScore /\ n \in Range(rows)
  <2> PICK k \in 1..Len(found) : n = found[k]
    BY <1>11 DEF Range
  <2>1. n \in Range(kept)
    BY <1>8, <1>11 DEF Range
  <2> QED
    BY <2>1, <1>2, <1>4
<1>14. Len(kept) <= RecallLimit => \A i \in good : rows[i] \in Range(found)
  BY <1>4, <1>9
<1>15. Len(found) <= RecallLimit /\ (~(Len(kept) <= RecallLimit) => Len(found) = RecallLimit)
  BY <1>1, <1>3, <1>7
<1>16. \A i \in good : rows[i] \in Range(found) \/ Len(found) = RecallLimit
  BY <1>14, <1>15
<1>17. Len(rows) <= RecallLimit => \A i \in good : rows[i] \in Range(found)
  <2>1. Len(rows) <= RecallLimit => Len(kept) <= RecallLimit
    BY <1>1, <1>3
  <2> QED
    BY <2>1, <1>14
<1>18. Len(rows) = RecallLimit /\ good = 1..Len(rows) => Len(found) = RecallLimit
  BY <1>3, <1>7, <1>10
<1>19. Passed(rows, score, found)
  BY <1>6, <1>12, <1>13, <1>15, <1>16, <1>17, <1>18 DEF Passed, good
<1>20. {i \in DOMAIN rows : score[rows[i]] >= MinScore} = good
  BY <1>1 DEF good
<1> QED
  BY <1>19, <1>20 DEF found, kept

(* What a thread holds, and what a search that is done has found.            *)
SeekerRecords ==
  [pc : {"idle", "scan", "retrieve", "rows", "done"}, vector : VectorSet \cup {NoVector},
   text : Cues \cup {NoCue}, filter : SUBSET Notes, keys : Seq(Notes \cup Plain),
   found : Seq(Notes), seen : SUBSET (Notes \cup Plain)]

Passes(r, n) == n \in r.filter \cap r.seen /\ Cosine[r.vector][n] >= MinScore

FoundRight(r) ==
  /\ Len(r.found) <= RecallLimit /\ IsInjective(r.found)
  /\ Range(r.found) \subseteq Notes /\ \A n \in Range(r.found) : Passes(r, n)
  /\ r.text = NoCue =>
       \A n : Passes(r, n) /\ n \notin Range(r.found) =>
         Len(r.found) = RecallLimit /\ \A m \in Range(r.found) : Cosine[r.vector][m] >= Cosine[r.vector][n]
  /\ r.text # NoCue =>
       \A n \in Range(r.keys) : Passes(r, n) /\ n \notin Range(r.found) => Len(r.found) = RecallLimit

SeekerFits(r) ==
  /\ r \in SeekerRecords /\ IsInjective(r.keys)
  /\ r.pc # "idle" => r.vector \in VectorSet
  /\ r.pc = "scan" => r.text = NoCue
  /\ r.pc \in {"retrieve", "rows"} => r.text # NoCue
  /\ r.pc = "done" => FoundRight(r)

RecallInv ==
  /\ PairsFit /\ live \subseteq Notes \cup Plain
  /\ seekers \in [Seekers -> SeekerRecords] /\ \A s \in Seekers : SeekerFits(seekers[s])

LEMMA AtRestFits == SeekerFits(AtRest)
<1>1. <<>> \in Seq(Notes) /\ <<>> \in Seq(Notes \cup Plain) /\ IsInjective(<<>>)
  BY DEF IsInjective
<1> QED
  BY <1>1 DEF AtRest, SeekerFits, SeekerRecords

(* A text that is found is one of the vector's.                              *)
LEMMA TextForIs ==
  ASSUME PairsFit, NEW v
  PROVE  /\ TextFor(v) \in Cues \cup {NoCue}
         /\ (\E i \in 1..Len(paired) : paired[i].vector = v) => TextFor(v) \in Cues
<1>1. paired \in Seq(Entries) /\ DOMAIN paired = 1..Len(paired)
  BY DEF PairsFit
<1>2. \A i \in 1..Len(paired) : paired[i].text \in Cues
  BY <1>1, ElementOfSeq DEF Entries
<1> QED
  BY <1>1, <1>2 DEF TextFor

(* One thread steps, and what it holds then is right.                        *)
LEMMA SeekerSteps ==
  ASSUME RecallInv, NEW s \in Seekers, NEW r, SeekerFits(r), seekers' = [seekers EXCEPT ![s] = r],
         UNCHANGED <<paired, live, fresh>>
  PROVE  RecallInv'
<1>1. r \in SeekerRecords
  BY DEF SeekerFits
<1>2. seekers' \in [Seekers -> SeekerRecords]
  BY <1>1 DEF RecallInv
<1>3. \A q \in Seekers : seekers'[q] = IF q = s THEN r ELSE seekers[q]
  BY DEF RecallInv
<1>4. \A q \in Seekers : SeekerFits(seekers'[q])
  BY <1>3 DEF RecallInv
<1>5. PairsFit'
  BY DEF RecallInv, PairsFit
<1> QED
  BY <1>2, <1>4, <1>5 DEF RecallInv

LEMMA StartSearchFits ==
  ASSUME RecallInv, NEW s \in Seekers, NEW v \in Range(VectorOf), NEW filter \in NoteFilters,
         StartSearch(s, v, filter)
  PROVE  RecallInv'
<1> DEFINE r == [AtRest EXCEPT !.pc = IF TextFor(v) = NoCue THEN "scan" ELSE "retrieve",
                               !.vector = v, !.filter = filter, !.text = TextFor(v)]
<1>1. seekers' = [seekers EXCEPT ![s] = r] /\ UNCHANGED <<paired, live, fresh>>
  BY DEF StartSearch
<1>2. TextFor(v) \in Cues \cup {NoCue} /\ filter \in SUBSET Notes /\ v \in VectorSet
  BY TextForIs, RecallAssumption DEF RecallInv, VectorSet
<1>3. /\ r.pc = IF TextFor(v) = NoCue THEN "scan" ELSE "retrieve"
      /\ r.vector = v /\ r.text = TextFor(v) /\ r.keys = AtRest.keys
  BY DEF AtRest
<1>4. r \in SeekerRecords
  BY <1>2, AtRestFits DEF AtRest, SeekerFits, SeekerRecords
<1>5. IsInjective(r.keys)
  BY <1>3, AtRestFits DEF SeekerFits
<1> HIDE DEF r
<1>6. SeekerFits(r)
  BY <1>2, <1>3, <1>4, <1>5 DEF SeekerFits
<1> QED
  BY <1>1, <1>6, SeekerSteps

LEMMA RetrieveHitsFits ==
  ASSUME RecallInv, NEW s \in Seekers, RetrieveHits(s) PROVE RecallInv'
<1>1. SeekerFits(seekers[s]) /\ seekers[s] \in SeekerRecords /\ live \subseteq Notes \cup Plain
  BY DEF RecallInv
<1>2. PICK keys \in {k \in UNION {[1..n -> live] : n \in 0..(RecallLimit * Factor)} : IsInjective(k)} :
        seekers' = [seekers EXCEPT ![s].pc = "rows", ![s].keys = keys]
  BY DEF RetrieveHits
<1> DEFINE r == [seekers[s] EXCEPT !.pc = "rows", !.keys = keys]
<1>3. PICK n \in 0..(RecallLimit * Factor) : keys \in [1..n -> live]
  OBVIOUS
<1>4. n \in Nat
  BY RecallAssumption
<1>5. keys \in Seq(Notes \cup Plain)
  <2>1. keys \in [1..n -> Notes \cup Plain]
    BY <1>1, <1>3
  <2> QED
    BY <1>4, <2>1, SeqDef
<1>6. seekers' = [seekers EXCEPT ![s] = r]
  BY <1>2
<1>7. /\ r.pc = "rows" /\ r.keys = keys /\ r.vector = seekers[s].vector /\ r.text = seekers[s].text
      /\ r \in SeekerRecords
  BY <1>1, <1>5 DEF SeekerRecords
<1>8. seekers[s].pc = "retrieve" /\ UNCHANGED <<paired, live, fresh>> /\ IsInjective(keys)
  BY DEF RetrieveHits
<1> HIDE DEF r
<1>9. SeekerFits(r)
  BY <1>1, <1>7, <1>8 DEF SeekerFits
<1> QED
  BY <1>6, <1>8, <1>9, SeekerSteps

(* Rows of this backend, each once, that are returned from.                  *)
LEMMA ReturnsFits ==
  ASSUME RecallInv, NEW s \in Seekers, seekers[s].pc \in {"rows", "scan"}, NEW rows \in Seq(Notes),
         IsInjective(rows), Returns(s, rows),
         NEW r, r = [seekers[s] EXCEPT !.pc = "done", !.found = Passing(s, rows), !.seen = live]
  PROVE  /\ Passed(rows, Cosine[seekers[s].vector], r.found)
         /\ r.seen = live /\ r.filter = seekers[s].filter /\ r.vector = seekers[s].vector
         /\ r.text = seekers[s].text /\ r.keys = seekers[s].keys
         /\ FoundRight(r) => RecallInv'
<1>1. SeekerFits(seekers[s]) /\ seekers[s] \in SeekerRecords /\ live \subseteq Notes \cup Plain
  BY DEF RecallInv
<1>2. Passed(rows, Cosine[seekers[s].vector], Passing(s, rows))
  BY PassingIs DEF Passing
<1>3. Passing(s, rows) \in Seq(Notes)
  BY <1>2 DEF Passed
<1>4. seekers' = [seekers EXCEPT ![s] = r] /\ UNCHANGED <<paired, live, fresh>>
  BY DEF Returns
<1>5. /\ r.pc = "done" /\ r.found = Passing(s, rows) /\ r.seen = live
      /\ r.filter = seekers[s].filter /\ r.vector = seekers[s].vector
      /\ r.text = seekers[s].text /\ r.keys = seekers[s].keys
      /\ r \in SeekerRecords
  BY <1>1, <1>3 DEF SeekerRecords
<1>6. ASSUME FoundRight(r) PROVE RecallInv'
  <2>1. SeekerFits(r)
    BY <1>1, <1>5, <1>6 DEF SeekerFits
  <2> QED
    BY <1>4, <2>1, SeekerSteps
<1> QED
  BY <1>2, <1>5, <1>6

LEMMA ReadHitRowsFits ==
  ASSUME RecallInv, NEW s \in Seekers, ReadHitRows(s) PROVE RecallInv'
<1> DEFINE keys == seekers[s].keys
           there == {i \in DOMAIN keys : keys[i] \in seekers[s].filter \cap live}
           rows == Picked(keys, there)
           r == [seekers[s] EXCEPT !.pc = "done", !.found = Passing(s, rows), !.seen = live]
<1>1. seekers[s].pc = "rows" /\ Returns(s, rows)
  BY DEF ReadHitRows
<1>2. /\ keys \in Seq(Notes \cup Plain) /\ IsInjective(keys) /\ seekers[s].filter \subseteq Notes
      /\ seekers[s].text # NoCue
  BY <1>1 DEF RecallInv, SeekerFits, SeekerRecords
<1>3. DOMAIN keys = 1..Len(keys) /\ there \in SUBSET (1..Len(keys))
  BY <1>2
<1>4. \A i, j \in there : keys[i] = keys[j] => i = j
  BY <1>2 DEF IsInjective
<1>40. \A i \in there : keys[i] \in seekers[s].filter \cap live
  OBVIOUS
<1>41. \A n \in Range(keys) : n \in seekers[s].filter \cap live => \E i \in there : n = keys[i]
  BY DEF Range
<1> HIDE DEF there, keys
<1>5. rows \in Seq(Notes \cup Plain)
  BY <1>2, <1>3, PickedIs
<1>6. Range(rows) = {keys[i] : i \in there}
  BY <1>2, <1>3, PickedIs
<1>7. IsInjective(rows)
  BY <1>2, <1>3, <1>4, PickedIs
<1>8. Range(rows) \subseteq seekers[s].filter \cap live
  BY <1>6, <1>40
<1> HIDE DEF rows
<1>9. Len(rows) \in Nat /\ DOMAIN rows = 1..Len(rows)
  BY <1>5
<1>10. rows \in Seq(Notes)
  <2>1. \A i \in 1..Len(rows) : rows[i] \in Notes
    BY <1>2, <1>8, <1>9 DEF Range
  <2>2. rows \in [1..Len(rows) -> Notes]
    BY <1>5, <1>9, <2>1
  <2> QED
    BY <1>9, <2>2, SeqDef
<1> DEFINE score == Cosine[seekers[s].vector]
<1>12. /\ Passed(rows, score, r.found)
       /\ r.seen = live /\ r.filter = seekers[s].filter /\ r.vector = seekers[s].vector
       /\ r.text = seekers[s].text /\ r.keys = seekers[s].keys
       /\ FoundRight(r) => RecallInv'
  BY <1>1, <1>7, <1>10, ReturnsFits
<1> HIDE DEF r
<1>13. /\ r.found \in Seq(Notes) /\ Len(r.found) <= RecallLimit /\ IsInjective(r.found)
       /\ \A n \in Range(r.found) : score[n] >= MinScore /\ n \in Range(rows)
       /\ \A i \in {i \in 1..Len(rows) : score[rows[i]] >= MinScore} :
            rows[i] \in Range(r.found) \/ Len(r.found) = RecallLimit
  BY <1>12 DEF Passed
<1>14. \A n \in Range(r.found) : Passes(r, n)
  BY <1>8, <1>12, <1>13 DEF Passes
<1>15. Range(r.found) \subseteq Notes
  BY <1>2, <1>8, <1>13
<1>16. ASSUME NEW n \in Range(r.keys), Passes(r, n), n \notin Range(r.found) PROVE Len(r.found) = RecallLimit
  <2>1. n \in Range(keys) /\ n \in seekers[s].filter \cap live /\ score[n] >= MinScore
    BY <1>12, <1>16 DEF Passes, keys
  <2>2. n \in Range(rows)
    BY <2>1, <1>6, <1>41
  <2> PICK i \in 1..Len(rows) : n = rows[i]
    BY <1>9, <2>2 DEF Range
  <2> QED
    BY <1>13, <1>16, <2>1
<1>17. FoundRight(r)
  BY <1>2, <1>12, <1>13, <1>14, <1>15, <1>16 DEF FoundRight
<1> QED
  BY <1>12, <1>17

LEMMA ScanRowsFits ==
  ASSUME RecallInv, NEW s \in Seekers, ScanRows(s) PROVE RecallInv'
<1> DEFINE score == Cosine[seekers[s].vector]
           all == seekers[s].filter \cap live
<1>1. PICK order \in {o \in [1..Cardinality(all) -> all] : IsInjective(o)} :
        /\ \A i \in DOMAIN order : \A j \in 1..i : score[order[j]] >= score[order[i]]
        /\ Returns(s, Foremost(order, RecallLimit))
  BY DEF ScanRows
<1> DEFINE rows == Foremost(order, RecallLimit)
           r == [seekers[s] EXCEPT !.pc = "done", !.found = Passing(s, rows), !.seen = live]
           N == Cardinality(all)
<1>2. /\ seekers[s].pc = "scan" /\ seekers[s].filter \subseteq Notes /\ seekers[s].vector \in VectorSet
      /\ seekers[s].text = NoCue
  <2>1. seekers[s].pc = "scan"
    BY DEF ScanRows
  <2> QED
    BY <2>1 DEF RecallInv, SeekerFits, SeekerRecords
<1>3. IsFiniteSet(all) /\ all \subseteq Notes
  <2>1. IsFiniteSet(Notes)
    BY RecallAssumption
  <2> QED
    BY <1>2, <2>1, FS_Subset
<1>4. N \in Nat /\ RecallLimit \in Nat /\ MinScore \in Int /\ score \in [Notes -> Int]
  BY <1>2, <1>3, FS_CardinalityType, RecallAssumption DEF VectorSet
<1>5. order \in [1..N -> all] /\ IsInjective(order)
  OBVIOUS
<1> HIDE DEF N, all
<1>6. \A n \in all : \E k \in 1..N : order[k] = n
  <2>1. order \in Injection(1..N, all)
    BY <1>5 DEF Injection, IsInjective
  <2>2. IsFiniteSet(1..N) /\ Cardinality(1..N) = N
    BY <1>4, CountTo
  <2>3. order \in Surjection(1..N, all)
    BY <1>3, <2>1, <2>2, FS_Injection DEF N
  <2> QED
    BY <2>3 DEF Surjection
<1>7. order \in Seq(Notes) /\ Len(order) = N
  <2>1. order \in [1..N -> Notes]
    BY <1>3, <1>5
  <2>2. order \in Seq(Notes)
    BY <1>4, <2>1, SeqDef
  <2>3. DOMAIN order = 1..N
    BY <2>1
  <2>4. Len(order) = N
    BY <1>4, <2>2, <2>3, LenProperties
  <2> QED
    BY <2>2, <2>4
<1>8. rows \in Seq(Notes)
  BY <1>4, <1>7, ForemostAre
<1>9. Len(rows) = IF N <= RecallLimit THEN N ELSE RecallLimit
  BY <1>4, <1>7, ForemostAre
<1>10. \A k \in 1..Len(rows) : k \in 1..N /\ rows[k] = order[k]
  <2>1. \A k \in 1..Len(rows) : k \in 1..Len(order)
    BY <1>4, <1>7, ForemostAre
  <2>2. \A k \in 1..Len(rows) : rows[k] = order[k]
    <3>1. order \in Seq(Notes) /\ RecallLimit \in Nat
      BY <1>4, <1>7
    <3>2. \A k \in 1..Len(Foremost(order, RecallLimit)) :
            k \in 1..Len(order) /\ Foremost(order, RecallLimit)[k] = order[k]
      BY <3>1, ForemostAre, Zenon
    <3> QED
      BY <3>2
  <2> QED
    BY <1>7, <2>1, <2>2
<1>11. Returns(s, rows)
  BY <1>1
<1> HIDE DEF rows
<1>12. DOMAIN rows = 1..Len(rows) /\ Len(rows) \in Nat /\ DOMAIN order = 1..N
  BY <1>5, <1>8
<1>13. IsInjective(rows)
  BY <1>5, <1>10, <1>12 DEF IsInjective
<1>14. /\ Passed(rows, score, r.found)
       /\ r.seen = live /\ r.filter = seekers[s].filter /\ r.vector = seekers[s].vector
       /\ r.text = seekers[s].text /\ r.keys = seekers[s].keys
       /\ FoundRight(r) => RecallInv'
  BY <1>2, <1>8, <1>11, <1>13, ReturnsFits
<1> HIDE DEF r
<1>15. /\ r.found \in Seq(Notes) /\ Len(r.found) <= RecallLimit /\ IsInjective(r.found)
       /\ \A n \in Range(r.found) : score[n] >= MinScore /\ n \in Range(rows)
  BY <1>14 DEF Passed
<1>16. Len(rows) <= RecallLimit =>
         \A i \in {i \in 1..Len(rows) : score[rows[i]] >= MinScore} : rows[i] \in Range(r.found)
  BY <1>14 DEF Passed
<1>17. Len(rows) = RecallLimit /\ {i \in 1..Len(rows) : score[rows[i]] >= MinScore} = 1..Len(rows)
         => Len(r.found) = RecallLimit
  BY <1>14 DEF Passed
<1>18. \A n \in Range(rows) : n \in all /\ \E k \in 1..Len(rows) : n = order[k]
  BY <1>5, <1>10, <1>12 DEF Range
<1>19. \A n \in Range(r.found) : Passes(r, n)
  BY <1>14, <1>15, <1>18 DEF Passes, all
<1>20. Range(r.found) \subseteq Notes
  BY <1>3, <1>15, <1>18
<1>21. \A i \in 1..N : \A j \in 1..i : score[order[j]] >= score[order[i]]
  BY <1>1, <1>12
<1> HIDE DEF score
<1>22. ASSUME NEW n, Passes(r, n), n \notin Range(r.found)
       PROVE  Len(r.found) = RecallLimit /\ \A m \in Range(r.found) : score[m] >= score[n]
  <2>1. n \in all /\ score[n] >= MinScore
    BY <1>14, <1>22 DEF Passes, all, score
  <2> PICK k \in 1..N : order[k] = n
    BY <1>6, <2>1
  <2>2. Len(rows) <= RecallLimit
    BY <1>4, <1>9
  <2>3. ~(k \in 1..Len(rows))
    <3> SUFFICES ASSUME k \in 1..Len(rows) PROVE FALSE
      OBVIOUS
    <3>1. rows[k] = n
      BY <1>10
    <3> QED
      BY <1>16, <1>22, <2>1, <2>2, <3>1
  <2>4. Len(rows) = RecallLimit /\ k > RecallLimit
    BY <1>4, <1>9, <2>3
  <2>5. ASSUME NEW j \in 1..Len(rows)
        PROVE  score[order[j]] >= score[n] /\ score[order[j]] >= MinScore
    <3>1. j \in 1..k /\ j \in 1..N
      BY <1>4, <2>4
    <3>2. score[order[j]] >= score[n]
      BY <1>21, <3>1
    <3>3. score[order[j]] \in Int /\ score[n] \in Int
      BY <1>3, <1>4, <1>5, <2>1, <3>1
    <3> QED
      BY <1>4, <2>1, <3>2, <3>3
  <2>6. {i \in 1..Len(rows) : score[rows[i]] >= MinScore} = 1..Len(rows)
    BY <1>10, <2>5
  <2>7. Len(r.found) = RecallLimit
    BY <1>17, <2>4, <2>6
  <2>8. \A m \in Range(r.found) : score[m] >= score[n]
    BY <1>15, <1>18, <2>5
  <2> QED
    BY <2>7, <2>8
<1>23. FoundRight(r)
  BY <1>2, <1>14, <1>15, <1>19, <1>20, <1>22 DEF FoundRight, score
<1> QED
  BY <1>14, <1>23

LEMMA RecallStep ==
  ASSUME RecallInv, [RecallNext]_recallVars PROVE RecallInv'
<1>1. CASE UNCHANGED recallVars
  BY <1>1 DEF recallVars, RecallInv, PairsFit
<1>2. ASSUME NEW cues \in CueLists, EmbedCues(cues) PROVE RecallInv'
  <2>1. PairsFit'
    BY <1>2, EmbedCuesPairs DEF RecallInv
  <2>2. UNCHANGED <<live, seekers>>
    BY <1>2 DEF EmbedCues
  <2> QED
    BY <2>1, <2>2 DEF RecallInv
<1>3. ASSUME NEW s \in Seekers, Rest(s) PROVE RecallInv'
  BY <1>3, AtRestFits, SeekerSteps DEF Rest
<1>4. ASSUME NEW n \in live, ForgetNote(n) PROVE RecallInv'
  BY <1>4 DEF ForgetNote, RecallInv, PairsFit
<1> QED
  BY <1>1, <1>2, <1>3, <1>4, StartSearchFits, RetrieveHitsFits, ReadHitRowsFits, ScanRowsFits DEF RecallNext

LEMMA RecallStart ==
  ASSUME RecallInit PROVE RecallInv
<1>1. seekers \in [Seekers -> SeekerRecords] /\ \A s \in Seekers : SeekerFits(seekers[s])
  BY AtRestFits DEF RecallInit, SeekerFits
<1>2. paired = <<>> /\ fresh = <<>> /\ live \subseteq Notes \cup Plain
  BY DEF RecallInit
<1>3. PairsFit
  <2>1. <<>> \in Seq(Entries) /\ <<>> \in Seq(VectorSet) /\ IsInjective(<<>>) /\ Len(<<>>) = 0
    BY DEF IsInjective
  <2> QED
    BY <1>2, <2>1, RecallAssumption DEF PairsFit
<1> QED
  BY <1>1, <1>2, <1>3 DEF RecallInv

LEMMA RecallInvHolds ==
  ASSUME RecallInv PROVE RecallHolds
<1>1. /\ paired \in Seq(Entries) /\ DOMAIN paired = 1..Len(paired) /\ Len(paired) \in Nat
      /\ fresh \in Seq(VectorSet) /\ DOMAIN fresh = 1..Len(fresh) /\ Len(fresh) \in Nat /\ PairsFit
      /\ TextCapacity \in Nat
  <2>1. paired \in Seq(Entries) /\ fresh \in Seq(VectorSet) /\ PairsFit
    BY DEF RecallInv, PairsFit
  <2>2. DOMAIN paired = 1..Len(paired) /\ Len(paired) \in Nat
    BY <2>1
  <2>3. DOMAIN fresh = 1..Len(fresh) /\ Len(fresh) \in Nat
    BY <2>1
  <2> QED
    BY <2>1, <2>2, <2>3, RecallAssumption
<1>2. \A i \in DOMAIN paired : VectorOf[paired[i].text] = paired[i].vector
  BY <1>1, ElementOfSeq DEF Entries
<1>3. ASSUME NEW v \in Range(Newest(fresh, TextCapacity)) PROVE TextFor(v) # NoCue
  <2> DEFINE new == Newest(fresh, TextCapacity)
  <2>0. new \in Seq(VectorSet) /\ EndsIn(fresh, new, TextCapacity)
    BY <1>1, NewestAre
  <2>1. new \in Seq(VectorSet)
    BY <2>0
  <2>2. Len(new) = IF Len(fresh) <= TextCapacity THEN Len(fresh) ELSE TextCapacity
    BY <2>0 DEF EndsIn
  <2>3. \A k \in 1..Len(new) : new[k] = fresh[Len(fresh) - Len(new) + k]
    BY <2>0 DEF EndsIn
  <2>4. Len(new) = Len(paired)
    BY <2>2 DEF RecallInv, PairsFit
  <2>5. v \in Range(new)
    OBVIOUS
  <2> HIDE DEF new
  <2>6. DOMAIN new = 1..Len(new)
    BY <2>1
  <2> PICK k \in 1..Len(new) : v = new[k]
    BY <2>5, <2>6 DEF Range
  <2>7. paired[k].vector = v
    BY <2>3, <2>4 DEF RecallInv, PairsFit
  <2>8. TextFor(v) \in Cues
    BY <1>1, <2>4, <2>7, TextForIs
  <2> QED
    BY <2>8, RecallAssumption
<1>4. ASSUME NEW s \in Seekers, seekers[s].pc = "done" PROVE FoundRight(seekers[s])
  BY <1>4 DEF RecallInv, SeekerFits
<1>5. \A s \in Seekers : \A n : Wanted(s, n) <=> Passes(seekers[s], n)
  BY DEF Wanted, Passes
<1> QED
  BY <1>2, <1>3, <1>4, <1>5 DEF RecallHolds, FoundRight, Passes

(* RecallHolds holds for every number of threads, texts, records, scores and  *)
(* filters, whatever limit and capacity: a search that falls back to the rows *)
(* returns the best there are, one that knows its text loses a hit only to    *)
(* the limit, and the texts of the latest vectors are known                  *)
(* (crewai/unified.py:77-92 and :303-352).                                   *)
THEOREM RecallComplete == RecallSpec => []RecallHolds
<1>1. RecallInit => RecallInv
  BY RecallStart
<1>2. RecallInv /\ [RecallNext]_recallVars => RecallInv'
  BY RecallStep
<1>3. RecallInv => RecallHolds
  BY RecallInvHolds
<1> QED
  BY <1>1, <1>2, <1>3, PTL DEF RecallSpec

-----------------------------------------------------------------------------
(***************************************************************************)
(* Supersession: a statement marked as superseded stands below one that     *)
(* superseded it, as long as no chain of links is longer than a call        *)
(* follows.                                                                 *)
(***************************************************************************)
Chain(c, h) == c \in [0..h -> Memories] /\ \A i \in 1..h : newer[c[i - 1]] = c[i]
Chained(m, n, h) == \E c : Chain(c, h) /\ c[0] = m /\ c[h] = n
ChainedWithin(m, n) == \E h \in 0..MaxHops : Chained(m, n, h)

ChainsWithinHops == \A c : ~Chain(c, MaxHops + 1)

LEMMA ChainGrows ==
  ASSUME RetrievalTypeOK, NEW m, NEW n, NEW h \in Nat, Chained(m, n, h), newer[n] \in Memories
  PROVE  Chained(m, newer[n], h + 1)
<1>1. PICK c : Chain(c, h) /\ c[0] = m /\ c[h] = n
  BY DEF Chained
<1> DEFINE d == [i \in 0..(h + 1) |-> IF i = h + 1 THEN newer[n] ELSE c[i]]
<1>2. d \in [0..(h + 1) -> Memories]
  BY <1>1 DEF Chain
<1>3. d[0] = m /\ d[h] = n /\ d[h + 1] = newer[n]
  BY <1>1
<1>4. ASSUME NEW i \in 1..(h + 1) PROVE newer[d[i - 1]] = d[i]
  <2>1. CASE i = h + 1
    BY <1>3, <2>1
  <2>2. CASE i # h + 1
    <3>1. i \in 1..h /\ d[i] = c[i] /\ d[i - 1] = c[i - 1]
      BY <2>2
    <3> QED
      BY <3>1, <1>1 DEF Chain
  <2> QED
    BY <2>1, <2>2
<1>5. Chain(d, h + 1)
  BY <1>2, <1>4 DEF Chain
<1> QED
  BY <1>3, <1>5 DEF Chained

LEMMA ChainOfNone == ASSUME NEW m \in Memories PROVE Chained(m, m, 0)
<1> DEFINE c == [i \in 0..0 |-> m]
<1>1. c \in [0..0 -> Memories] /\ c[0] = m
  OBVIOUS
<1>2. Chain(c, 0)
  BY <1>1 DEF Chain
<1> QED
  BY <1>1, <1>2 DEF Chained

(* Where a chain leads within the links followed.                            *)
LEMMA ChainLeads ==
  ASSUME RetrievalTypeOK, NEW m \in Memories, NEW n, ChainedWithin(m, n)
  PROVE  Leads(m, n)
<1> DEFINE N == MaxHops
           A == SUBSET (Memories \cup {NoMemory})
           Wider(S) == S \cup {newer[x] : x \in S \cap Memories}
           Eq(g) == g = [h \in 0..N |-> IF h = 0 THEN {m} ELSE Wider(g[h - 1])]
           step == [p \in A \X (1..N) |-> Wider(p[1])]
           reach == CHOOSE g : Eq(g)
<1>1. N \in Nat
  BY RetrievalAssumption
<1>2. \A S \in A : Wider(S) \in A
  BY DEF RetrievalTypeOK
<1>3. {m} \in A /\ step \in [A \X (1..N) -> A]
  BY <1>2
<1>4. \E g : Eq(g)
  <2>1. \E g : Recursion(g, A, N, {m}, step)
    <3> HIDE DEF step, A, N
    <3> QED
      BY <1>1, <1>3, RecursionUpTo
  <2>2. PICK g \in [0..N -> A] : g[0] = {m} /\ \A h \in 1..N : g[h] = step[<<g[h - 1], h>>]
    <3> HIDE DEF step, A, N
    <3> QED
      BY <2>1 DEF Recursion
  <2>3. ASSUME NEW h \in 1..N PROVE g[h] = Wider(g[h - 1])
    <3>1. h - 1 \in 0..N
      BY <1>1
    <3>2. g[h - 1] \in A
      BY <3>1
    <3>3. step[<<g[h - 1], h>>] = Wider(g[h - 1])
      BY <3>2
    <3> QED
      BY <2>2, <3>3
  <2>4. \A h \in 0..N : g[h] = IF h = 0 THEN {m} ELSE Wider(g[h - 1])
    <3>1. \A h \in 0..N : h = 0 \/ h \in 1..N
      BY <1>1
    <3> HIDE DEF N, Wider, A
    <3> QED
      BY <2>2, <2>3, <3>1
  <2>5. g = [h \in 0..N |-> IF h = 0 THEN {m} ELSE Wider(g[h - 1])]
    <3> HIDE DEF N, Wider, A
    <3> QED
      BY <2>4
  <2> QED
    BY <2>5
<1>5. Eq(reach)
  BY <1>4
<1>6. Leads(m, n) = (n \in reach[N])
  BY DEF Leads
<1> HIDE DEF reach
<1>7. reach[0] = {m} /\ \A h \in 1..N : reach[h] = Wider(reach[h - 1])
  <2> HIDE DEF N, Wider
  <2>1. \A h \in 0..N : reach[h] = IF h = 0 THEN {m} ELSE Wider(reach[h - 1])
    BY <1>5
  <2>2. 0 \in 0..N /\ \A h \in 1..N : h \in 0..N /\ h # 0
    BY <1>1
  <2> QED
    BY <2>1, <2>2
<1>8. PICK h \in 0..N : Chained(m, n, h)
  BY DEF ChainedWithin
<1>9. PICK c : Chain(c, h) /\ c[0] = m /\ c[h] = n
  BY <1>8 DEF Chained
<1> DEFINE On == {k \in 0..h : c[k] \in reach[k]}
           Later == {k \in 0..N : k < h \/ n \in reach[k]}
<1>10. ASSUME NEW k \in 1..h, k - 1 \in On PROVE k \in On
  <2>1. c[k - 1] \in Memories /\ newer[c[k - 1]] = c[k]
    BY <1>9, <1>1 DEF Chain
  <2>2. k \in 1..N
    BY <1>1
  <2>3. c[k] \in Wider(reach[k - 1])
    BY <2>1, <1>10
  <2> QED
    BY <2>2, <2>3, <1>7
<1>11. \A k \in 0..h : k \in On
  <2>1. h \in Nat /\ 0 \in On
    BY <1>1, <1>7, <1>9
  <2> HIDE DEF On
  <2> QED
    BY <1>10, <2>1, UpTo
<1>12. n \in reach[h]
  <2>1. h \in On
    BY <1>11, <1>1
  <2> QED
    BY <2>1, <1>9
<1>13. ASSUME NEW k \in 1..N, k - 1 \in Later PROVE k \in Later
  <2>1. CASE k < h
    BY <2>1
  <2>2. CASE k = h
    BY <2>2, <1>12
  <2>3. CASE k > h
    <3>1. n \in reach[k - 1]
      BY <1>1, <1>13, <2>3
    <3> QED
      BY <3>1, <1>7
  <2> QED
    BY <2>1, <2>2, <2>3, <1>1
<1>14. \A k \in 0..N : k \in Later
  <2>1. 0 \in Later
    BY <1>12, <1>1
  <2> HIDE DEF Later
  <2> QED
    BY <1>1, <1>13, <2>1, UpTo
<1>15. n \in reach[N]
  BY <1>14, <1>1
<1> QED
  BY <1>6, <1>15

-----------------------------------------------------------------------------
(* An order puts at an earlier place what stands ahead.                      *)
LEMMA InOrderFollows ==
  ASSUME NEW S, IsFiniteSet(S), NEW R, StrictOrder(S, R),
         NEW i \in 1..Cardinality(S), NEW j \in 1..Cardinality(S),
         <<InOrder(S, R)[i], InOrder(S, R)[j]>> \in R
  PROVE  i < j
<1> DEFINE order == InOrder(S, R)
           Ahead(x) == {y \in S : <<y, x>> \in R}
<1>1. /\ order \in [1..Cardinality(S) -> S]
      /\ \A n \in 1..Cardinality(S) : Cardinality(Ahead(order[n])) = n - 1
  BY InOrderLists DEF Injection
<1>2. order[i] \in S /\ order[j] \in S /\ <<order[i], order[j]>> \in R
  BY <1>1
<1> HIDE DEF order
<1>3. Ahead(order[i]) \cup {order[i]} \subseteq Ahead(order[j]) /\ order[i] \notin Ahead(order[i])
  BY <1>2 DEF StrictOrder
<1>4. IsFiniteSet(Ahead(order[i])) /\ IsFiniteSet(Ahead(order[j]))
  <2>1. Ahead(order[i]) \subseteq S /\ Ahead(order[j]) \subseteq S
    OBVIOUS
  <2> HIDE DEF Ahead
  <2> QED
    BY <2>1, FS_Subset
<1>5. Cardinality(Ahead(order[i])) = i - 1 /\ Cardinality(Ahead(order[j])) = j - 1
  BY <1>1
<1> HIDE DEF Ahead
<1>6. Cardinality(Ahead(order[i]) \cup {order[i]}) = Cardinality(Ahead(order[i])) + 1
  BY <1>3, <1>4, FS_AddElement
<1>7. Cardinality(Ahead(order[i]) \cup {order[i]}) <= Cardinality(Ahead(order[j]))
  BY <1>3, <1>4, FS_Subset
<1>8. Cardinality(S) \in Nat
  BY FS_CardinalityType
<1> QED
  BY <1>5, <1>6, <1>7, <1>8

(* Sorted, the candidate of a higher score stands first.                     *)
LEMMA ByScoreFollows ==
  ASSUME NEW S, NEW s, Ranking(s, S), NEW i \in DOMAIN ByScore(s), NEW a \in DOMAIN s, NEW b \in DOMAIN s,
         ByScore(s)[i].key = s[b].key, s[a].score > s[b].score
  PROVE  \E j \in 1..(i - 1) : ByScore(s)[j] = s[a]
<1> DEFINE D == DOMAIN s
           R == Better(s)
           order == InOrder(D, R)
           n == Cardinality(D)
<1>1. n = Len(s) /\ n \in Nat /\ D = 1..n /\ IsFiniteSet(D)
  BY RankingDomain
<1>2. StrictOrder(D, R)
  <2>1. \A x \in D : x \in Int /\ s[x].score \in Int
    BY <1>1, RankingDomain
  <2>2. \A x, y \in D : <<x, y>> \in R <=>
          s[x].score > s[y].score \/ (s[x].score = s[y].score /\ x < y)
    BY DEF Better
  <2> HIDE DEF D, R
  <2> QED
    BY <2>1, <2>2 DEF StrictOrder
<1>3. order \in Injection(1..n, D)
  BY <1>1, <1>2, InOrderLists
<1>4. order \in Surjection(1..n, D)
  BY <1>1, <1>3, FS_Injection, CountTo
<1>5. order \in [1..n -> D]
  BY <1>3 DEF Injection
<1>6. ByScore(s) = [k \in 1..n |-> s[order[k]]]
  BY <1>5 DEF ByScore
<1>7. \A x, y \in D : s[x].score > s[y].score => <<x, y>> \in R
  BY DEF Better
<1>8. PICK j \in 1..n : order[j] = a
  BY <1>4 DEF Surjection
<1>9. i \in 1..n /\ order[i] = b
  <2>1. i \in 1..n /\ order[i] \in D /\ s[order[i]].key = s[b].key
    BY <1>5, <1>6
  <2> HIDE DEF order
  <2> QED
    BY <2>1 DEF Ranking
<1>10. <<order[j], order[i]>> \in R
  BY <1>7, <1>8, <1>9
<1> HIDE DEF D, R, n
<1>11. j < i
  BY <1>1, <1>2, <1>8, <1>9, <1>10, InOrderFollows DEF n
<1>12. ByScore(s)[j] = s[a]
  BY <1>6, <1>8
<1>13. j \in 1..(i - 1)
  BY <1>1, <1>8, <1>9, <1>11
<1> QED
  BY <1>12, <1>13

(* What is picked keeps its order.                                           *)
InOrderOf(t, s, places) ==
  \A k \in DOMAIN t : \E p \in places :
    /\ t[k] = s[p]
    /\ \A q \in places : q < p => \E l \in 1..(k - 1) : t[l] = s[q]

LEMMA PickedFollows ==
  ASSUME NEW n \in Nat, NEW places \in SUBSET (1..n), NEW s
  PROVE  InOrderOf(Picked(s, places), s, places)
<1> DEFINE order == InOrder(places, Earlier(places))
           N == Cardinality(places)
<1>1. /\ IsFiniteSet(places) /\ N \in 0..n
      /\ order \in [1..N -> places]
      /\ \A p \in places : \E l \in 1..N : order[l] = p
      /\ Picked(s, places) = [l \in 1..N |-> s[order[l]]]
  <2>1. IsFiniteSet(places) /\ N \in 0..n /\ Numbers(order, places)
    BY PlacesNumbered
  <2>2. Picked(s, places) = [l \in 1..N |-> s[order[l]]]
    BY <2>1, PickedFrom
  <2> HIDE DEF order
  <2> QED
    BY <2>1, <2>2 DEF Numbers
<1>2. StrictOrder(places, Earlier(places))
  BY DEF StrictOrder, Earlier
<1> SUFFICES ASSUME NEW k \in DOMAIN Picked(s, places)
             PROVE  \E p \in places :
                      /\ Picked(s, places)[k] = s[p]
                      /\ \A q \in places : q < p => \E l \in 1..(k - 1) : Picked(s, places)[l] = s[q]
  BY DEF InOrderOf
<1>3. k \in 1..N /\ order[k] \in places /\ Picked(s, places)[k] = s[order[k]]
  BY <1>1
<1>4. ASSUME NEW q \in places, q < order[k] PROVE \E l \in 1..(k - 1) : Picked(s, places)[l] = s[q]
  <2>1. PICK l \in 1..N : order[l] = q
    BY <1>1
  <2>2. <<order[l], order[k]>> \in Earlier(places)
    BY <1>3, <1>4, <2>1 DEF Earlier
  <2>3. l < k
    BY <1>1, <1>2, <1>3, <2>1, <2>2, InOrderFollows
  <2>4. l \in 1..(k - 1) /\ Picked(s, places)[l] = s[q]
    <3>1. N \in Nat
      BY <1>1
    <3> HIDE DEF N, order
    <3> QED
      BY <3>1, <1>1, <1>3, <2>1, <2>3
  <2> QED
    BY <2>4
<1> HIDE DEF order, N
<1> QED
  BY <1>3, <1>4

(* A candidate kept that was not pulled in is kept with all that stood       *)
(* before it, in order.                                                      *)
LEMMA TrimFollows ==
  ASSUME NEW S, NEW s, Ranking(s, S), NEW k \in DOMAIN Trim(s)
  PROVE  \E p \in DOMAIN s :
           /\ Trim(s)[k] = s[p]
           /\ s[p].key \notin pulled =>
                \A q \in 1..(p - 1) : \E l \in 1..(k - 1) : Trim(s)[l] = s[q]
<1> DEFINE D == DOMAIN s
           others == {i \in D : s[i].key \notin pulled}
           Below(i) == {j \in others : j >= i}
           kept == {i \in D : i \notin others \/ Cardinality(Below(i)) > Len(s) - HitCount}
<1>1. Len(s) \in Nat /\ D = 1..Len(s) /\ IsFiniteSet(D) /\ HitCount \in Nat
  BY RankingDomain, RetrievalAssumption
<1>2. Trim(s) = Picked(s, kept)
  BY DEF Trim
<1>3. \A i \in D : IsFiniteSet(Below(i)) /\ Cardinality(Below(i)) \in Nat
  <2> SUFFICES ASSUME NEW i \in D PROVE IsFiniteSet(Below(i)) /\ Cardinality(Below(i)) \in Nat
    OBVIOUS
  <2>1. Below(i) \subseteq D
    OBVIOUS
  <2> HIDE DEF Below, D
  <2> QED
    BY <1>1, <2>1, FS_Subset, FS_CardinalityType
<1>4. ASSUME NEW p \in kept, p \in others, NEW q \in D, q < p PROVE q \in kept
  <2>1. CASE q \notin others
    BY <2>1
  <2>2. CASE q \in others
    <3>1. Below(p) \subseteq Below(q)
      BY <1>1, <1>4
    <3>2. Cardinality(Below(p)) > Len(s) - HitCount
      BY <1>4
    <3>3. p \in D
      BY <1>4
    <3> HIDE DEF Below
    <3>4. Cardinality(Below(p)) <= Cardinality(Below(q))
      BY <1>3, <3>1, FS_Subset
    <3>5. Cardinality(Below(q)) > Len(s) - HitCount
      BY <1>1, <1>3, <3>2, <3>3, <3>4
    <3> QED
      BY <3>5
  <2> QED
    BY <2>1, <2>2
<1>5. kept \in SUBSET (1..Len(s))
  BY <1>1
<1> HIDE DEF kept
<1>6. PICK p \in kept :
        /\ Trim(s)[k] = s[p]
        /\ \A q \in kept : q < p => \E l \in 1..(k - 1) : Trim(s)[l] = s[q]
  <2>1. InOrderOf(Picked(s, kept), s, kept)
    BY <1>1, <1>5, PickedFollows
  <2> QED
    BY <1>2, <2>1 DEF InOrderOf
<1>7. p \in D
  BY <1>1, <1>5
<1>8. ASSUME s[p].key \notin pulled, NEW q \in 1..(p - 1) PROVE \E l \in 1..(k - 1) : Trim(s)[l] = s[q]
  <2>1. q \in D /\ q < p /\ p \in others
    BY <1>1, <1>7, <1>8
  <2>2. q \in kept
    BY <1>4, <2>1
  <2> QED
    BY <1>6, <2>1, <2>2
<1> QED
  BY <1>6, <1>7, <1>8

-----------------------------------------------------------------------------
(* What a call knows on its way: each link read is still the memory's, each   *)
(* memory marked has one on its chain above it, and the chain being followed  *)
(* starts at its candidate.                                                   *)
Early == {"enrich", "lexical", "vector", "graph", "rank", "links"}

NewerIsLater == \A x \in Memories : newer[x] \in Memories => At[x] < At[newer[x]]

LinksRead ==
  \A x \in Memories :
    /\ link[x] \in Memories => newer[x] = link[x]
    /\ link[x] = Gone => x \notin Visible

Above(m, n) ==
  \E i, j \in DOMAIN pool : pool[i].key = m /\ pool[j].key = n /\ pool[j].score > pool[i].score

Marked(m) ==
  /\ m \in KeysOf(pool) \ pulled
  /\ HasNewer(m) /\ link[link[m]] \notin {Unread, Gone}
  /\ \E n : Above(m, n) /\ ChainedWithin(m, n)

Hidden(m) == link[m] \in Visible => ~InView(At[link[m]])

ChainFollowed ==
  LET m == pool[follow.cand].key
  IN /\ HasNewer(m) /\ InView(At[follow.key]) /\ At[m] < At[follow.key]
     /\ follow.hops \in Nat /\ follow.hops < MaxHops /\ Chained(m, follow.key, follow.hops + 1)
     /\ follow.current = NoMemory => follow.hops = 0 /\ follow.key = link[m]
     /\ follow.current # NoMemory =>
          /\ Chained(m, follow.current, follow.hops) /\ At[m] < At[follow.current]
          /\ link[follow.current] = follow.key /\ link[link[m]] \notin {Unread, Gone}

Following ==
  /\ LinksRead
  /\ \A m \in stale : Marked(m)
  /\ \A i \in DOMAIN pool :
       IF i > Selected THEN pool[i].key \in pulled ELSE pool[i].key \notin pulled /\ link[pool[i].key] # Unread
  /\ follow.cand \in Nat \ {0}
  /\ \A i \in 1..(follow.cand - 1) : pool[i].key \in stale \/ Hidden(pool[i].key)
  /\ IF follow.key = NoMemory THEN follow.hops = 0 /\ follow.current = NoMemory ELSE ChainFollowed

Placed(keys) ==
  \A i \in DOMAIN keys :
    /\ keys[i] \in stale => \E j \in 1..(i - 1) : ChainedWithin(keys[i], keys[j])
    /\ keys[i] \notin stale \cup pulled => Hidden(keys[i])

SupersessionInv ==
  /\ NewerIsLater
  /\ pc \in Early => stale = {}
  /\ pc = "follow" => Following
  /\ pc = "assemble" => Placed(KeyList(pool))
  /\ Answered => Placed(answer.hits)

LEMMA SupersessionInit == RetrievalInit => SupersessionInv
<1> SUFFICES ASSUME RetrievalInit PROVE SupersessionInv
  OBVIOUS
<1>1. NewerIsLater
  BY RetrievalAssumption DEF RetrievalInit, NewerIsLater
<1> QED
  BY <1>1 DEF RetrievalInit, SupersessionInv, Answered

(* What others link or forget leaves the chains and hides memories only.     *)
LEMMA ChainsStay ==
  ASSUME RetrievalTypeOK, \A x \in Memories : newer[x] \in Memories => newer'[x] = newer[x],
         NEW m, NEW n, NEW h \in Nat, Chained(m, n, h)
  PROVE  Chained(m, n, h)'
<1>1. PICK c : Chain(c, h) /\ c[0] = m /\ c[h] = n
  BY DEF Chained
<1>2. c \in [0..h -> Memories]
  BY <1>1 DEF Chain
<1>3. \A i \in 1..h : newer'[c[i - 1]] = c[i]
  <2> SUFFICES ASSUME NEW i \in 1..h PROVE newer'[c[i - 1]] = c[i]
    OBVIOUS
  <2>1. i - 1 \in 0..h /\ i \in 0..h
    OBVIOUS
  <2>2. newer[c[i - 1]] = c[i]
    BY <1>1 DEF Chain
  <2> QED
    BY <1>2, <2>1, <2>2
<1>4. Chain(c, h)'
  BY <1>2, <1>3 DEF Chain
<1> QED
  BY <1>1, <1>4 DEF Chained

LEMMA OthersKeepOrder ==
  ASSUME RetrievalInv, SupersessionInv, NEW m \in Memories,
         Forgotten(m) \/ ViewCatchesUp(m) \/ \E n \in Memories : Superseded(m, n)
  PROVE  SupersessionInv'
<1>1. /\ UNCHANGED callVars /\ pc # "done"
      /\ \A x \in Memories : newer[x] \in Memories => newer'[x] = newer[x]
      /\ Visible' \subseteq Visible
      /\ NewerIsLater'
  <2>1. CASE Forgotten(m)
    BY <2>1 DEF Forgotten, Visible, NewerIsLater, SupersessionInv
  <2>2. CASE \E n \in Memories : Superseded(m, n)
    <3>1. PICK n \in Memories : Superseded(m, n)
      BY <2>2
    <3>2. newer \in [Memories -> Memories \cup {NoMemory}] /\ NoMemory \notin Memories
      BY RetrievalAssumption DEF RetrievalInv, RetrievalTypeOK
    <3>3. newer' = [newer EXCEPT ![m] = n] /\ newer[m] = NoMemory /\ At[m] < At[n] /\ forgotten' = forgotten
      BY <3>1 DEF Superseded
    <3>4. \A x \in Memories : newer'[x] = IF x = m THEN n ELSE newer[x]
      BY <3>2, <3>3
    <3>5. NewerIsLater'
      BY <3>3, <3>4 DEF NewerIsLater, SupersessionInv
    <3> QED
      BY <3>1, <3>2, <3>3, <3>4, <3>5 DEF Superseded, Visible
  <2>3. CASE ViewCatchesUp(m)
    BY <2>3 DEF ViewCatchesUp, Visible, NewerIsLater, SupersessionInv
  <2> QED
    BY <2>1, <2>2, <2>3
<1>2. ASSUME NEW x, NEW y, NEW h \in Nat, Chained(x, y, h) PROVE Chained(x, y, h)'
  BY <1>1, <1>2, ChainsStay DEF RetrievalInv
<1>3. ASSUME NEW x, NEW y, ChainedWithin(x, y) PROVE ChainedWithin(x, y)'
  <2>1. PICK h \in 0..MaxHops : Chained(x, y, h)
    BY <1>3 DEF ChainedWithin
  <2>2. h \in Nat
    BY RetrievalAssumption
  <2>3. Chained(x, y, h)'
    BY <1>2, <2>1, <2>2
  <2> QED
    BY <2>3 DEF ChainedWithin
<1>4. /\ pc' = pc /\ pool' = pool /\ stale' = stale /\ pulled' = pulled /\ link' = link
      /\ follow' = follow /\ asOf' = asOf /\ answer' = answer /\ Selected' = Selected
  BY <1>1 DEF callVars, Selected
<1>5. ASSUME NEW x, Hidden(x) PROVE Hidden(x)'
  BY <1>1, <1>4, <1>5 DEF Hidden, InView
<1>6. ASSUME NEW keys, Placed(keys) PROVE Placed(keys)'
  <2> SUFFICES ASSUME NEW i \in DOMAIN keys
               PROVE  /\ keys[i] \in stale => \E j \in 1..(i - 1) : ChainedWithin(keys[i], keys[j])'
                      /\ keys[i] \notin stale \cup pulled => Hidden(keys[i])'
    BY <1>4 DEF Placed
  <2>1. /\ keys[i] \in stale => \E j \in 1..(i - 1) : ChainedWithin(keys[i], keys[j])
        /\ keys[i] \notin stale \cup pulled => Hidden(keys[i])
    BY <1>6 DEF Placed
  <2>2. keys[i] \notin stale \cup pulled => Hidden(keys[i])'
    BY <1>5, <2>1
  <2>3. ASSUME keys[i] \in stale PROVE \E j \in 1..(i - 1) : ChainedWithin(keys[i], keys[j])'
    <3>1. PICK j \in 1..(i - 1) : ChainedWithin(keys[i], keys[j])
      BY <2>1, <2>3
    <3>2. ChainedWithin(keys[i], keys[j])'
      BY <1>3, <3>1
    <3> QED
      BY <3>2
  <2> QED
    BY <2>2, <2>3
<1>7. ASSUME Following PROVE Following'
  <2>1. LinksRead'
    BY <1>1, <1>4, <1>7 DEF Following, LinksRead
  <2>2. ASSUME NEW x \in stale PROVE Marked(x)'
    <3>1. Marked(x)
      BY <1>7 DEF Following
    <3>2. PICK y : Above(x, y) /\ ChainedWithin(x, y)
      BY <3>1 DEF Marked
    <3>3. ChainedWithin(x, y)' /\ Above(x, y)'
      BY <1>3, <1>4, <3>2 DEF Above
    <3>4. x \in KeysOf(pool') \ pulled'
      BY <1>4, <3>1 DEF Marked
    <3>5. HasNewer(x)' /\ link'[link'[x]] \notin {Unread, Gone}
      BY <1>4, <3>1 DEF Marked, HasNewer, InView
    <3> QED
      BY <3>3, <3>4, <3>5 DEF Marked
  <2>3. ASSUME NEW i \in 1..(follow.cand - 1) PROVE pool[i].key \in stale \/ Hidden(pool[i].key)'
    <3>1. pool[i].key \in stale \/ Hidden(pool[i].key)
      BY <1>7 DEF Following
    <3> QED
      BY <1>1, <1>4, <3>1 DEF Hidden, InView
  <2>4. ASSUME ChainFollowed PROVE ChainFollowed'
    <3>1. PICK x, y, z, h : x = pool[follow.cand].key /\ y = follow.key /\ z = follow.current /\ h = follow.hops
      OBVIOUS
    <3>2. /\ h \in Nat /\ h < MaxHops /\ Chained(x, y, h + 1)
          /\ HasNewer(x) /\ InView(At[y]) /\ At[x] < At[y]
          /\ z = NoMemory => h = 0 /\ y = link[x]
          /\ z # NoMemory => /\ Chained(x, z, h) /\ At[x] < At[z]
                            /\ link[z] = y /\ link[link[x]] \notin {Unread, Gone}
      BY <2>4, <3>1 DEF ChainFollowed
    <3>3. Chained(x, y, h + 1)' /\ (z # NoMemory => Chained(x, z, h)')
      BY <1>2, <3>2
    <3>4. /\ x = pool'[follow'.cand].key /\ y = follow'.key /\ z = follow'.current /\ h = follow'.hops
          /\ HasNewer(x)' /\ InView(At[y])'
      BY <1>4, <3>1, <3>2 DEF HasNewer, InView
    <3> QED
      BY <1>4, <3>2, <3>3, <3>4 DEF ChainFollowed
  <2> QED
    BY <1>4, <1>7, <2>1, <2>2, <2>3, <2>4 DEF Following
<1> QED
  BY <1>1, <1>4, <1>6, <1>7 DEF SupersessionInv, Answered

(* Nothing is marked before the selection's links are read.                  *)
LEMMA EarlyKeepOrder ==
  ASSUME SupersessionInv, pc \in Early, pc' \in Early \ {"enrich"}, UNCHANGED <<Selection, Others>>
  PROVE  SupersessionInv'
BY DEF SupersessionInv, Selection, Others, Early, Answered, NewerIsLater

LEMMA NothingPlaced ==
  ASSUME SupersessionInv, pc' = "done", answer'.hits = <<>>, UNCHANGED Others
  PROVE  SupersessionInv'
<1>1. Placed(answer.hits)'
  BY DEF Placed
<1> QED
  BY <1>1 DEF SupersessionInv, Others, Early, NewerIsLater

LEMMA ReadLinksKeepsOrder == ASSUME RetrievalInv, SupersessionInv, ReadLinks PROVE SupersessionInv'
<1>1. /\ pc = "links" /\ pc' = "follow" /\ UNCHANGED <<Others, pool, pulled, stale>>
      /\ follow' = [cand |-> 1, key |-> NoMemory, hops |-> 0, current |-> NoMemory]
      /\ link' = [m \in Memories |-> IF m \in KeysOf(pool) THEN newer[m] ELSE Unread]
  BY DEF ReadLinks, NothingFollowed
<1>2. pulled = {} /\ stale = {}
  BY <1>1 DEF RetrievalInv, PulledIn, SupersessionInv, Early
<1>3. NewerIsLater'
  BY <1>1 DEF Others, SupersessionInv, NewerIsLater
<1>4. LinksRead'
  <2>1. \A x \in Memories : newer[x] \in Memories \cup {NoMemory}
    BY DEF RetrievalInv, RetrievalTypeOK
  <2>2. Unread \notin Memories /\ Gone \notin Memories
    BY RetrievalAssumption
  <2> QED
    BY <1>1, <2>1, <2>2 DEF LinksRead, Others, NoMemory, Unread, Gone
<1>5. \A i \in DOMAIN pool' :
        IF i > Selected' THEN pool'[i].key \in pulled'
        ELSE pool'[i].key \notin pulled' /\ link'[pool'[i].key] # Unread
  <2>1. Selected' = Len(pool)
    <3>1. Cardinality(pulled') = 0
      BY <1>1, <1>2, FS_EmptySet
    <3> QED
      BY <1>1, <3>1, KeysInScope DEF Selected
  <2>2. ASSUME NEW i \in DOMAIN pool PROVE link'[pool[i].key] # Unread
    <3>1. pool[i].key \in KeysOf(pool) /\ pool[i].key \in Memories
      BY KeysInScope DEF KeysOf
    <3>2. link'[pool[i].key] = newer[pool[i].key]
      BY <1>1, <3>1
    <3>3. newer[pool[i].key] \in Memories \cup {NoMemory}
      BY <3>1 DEF RetrievalInv, RetrievalTypeOK
    <3> QED
      BY <3>2, <3>3, RetrievalAssumption DEF NoMemory, Unread
  <2> QED
    BY <1>1, <1>2, <2>1, <2>2, KeysInScope
<1>6. Following'
  BY <1>1, <1>2, <1>4, <1>5 DEF Following
<1> QED
  BY <1>1, <1>3, <1>6 DEF SupersessionInv, Early, Answered

LEMMA TurnToKeepsOrder == ASSUME RetrievalInv, SupersessionInv, TurnTo PROVE SupersessionInv'
<1> DEFINE m == pool[follow.cand].key
<1>1. /\ pc = "follow" /\ pc' = "follow" /\ follow.cand <= Selected /\ follow.key = NoMemory
      /\ follow' = IF HasNewer(m) THEN [follow EXCEPT !.key = link[m]] ELSE [follow EXCEPT !.cand = @ + 1]
      /\ UNCHANGED <<asOf, pool, link, pulled, stale, Others>>
  BY DEF TurnTo
<1>2. /\ Following /\ follow.cand \in Nat \ {0} /\ follow.hops = 0 /\ follow.current = NoMemory
      /\ follow \in [cand : Nat, key : Memories \cup {NoMemory}, hops : Int, current : Memories \cup {NoMemory}]
  BY <1>1 DEF SupersessionInv, Following, RetrievalInv, RetrievalTypeOK
<1>3. Selected' = Selected /\ Visible' = Visible /\ NewerIsLater'
  BY <1>1 DEF Selected, Others, Visible, SupersessionInv, NewerIsLater
<1>4. m \in Memories
  <2>1. follow.cand \in DOMAIN pool
    BY <1>1, <1>2, KeysInScope, SelectedIsNat DEF Selected
  <2> QED
    BY <2>1, KeysInScope DEF KeysOf
<1> HIDE DEF m
<1>5. LinksRead'
  BY <1>1, <1>2, <1>3 DEF Following, LinksRead, Others
<1>6. ASSUME NEW x, NEW y, NEW h, Chained(x, y, h) PROVE Chained(x, y, h)'
  BY <1>1, <1>6 DEF Chained, Chain, Others
<1>7. ASSUME NEW x \in stale PROVE Marked(x)'
  <2>1. Marked(x)
    BY <1>2 DEF Following
  <2>2. PICK y : Above(x, y) /\ ChainedWithin(x, y)
    BY <2>1 DEF Marked
  <2>3. PICK h \in 0..MaxHops : Chained(x, y, h)
    BY <2>2 DEF ChainedWithin
  <2>4. Chained(x, y, h)' /\ Above(x, y)'
    BY <1>1, <1>6, <2>2, <2>3 DEF Above
  <2>5. HasNewer(x)' /\ link'[link'[x]] \notin {Unread, Gone} /\ x \in KeysOf(pool') \ pulled'
    BY <1>1, <2>1 DEF Marked, HasNewer, InView
  <2>6. ChainedWithin(x, y)'
    BY <2>4 DEF ChainedWithin
  <2> QED
    BY <2>4, <2>5, <2>6 DEF Marked
<1>8. CASE HasNewer(m)
  <2>1. /\ follow'.cand = follow.cand /\ follow'.key = link[m] /\ follow'.hops = 0
        /\ follow'.current = NoMemory /\ link[m] \in Memories /\ link[m] # NoMemory
    BY <1>1, <1>2, <1>8, RetrievalAssumption DEF HasNewer
  <2>2. newer[m] = link[m] /\ At[m] < At[link[m]]
    BY <1>2, <1>4, <2>1 DEF Following, LinksRead, SupersessionInv, NewerIsLater
  <2>3. Chained(m, link[m], 1)
    <3>1. RetrievalTypeOK /\ m \in Memories /\ newer[m] \in Memories /\ newer[m] = link[m]
      BY <1>4, <2>1, <2>2 DEF RetrievalInv
    <3> HIDE DEF m
    <3>2. Chained(m, m, 0)
      BY <3>1, ChainOfNone
    <3>3. Chained(m, newer[m], 0 + 1)
      BY <3>1, <3>2, ChainGrows
    <3> QED
      BY <3>1, <3>3
  <2>5. ChainFollowed'
    <3>1. MaxHops \in Nat \ {0}
      BY RetrievalAssumption
    <3>2. PICK x, y : x = m /\ y = link[m]
      OBVIOUS
    <3>3. Chained(x, y, 1)'
      BY <1>6, <2>3, <3>2
    <3>4. InView(At[y])' /\ HasNewer(x)'
      BY <1>1, <1>8, <3>2 DEF InView, HasNewer
    <3>5. link' = link /\ x = pool'[follow'.cand].key /\ y = follow'.key
      BY <1>1, <2>1, <3>2 DEF m
    <3>6. /\ follow'.hops \in Nat /\ follow'.hops < MaxHops /\ follow'.hops = 0
          /\ follow'.hops + 1 = 1 /\ follow'.current = NoMemory
      BY <2>1, <3>1
    <3>7. At[x] < At[y] /\ y = link'[x]
      BY <2>2, <3>2, <3>5
    <3> QED
      BY <3>3, <3>4, <3>5, <3>6, <3>7 DEF ChainFollowed
  <2>6. ASSUME NEW i \in 1..(follow'.cand - 1) PROVE pool'[i].key \in stale' \/ Hidden(pool[i].key)'
    BY <1>1, <1>2, <1>3, <2>1 DEF Following, Hidden, InView
  <2>7. Following'
    BY <1>1, <1>2, <1>3, <1>5, <1>7, <2>1, <2>5, <2>6 DEF Following
  <2> QED
    BY <1>1, <1>3, <2>7 DEF SupersessionInv, Early, Answered
<1>9. CASE ~HasNewer(m)
  <2>1. /\ follow'.cand = follow.cand + 1 /\ follow'.key = NoMemory /\ follow'.hops = 0
        /\ follow'.current = NoMemory
    BY <1>1, <1>2, <1>9
  <2>2. Hidden(m)
    <3>1. Visible \subseteq Memories
      BY RetrievalAssumption DEF Visible
    <3> QED
      BY <1>9, <3>1 DEF Hidden, HasNewer
  <2>3. ASSUME NEW i \in 1..(follow'.cand - 1) PROVE pool[i].key \in stale \/ Hidden(pool[i].key)
    <3>1. CASE i = follow.cand
      BY <2>2, <3>1 DEF m
    <3>2. CASE i # follow.cand
      <4>1. i \in 1..(follow.cand - 1)
        BY <1>2, <2>1, <3>2
      <4> QED
        BY <1>2, <4>1 DEF Following
    <3> QED
      BY <3>1, <3>2
  <2>4. \A i \in 1..(follow'.cand - 1) : pool'[i].key \in stale' \/ Hidden(pool[i].key)'
    BY <1>1, <1>3, <2>3 DEF Hidden, InView
  <2>5. Following'
    BY <1>1, <1>2, <1>3, <1>5, <1>7, <2>1, <2>4 DEF Following
  <2> QED
    BY <1>1, <1>3, <2>5 DEF SupersessionInv, Early, Answered
<1> QED
  BY <1>8, <1>9

(* A successor raised stands above its candidate, and only it has moved up.  *)
RaisedAbove(t, s, i, key) ==
  /\ DOMAIN t = DOMAIN s
  /\ \A j \in DOMAIN s :
       /\ t[j].key = s[j].key /\ t[j].score \in Int /\ t[j].score >= s[j].score
       /\ s[j].key # key => t[j].score = s[j].score
       /\ s[j].key = key => t[j].score > s[i].score

LEMMA RaisedScores ==
  ASSUME NEW S, NEW s, Ranking(s, S), NEW i \in DOMAIN s, NEW key
  PROVE  RaisedAbove(Raised(s, i, key), s, i, key)
<1> DEFINE t == Raised(s, i, key)
<1>1. DOMAIN t = DOMAIN s
  BY DEF Raised
<1>2. ASSUME NEW j \in DOMAIN s
      PROVE  /\ t[j].key = s[j].key /\ t[j].score \in Int /\ t[j].score >= s[j].score
             /\ s[j].key # key => t[j].score = s[j].score
             /\ s[j].key = key => t[j].score > s[i].score
  <2>1. s[j] \in Candidate(S)
    BY DEF Ranking
  <2>2. s[j].score \in Int /\ s[i].score \in Int
    BY RankingDomain
  <2>3. Max({s[j].score, s[i].score + 1}) = IF s[j].score >= s[i].score + 1 THEN s[j].score ELSE s[i].score + 1
    BY <2>2, MaxOfTwo
  <2>4. t[j] = IF s[j].key = key THEN [s[j] EXCEPT !.score = Max({s[j].score, s[i].score + 1})] ELSE s[j]
    BY <2>1 DEF Raised, Candidate
  <2>5. CASE s[j].key # key
    BY <2>2, <2>4, <2>5
  <2>6. CASE s[j].key = key
    <3>1. t[j].key = s[j].key /\ t[j].score = Max({s[j].score, s[i].score + 1})
      BY <2>1, <2>4, <2>6 DEF Candidate
    <3> QED
      BY <2>2, <2>3, <2>6, <3>1
  <2> QED
    BY <2>5, <2>6
<1> HIDE DEF t
<1>3. RaisedAbove(t, s, i, key)
  BY <1>1, <1>2 DEF RaisedAbove
<1> QED
  BY <1>3 DEF t

RaisedTo(current) ==
  /\ \A i \in DOMAIN pool :
       /\ i \in DOMAIN pool' /\ pool'[i].key = pool[i].key
       /\ pool'[i].score \in Int /\ pool[i].score \in Int /\ pool'[i].score >= pool[i].score
       /\ pool[i].key # current => pool'[i].score = pool[i].score
  /\ \A i \in DOMAIN pool' : i \in DOMAIN pool \/ (i > Selected /\ pool'[i].key \in pulled')
  /\ \E j \in DOMAIN pool' : pool'[j].key = current /\ pool'[j].score > pool[follow.cand].score
  /\ \A key \in KeysOf(pool) : key \in pulled' <=> key \in pulled
  /\ Selected' = Selected

LEMMA ConcludeRaises ==
  ASSUME RetrievalInv, pc = "follow", follow.key # NoMemory, NEW current \in Scope, Conclude(current)
  PROVE  follow.cand \in DOMAIN pool /\ RaisedTo(current)
<1>1. current # NoMemory
  BY RetrievalAssumption DEF Scope
<1>2. /\ follow.cand \in Nat /\ follow.cand <= Selected /\ Cardinality(pulled) < follow.cand
      /\ pulled \subseteq KeysOf(pool)
  BY DEF RetrievalInv, RetrievalTypeOK, PulledIn
<1>3. IsFiniteSet(pulled) /\ Cardinality(pulled) \in Nat /\ Selected \in Int
  BY SelectedIsNat
<1>4. /\ Len(pool) \in Nat /\ DOMAIN pool = 1..Len(pool) /\ Ranking(pool, Scope)
      /\ \A i \in DOMAIN pool : pool[i].score \in Int
  BY RankingDomain DEF RetrievalInv, CandidatesInScope
<1>5. follow.cand \in DOMAIN pool
  BY <1>2, <1>3, <1>4 DEF Selected
<1>6. CASE current \in KeysOf(pool)
  <2>1. pool' = Raised(pool, follow.cand, current) /\ pulled' = pulled
    BY <1>1, <1>6 DEF Conclude
  <2>2. /\ DOMAIN pool' = DOMAIN pool
        /\ \A j \in DOMAIN pool :
             /\ pool'[j].key = pool[j].key /\ pool'[j].score \in Int /\ pool'[j].score >= pool[j].score
             /\ pool[j].key # current => pool'[j].score = pool[j].score
             /\ pool[j].key = current => pool'[j].score > pool[follow.cand].score
    <3>1. RaisedAbove(pool', pool, follow.cand, current)
      BY <1>4, <1>5, <2>1, RaisedScores
    <3> QED
      BY <3>1 DEF RaisedAbove
  <2>3. PICK j \in DOMAIN pool : pool[j].key = current
    BY <1>6 DEF KeysOf
  <2>4. Selected' = Selected
    <3>1. Len(pool') = Len(pool)
      BY <1>4, <1>5, <2>1, RaisedRanks
    <3> QED
      BY <2>1, <3>1 DEF Selected
  <2> QED
    BY <1>4, <1>5, <2>1, <2>2, <2>3, <2>4 DEF RaisedTo
<1>7. CASE current \notin KeysOf(pool)
  <2> DEFINE longer == Append(pool, [key |-> current, score |-> 0])
  <2>1. pool' = Raised(longer, follow.cand, current) /\ pulled' = pulled \cup {current}
    BY <1>1, <1>7 DEF Conclude
  <2>2. Ranking(longer, Scope) /\ Len(longer) = Len(pool) + 1
    BY <1>4, <1>7, AppendedRanks
  <2>3. /\ \A i \in DOMAIN pool : longer[i] = pool[i]
        /\ longer[Len(pool) + 1].key = current
    BY <1>4, AppendProperties DEF Ranking
  <2>4. DOMAIN longer = 1..(Len(pool) + 1)
    BY <2>2, RankingDomain
  <2> HIDE DEF longer
  <2>5. follow.cand \in DOMAIN longer /\ \A i \in DOMAIN pool : i \in DOMAIN longer
    BY <1>4, <1>5, <2>4
  <2>6. /\ DOMAIN pool' = DOMAIN longer
        /\ \A j \in DOMAIN longer :
             /\ pool'[j].key = longer[j].key /\ pool'[j].score \in Int /\ pool'[j].score >= longer[j].score
             /\ longer[j].key # current => pool'[j].score = longer[j].score
             /\ longer[j].key = current => pool'[j].score > longer[follow.cand].score
    <3>1. RaisedAbove(pool', longer, follow.cand, current)
      BY <2>1, <2>2, <2>5, RaisedScores
    <3> QED
      BY <3>1 DEF RaisedAbove
  <2>7. Selected' = Selected
    <3>1. Len(pool') = Len(pool) + 1
      BY <2>1, <2>2, <2>5, RaisedRanks
    <3>2. Cardinality(pulled') = Cardinality(pulled) + 1
      BY <1>2, <1>3, <1>7, <2>1, FS_AddElement
    <3> QED
      BY <1>3, <1>4, <3>1, <3>2 DEF Selected
  <2>8. \A i \in DOMAIN pool' : i \in DOMAIN pool \/ (i > Selected /\ pool'[i].key \in pulled')
    <3>1. \A i \in DOMAIN pool' : i \in DOMAIN pool \/ i = Len(pool) + 1
      BY <1>4, <2>4, <2>6
    <3>2. Len(pool) + 1 > Selected
      BY <1>3, <1>4 DEF Selected
    <3>3. Len(pool) + 1 \in DOMAIN longer
      BY <1>4, <2>4
    <3> QED
      BY <2>1, <2>3, <2>6, <3>1, <3>2, <3>3
  <2>9. \E j \in DOMAIN pool' : pool'[j].key = current /\ pool'[j].score > pool[follow.cand].score
    <3>1. Len(pool) + 1 \in DOMAIN longer
      BY <1>4, <2>4
    <3> QED
      BY <1>5, <2>3, <2>6, <3>1
  <2>10. \A i \in DOMAIN pool :
           /\ i \in DOMAIN pool' /\ pool'[i].key = pool[i].key
           /\ pool'[i].score \in Int /\ pool[i].score \in Int /\ pool'[i].score >= pool[i].score
           /\ pool[i].key # current => pool'[i].score = pool[i].score
    BY <1>4, <2>3, <2>5, <2>6
  <2> QED
    BY <1>5, <1>7, <2>1, <2>7, <2>8, <2>9, <2>10 DEF RaisedTo
<1> QED
  BY <1>6, <1>7

(* The end of a chain found: its candidate is marked below what it led to.   *)
LEMMA ConcludeKeepsOrder ==
  ASSUME RetrievalInv, SupersessionInv, pc = "follow", follow.key # NoMemory,
         NEW current, Conclude(current), NEW m, m = pool[follow.cand].key,
         link' \in [Memories -> Memories \cup {NoMemory, Unread, Gone}],
         \A x \in Memories : link[x] # Unread => link'[x] = link[x],
         LinksRead',
         current = NoMemory => Hidden(m)',
         current # NoMemory =>
           /\ current \in Scope \ stale /\ At[m] < At[current] /\ ChainedWithin(m, current)
           /\ link'[link'[m]] \notin {Unread, Gone},
         UNCHANGED <<asOf, pc, Gathered, answer, accessed, Others>>
  PROVE  SupersessionInv'
<1>1. /\ pc' = "follow" /\ asOf' = asOf /\ newer' = newer /\ Visible' = Visible /\ NewerIsLater'
      /\ follow' = [cand |-> follow.cand + 1, key |-> NoMemory, hops |-> 0, current |-> NoMemory]
  BY DEF Conclude, Others, Visible, NothingFollowed, SupersessionInv, NewerIsLater
<1>2. /\ Following /\ ChainFollowed /\ follow.cand \in Nat \ {0} /\ HasNewer(m)
      /\ \A i \in DOMAIN pool :
           IF i > Selected THEN pool[i].key \in pulled ELSE pool[i].key \notin pulled /\ link[pool[i].key] # Unread
      /\ \A i \in 1..(follow.cand - 1) : pool[i].key \in stale \/ Hidden(pool[i].key)
      /\ \A x \in stale : Marked(x)
  BY DEF SupersessionInv, Following, ChainFollowed
<1>3. follow.cand <= Selected /\ follow.cand \in DOMAIN pool /\ Selected \in Int
  <2>1. follow.cand <= Selected
    BY DEF RetrievalInv, PulledIn
  <2> QED
    BY <1>2, <2>1, SelectedIsNat, KeysInScope DEF Selected
<1>4. /\ KeysOf(pool) \subseteq Memories /\ DOMAIN pool = 1..Len(pool) /\ Len(pool) \in Nat
      /\ \A i \in DOMAIN pool : pool[i].key \in KeysOf(pool)
  BY KeysInScope DEF KeysOf
<1>5. ASSUME NEW x, NEW y, ChainedWithin(x, y) PROVE ChainedWithin(x, y)'
  BY <1>1, <1>5 DEF ChainedWithin, Chained, Chain
<1>6. ASSUME NEW x \in Memories, HasNewer(x), link[link[x]] \notin {Unread, Gone}
      PROVE  HasNewer(x)' /\ link'[link'[x]] \notin {Unread, Gone}
  <2>1. link[x] \in Memories /\ link[x] # Unread
    BY <1>6, RetrievalAssumption DEF HasNewer
  <2>2. link'[x] = link[x] /\ link'[link[x]] = link[link[x]]
    BY <1>6, <2>1
  <2> QED
    BY <1>1, <1>6, <2>2 DEF HasNewer, InView
<1>7. ASSUME NEW x \in Memories, link[x] # Unread, Hidden(x) PROVE Hidden(x)'
  BY <1>1, <1>7 DEF Hidden, InView
<1>8. ASSUME NEW i \in 1..(follow.cand - 1)
      PROVE  \A x : x = pool[i].key => x \in stale \/ Hidden(x)'
  <2>1. i \in DOMAIN pool /\ ~(i > Selected)
    BY <1>2, <1>3, <1>4
  <2>2. link[pool[i].key] # Unread /\ pool[i].key \in Memories
    BY <1>2, <1>4, <2>1
  <2> QED
    BY <1>2, <1>7, <2>2
<1>9. CASE current = NoMemory
  <2>1. pool' = pool /\ pulled' = pulled /\ stale' = stale /\ Selected' = Selected
    BY <1>9 DEF Conclude, Selected
  <2>2. ASSUME NEW x \in stale PROVE Marked(x)'
    <3>1. Marked(x)
      BY <1>2
    <3>2. PICK y : Above(x, y) /\ ChainedWithin(x, y)
      BY <3>1 DEF Marked
    <3>3. Above(x, y)' /\ ChainedWithin(x, y)'
      BY <1>5, <2>1, <3>2 DEF Above
    <3>4. HasNewer(x)' /\ link'[link'[x]] \notin {Unread, Gone} /\ x \in KeysOf(pool') \ pulled'
      BY <1>4, <1>6, <2>1, <3>1 DEF Marked
    <3> QED
      BY <3>3, <3>4 DEF Marked
  <2>3. ASSUME NEW i \in DOMAIN pool
        PROVE  IF i > Selected THEN pool[i].key \in pulled
               ELSE pool[i].key \notin pulled /\ link'[pool[i].key] # Unread
    BY <1>2, <1>4
  <2>4. ASSUME NEW i \in 1..follow.cand PROVE \A x : x = pool[i].key => x \in stale \/ Hidden(x)'
    <3>1. i = follow.cand \/ i \in 1..(follow.cand - 1)
      BY <1>2
    <3> QED
      BY <1>8, <1>9, <3>1
  <2>5. \A i \in 1..(follow'.cand - 1) : pool'[i].key \in stale' \/ Hidden(pool[i].key)'
    <3>1. \A i \in 1..follow.cand : pool'[i].key \in stale' \/ Hidden(pool[i].key)'
      BY <2>1, <2>4 DEF Hidden
    <3> QED
      BY <1>1, <1>2, <3>1
  <2>6. Following'
    BY <1>1, <1>2, <2>1, <2>2, <2>3, <2>5 DEF Following
  <2> QED
    BY <1>1, <2>6 DEF SupersessionInv, Early, Answered
<1>10. CASE current # NoMemory
  <2>1. stale' = stale \cup {m} /\ RaisedTo(current)
    BY <1>10, ConcludeRaises DEF Conclude
  <2>2. current # m
    <3>1. current \in Scope /\ At[m] < At[current]
      BY <1>10
    <3>2. m \in Memories /\ At[m] \in Int
      BY <1>3, <1>4, RetrievalAssumption
    <3> QED
      BY <3>1, <3>2
  <2>3. /\ \A i \in DOMAIN pool :
             /\ i \in DOMAIN pool' /\ pool'[i].key = pool[i].key
             /\ pool'[i].score \in Int /\ pool[i].score \in Int /\ pool'[i].score >= pool[i].score
             /\ pool[i].key # current => pool'[i].score = pool[i].score
        /\ \A i \in DOMAIN pool' : i \in DOMAIN pool \/ (i > Selected /\ pool'[i].key \in pulled')
        /\ \A key \in KeysOf(pool) : key \in pulled' <=> key \in pulled
        /\ Selected' = Selected
    BY <2>1 DEF RaisedTo
  <2>4. ASSUME NEW x \in KeysOf(pool) \ pulled PROVE x \in KeysOf(pool') \ pulled'
    BY <2>3 DEF KeysOf
  <2>5. ASSUME NEW x \in stale PROVE Marked(x)'
    <3>1. Marked(x) /\ x # current
      BY <1>2, <1>10
    <3>2. PICK y : Above(x, y) /\ ChainedWithin(x, y)
      BY <3>1 DEF Marked
    <3>3. PICK i \in DOMAIN pool, j \in DOMAIN pool :
            pool[i].key = x /\ pool[j].key = y /\ pool[j].score > pool[i].score
      BY <3>2 DEF Above
    <3>4. pool'[i].key = x /\ pool'[j].key = y /\ pool'[j].score > pool'[i].score
      <4>1. pool'[i].score = pool[i].score /\ pool'[j].score >= pool[j].score
        BY <2>3, <3>1, <3>3
      <4> QED
        BY <2>3, <3>3, <4>1
    <3>5. Above(x, y)'
      BY <2>3, <3>4 DEF Above
    <3>6. HasNewer(x)' /\ link'[link'[x]] \notin {Unread, Gone} /\ x \in KeysOf(pool') \ pulled'
      BY <1>4, <1>6, <2>4, <3>1 DEF Marked
    <3>7. ChainedWithin(x, y)'
      BY <1>5, <3>2
    <3> QED
      BY <3>5, <3>6, <3>7 DEF Marked
  <2>6. Marked(m)'
    <3>1. PICK j \in DOMAIN pool' : pool'[j].key = current /\ pool'[j].score > pool[follow.cand].score
      BY <2>1 DEF RaisedTo
    <3>2. /\ follow.cand \in DOMAIN pool' /\ pool'[follow.cand].key = m
          /\ pool'[follow.cand].score = pool[follow.cand].score
      BY <1>3, <2>2, <2>3
    <3>3. Above(m, current)'
      BY <3>1, <3>2 DEF Above
    <3>4. m \in KeysOf(pool) \ pulled
      BY <1>2, <1>3, <1>4
    <3>5. ChainedWithin(m, current)'
      BY <1>5, <1>10
    <3>6. HasNewer(m)'
      <4>1. m \in Memories /\ link[m] \in Memories /\ link[m] # Unread
        BY <1>2, <1>4, <3>4, RetrievalAssumption DEF HasNewer
      <4>2. link'[m] = link[m]
        BY <4>1
      <4> QED
        BY <1>1, <1>2, <4>2 DEF HasNewer, InView
    <3> QED
      BY <1>10, <2>4, <3>3, <3>4, <3>5, <3>6 DEF Marked
  <2>7. ASSUME NEW i \in DOMAIN pool'
        PROVE  IF i > Selected THEN pool'[i].key \in pulled'
               ELSE pool'[i].key \notin pulled' /\ link'[pool'[i].key] # Unread
    <3>1. CASE i \in DOMAIN pool
      <4>1. pool'[i].key = pool[i].key /\ pool[i].key \in KeysOf(pool) /\ pool[i].key \in Memories
        BY <1>4, <2>3, <3>1
      <4> QED
        BY <1>2, <2>3, <3>1, <4>1
    <3>2. CASE i \notin DOMAIN pool
      BY <2>3, <3>2
    <3> QED
      BY <3>1, <3>2
  <2>8. ASSUME NEW i \in 1..follow.cand
        PROVE  \A x : x = pool'[i].key => x \in stale' \/ Hidden(x)'
    <3>1. i \in DOMAIN pool
      BY <1>3, <1>4
    <3>2. pool'[i].key = pool[i].key
      BY <2>3, <3>1
    <3>3. i = follow.cand \/ i \in 1..(follow.cand - 1)
      BY <1>2
    <3> QED
      BY <1>8, <2>1, <3>2, <3>3
  <2>9. ASSUME NEW i \in 1..(follow'.cand - 1)
        PROVE  \A x : x = pool'[i].key => x \in stale' \/ Hidden(x)'
    <3>1. i \in 1..follow.cand
      BY <1>1, <1>2
    <3> QED
      BY <2>8, <3>1
  <2>10. Following'
    <3>1. follow'.cand \in Nat \ {0} /\ follow'.key = NoMemory /\ follow'.hops = 0 /\ follow'.current = NoMemory
      BY <1>1, <1>2
    <3>2. \A x \in stale' : Marked(x)'
      BY <2>1, <2>5, <2>6
    <3>3. \A i \in DOMAIN pool' : IF i > Selected' THEN pool'[i].key \in pulled'
                                  ELSE pool'[i].key \notin pulled' /\ link'[pool'[i].key] # Unread
      BY <2>3, <2>7
    <3>4. \A i \in 1..(follow'.cand - 1) : pool'[i].key \in stale' \/ Hidden(pool[i].key)'
      BY <2>9 DEF Hidden
    <3> QED
      BY <3>1, <3>2, <3>3, <3>4 DEF Following
  <2> QED
    BY <1>1, <2>10 DEF SupersessionInv, Early, Answered
<1> QED
  BY <1>9, <1>10

LEMMA HopKeepsOrder ==
  ASSUME RetrievalInv, SupersessionInv, ChainsWithinHops, Hop
  PROVE  SupersessionInv'
<1> DEFINE cand == pool[follow.cand].key
           key == follow.key
           next == IF link[key] # Unread THEN link[key] ELSE IF Fetchable(key) THEN newer[key] ELSE Gone
           onward == next \in Memories /\ InView(At[key]) /\ InView(At[next]) /\ follow.hops + 1 < MaxHops
<1>1. /\ pc = "follow" /\ key # NoMemory /\ link' = [link EXCEPT ![key] = next]
      /\ UNCHANGED <<asOf, pc, Gathered, answer, accessed, Others>>
  BY DEF Hop
<1>2. /\ follow \in [cand : Nat, key : Memories \cup {NoMemory}, hops : Int, current : Memories \cup {NoMemory}]
      /\ link \in [Memories -> Memories \cup {NoMemory, Unread, Gone}]
      /\ newer \in [Memories -> Memories \cup {NoMemory}]
  BY DEF RetrievalInv, RetrievalTypeOK
<1>3. key \in Memories /\ next \in Memories \cup {NoMemory, Gone}
  <2>1. key \in Memories
    BY <1>1, <1>2
  <2> QED
    BY <1>2, <2>1
<1>4. /\ NoMemory \notin Memories /\ Unread \notin Memories /\ Gone \notin Memories
      /\ NoMemory # Unread /\ Unread # Gone /\ NoMemory # Gone
  BY RetrievalAssumption DEF NoMemory, Unread, Gone
<1>5. Following /\ ChainFollowed /\ LinksRead /\ NewerIsLater
  BY <1>1 DEF SupersessionInv, Following
<1>6. /\ HasNewer(cand) /\ InView(At[key]) /\ At[cand] < At[key]
      /\ follow.hops \in Nat /\ follow.hops < MaxHops /\ Chained(cand, key, follow.hops + 1)
      /\ follow.current = NoMemory => follow.hops = 0 /\ key = link[cand]
      /\ follow.current # NoMemory =>
           /\ Chained(cand, follow.current, follow.hops) /\ At[cand] < At[follow.current]
           /\ link[follow.current] = key /\ link[link[cand]] \notin {Unread, Gone}
  BY <1>5 DEF ChainFollowed
<1>7. cand \in Memories /\ link[cand] \in Memories /\ link[cand] # Unread /\ follow.cand \in DOMAIN pool
  <2>1. follow.cand \in DOMAIN pool
    <3>1. follow.cand \in Nat \ {0} /\ follow.cand <= Selected
      BY <1>1, <1>5 DEF Following, RetrievalInv, PulledIn
    <3> QED
      BY <3>1, SelectedIsNat, KeysInScope DEF Selected
  <2>2. cand \in Memories
    BY <2>1, KeysInScope DEF KeysOf
  <2> QED
    BY <1>4, <1>6, <2>1, <2>2 DEF HasNewer
<1>8. next # Gone => key \in Scope
  <2>1. CASE link[key] # Unread
    BY <1>1, <1>3, <2>1 DEF RetrievalInv, LinksInScope
  <2>2. CASE link[key] = Unread
    BY <2>2, VisibleInScope DEF Fetchable
  <2> QED
    BY <2>1, <2>2
<1>9. link[key] # Unread => next = link[key]
  OBVIOUS
<1>10. /\ next \in Memories => newer[key] = next
       /\ next = Gone => key \notin Visible
  <2>1. CASE link[key] # Unread
    BY <1>3, <1>5, <2>1 DEF LinksRead
  <2>2. CASE link[key] = Unread
    BY <1>2, <1>3, <1>4, <2>2 DEF Fetchable
  <2> QED
    BY <2>1, <2>2
<1> HIDE DEF next, cand, key
<1>11. \A x \in Memories : link'[x] = IF x = key THEN next ELSE link[x]
  BY <1>1, <1>2
<1>12. /\ link' \in [Memories -> Memories \cup {NoMemory, Unread, Gone}]
       /\ \A x \in Memories : link[x] # Unread => link'[x] = link[x]
       /\ newer' = newer /\ Visible' = Visible /\ asOf' = asOf
  <2>1. link' \in [Memories -> Memories \cup {NoMemory, Unread, Gone}]
    BY <1>1, <1>2, <1>3
  <2>2. \A x \in Memories : link[x] # Unread => link'[x] = link[x]
    BY <1>9, <1>11
  <2> QED
    BY <1>1, <2>1, <2>2 DEF Others, Visible
<1>13. LinksRead'
  BY <1>5, <1>10, <1>11, <1>12 DEF LinksRead
<1>14. ASSUME NEW x \in Memories, x \in stale
       PROVE  /\ link[x] \in Memories /\ link[x] # Unread /\ InView(At[link[x]])
              /\ link[link[x]] \notin {Unread, Gone}
  BY <1>4, <1>5, <1>14 DEF Following, Marked, HasNewer
<1>15. link'[cand] = link[cand]
  BY <1>7, <1>12
<1>16. CASE next = Gone
  <2>1. Conclude(follow.current)
    <3>1. ~onward
      BY <1>4, <1>16
    <3> QED
      BY <1>16, <3>1 DEF Hop, next, key
  <2>3. ASSUME follow.current # NoMemory
        PROVE  /\ follow.current \in Scope \ stale /\ At[cand] < At[follow.current]
               /\ ChainedWithin(cand, follow.current) /\ link'[link'[cand]] \notin {Unread, Gone}
    <3>1. follow.current \in Scope /\ follow.current \in Memories
      BY <1>1, <1>2, <2>3 DEF RetrievalInv, LinksInScope
    <3>2. follow.current \notin stale
      <4> SUFFICES ASSUME follow.current \in stale PROVE FALSE
        OBVIOUS
      <4>1. link[follow.current] = key /\ link[link[follow.current]] \notin {Unread, Gone}
        BY <1>6, <1>14, <2>3, <3>1
      <4> QED
        BY <1>9, <1>16, <4>1
    <3>3. ChainedWithin(cand, follow.current)
      <4>1. follow.hops \in 0..MaxHops
        BY <1>6, RetrievalAssumption
      <4> QED
        BY <1>6, <2>3, <4>1 DEF ChainedWithin
    <3>4. link'[link'[cand]] \notin {Unread, Gone}
      <4>1. link[link[cand]] \notin {Unread, Gone}
        BY <1>6, <2>3
      <4>2. link'[link[cand]] = link[link[cand]]
        BY <1>7, <1>12, <4>1
      <4> QED
        BY <1>15, <4>1, <4>2
    <3> QED
      BY <1>6, <2>3, <3>1, <3>2, <3>3, <3>4
  <2>4. PICK m : m = cand
    OBVIOUS
  <2>5. ASSUME follow.current = NoMemory PROVE Hidden(m)'
    <3>1. link[m] = key /\ key \notin Visible /\ link'[m] = link[m]
      BY <1>6, <1>10, <1>15, <1>16, <2>4, <2>5
    <3> QED
      BY <1>12, <3>1 DEF Hidden
  <2>6. m = pool[follow.cand].key
    BY <2>4 DEF cand
  <2> QED
    BY <1>1, <1>12, <1>13, <2>1, <2>3, <2>4, <2>5, <2>6, ConcludeKeepsOrder DEF key
<1>17. CASE next # Gone /\ onward
  <2>1. /\ follow' = [follow EXCEPT !.key = next, !.hops = @ + 1, !.current = key]
        /\ UNCHANGED <<pool, pulled, stale>>
    BY <1>6, <1>17 DEF Hop, next, key
  <2>2. /\ follow'.cand = follow.cand /\ follow'.key = next /\ follow'.current = key
        /\ follow'.hops = follow.hops + 1
        /\ follow'.key # NoMemory /\ Selected' = Selected
    BY <1>2, <1>4, <1>17, <2>1 DEF Selected
  <2>3. ASSUME NEW x, NEW y, NEW h, Chained(x, y, h) PROVE Chained(x, y, h)'
    BY <1>12, <2>3 DEF Chained, Chain
  <2>4. At[cand] < At[next]
    <3>1. At[key] < At[next]
      BY <1>3, <1>5, <1>10, <1>17 DEF NewerIsLater
    <3>2. At[cand] \in Nat /\ At[key] \in Nat /\ At[next] \in Nat
      BY <1>3, <1>7, <1>17, RetrievalAssumption
    <3> QED
      BY <1>6, <3>1, <3>2
  <2>5. Chained(cand, next, follow.hops + 2)
    <3>1. newer[key] = next /\ newer[key] \in Memories
      BY <1>10, <1>17
    <3>2. Chained(cand, newer[key], (follow.hops + 1) + 1)
      BY <1>6, <3>1, ChainGrows DEF RetrievalInv
    <3>3. (follow.hops + 1) + 1 = follow.hops + 2
      BY <1>6
    <3> QED
      BY <3>1, <3>2, <3>3
  <2>6. link'[key] = next /\ link'[link'[cand]] \notin {Unread, Gone}
    <3>1. link'[key] = next /\ next \notin {Unread, Gone}
      BY <1>3, <1>4, <1>11, <1>17
    <3>2. CASE follow.current = NoMemory
      BY <1>6, <1>15, <3>1, <3>2
    <3>3. CASE follow.current # NoMemory
      <4>1. link[link[cand]] \notin {Unread, Gone}
        BY <1>6, <3>3
      <4>2. link'[link[cand]] = link[link[cand]]
        BY <1>7, <1>12, <4>1
      <4> QED
        BY <1>15, <3>1, <4>1, <4>2
    <3> QED
      BY <3>1, <3>2, <3>3
  <2>7. ChainFollowed'
    <3>1. PICK x, y, z, h : x = cand /\ y = next /\ z = key /\ h = follow.hops + 1
      OBVIOUS
    <3>2. /\ Chained(x, y, h + 1)' /\ Chained(x, z, h)'
      <4>1. h + 1 = follow.hops + 2
        BY <1>6, <3>1
      <4>2. Chained(x, y, h + 1) /\ Chained(x, z, h)
        BY <1>6, <2>5, <3>1, <4>1
      <4> QED
        BY <2>3, <4>2
    <3>3. HasNewer(x)' /\ InView(At[y])'
      BY <1>6, <1>12, <1>15, <1>17, <3>1 DEF HasNewer, InView
    <3>4. x = pool'[follow'.cand].key /\ y = follow'.key /\ z = follow'.current /\ h = follow'.hops
      BY <2>1, <2>2, <3>1 DEF cand
    <3>5. /\ h \in Nat /\ h < MaxHops /\ z # NoMemory /\ link'[z] = y /\ link'[link'[x]] \notin {Unread, Gone}
          /\ At[x] < At[y] /\ At[x] < At[z]
      BY <1>1, <1>6, <1>17, <2>4, <2>6, <3>1
    <3> QED
      BY <3>2, <3>3, <3>4, <3>5 DEF ChainFollowed
  <2>8. ASSUME NEW x \in stale PROVE Marked(x)'
    <3>1. Marked(x)
      BY <1>5 DEF Following
    <3>2. PICK y : Above(x, y) /\ ChainedWithin(x, y)
      BY <3>1 DEF Marked
    <3>3. PICK h \in 0..MaxHops : Chained(x, y, h)
      BY <3>2 DEF ChainedWithin
    <3>4. Chained(x, y, h)' /\ Above(x, y)'
      BY <2>1, <2>3, <3>2, <3>3 DEF Above
    <3>5. ChainedWithin(x, y)'
      BY <3>4 DEF ChainedWithin
    <3>6. x \in KeysOf(pool) \ pulled /\ x \in Memories
      BY <3>1, KeysInScope DEF Marked
    <3>7. link'[x] = link[x] /\ link'[link[x]] = link[link[x]]
      BY <1>12, <1>14, <3>6
    <3>8. HasNewer(x)' /\ link'[link'[x]] \notin {Unread, Gone}
      BY <1>12, <3>1, <3>7 DEF Marked, HasNewer, InView
    <3> QED
      BY <2>1, <3>4, <3>5, <3>6, <3>8 DEF Marked
  <2>9. ASSUME NEW i \in DOMAIN pool
        PROVE  IF i > Selected THEN pool[i].key \in pulled
               ELSE pool[i].key \notin pulled /\ link'[pool[i].key] # Unread
    <3>1. pool[i].key \in Memories
      BY KeysInScope DEF KeysOf
    <3>2. IF i > Selected THEN pool[i].key \in pulled ELSE pool[i].key \notin pulled /\ link[pool[i].key] # Unread
      BY <1>5 DEF Following
    <3> QED
      BY <1>12, <3>1, <3>2
  <2>10. ASSUME NEW i \in 1..(follow.cand - 1) PROVE pool'[i].key \in stale' \/ Hidden(pool[i].key)'
    <3>1. i \in DOMAIN pool /\ ~(i > Selected)
      <4>1. follow.cand <= Selected /\ follow.cand \in Nat
        BY <1>1, <1>2 DEF RetrievalInv, PulledIn, key
      <4> QED
        BY <1>7, <4>1, SelectedIsNat, KeysInScope
    <3>2. pool[i].key \in Memories /\ link[pool[i].key] # Unread
      BY <1>5, <3>1, KeysInScope DEF Following, KeysOf
    <3>3. pool[i].key \in stale \/ Hidden(pool[i].key)
      BY <1>5 DEF Following
    <3>4. link'[pool[i].key] = link[pool[i].key]
      BY <1>12, <3>2
    <3> QED
      BY <1>12, <2>1, <3>3, <3>4 DEF Hidden, InView
  <2>11. follow'.cand \in Nat \ {0}
    BY <1>5, <2>2 DEF Following
  <2>12. Following'
    BY <1>13, <2>1, <2>2, <2>7, <2>8, <2>9, <2>10, <2>11 DEF Following
  <2>13. NewerIsLater'
    BY <1>5, <1>12 DEF NewerIsLater
  <2> QED
    BY <1>1, <2>12, <2>13 DEF SupersessionInv, Early, Answered
<1>18. CASE next # Gone /\ ~onward
  <2>1. Conclude(key)
    BY <1>6, <1>18 DEF Hop, next, key
  <2>2. key \in Scope
    BY <1>8, <1>18
  <2>3. key \notin stale
    <3> SUFFICES ASSUME key \in stale PROVE FALSE
      OBVIOUS
    <3>1. /\ link[key] \in Memories /\ link[key] # Unread /\ InView(At[link[key]])
      BY <1>3, <1>14
    <3>2. next \in Memories /\ InView(At[next])
      BY <1>9, <3>1
    <3>3. follow.hops + 1 = MaxHops
      BY <1>6, <1>18, <3>2, RetrievalAssumption
    <3>4. newer[key] = next
      BY <1>10, <3>2
    <3>5. Chained(cand, next, MaxHops + 1)
      BY <1>6, <3>2, <3>3, <3>4, ChainGrows DEF RetrievalInv
    <3> QED
      BY <3>5 DEF Chained, ChainsWithinHops
  <2>4. ChainedWithin(cand, key)
    <3>1. follow.hops + 1 \in 0..MaxHops
      BY <1>6, RetrievalAssumption
    <3> QED
      BY <1>6, <3>1 DEF ChainedWithin
  <2>5. link'[link'[cand]] \notin {Unread, Gone}
    <3>1. CASE follow.current = NoMemory
      <4>1. link'[key] = next /\ next \notin {Unread, Gone}
        BY <1>3, <1>4, <1>11, <1>18
      <4> QED
        BY <1>6, <1>15, <3>1, <4>1
    <3>2. CASE follow.current # NoMemory
      <4>1. link[link[cand]] \notin {Unread, Gone}
        BY <1>6, <3>2
      <4>2. link'[link[cand]] = link[link[cand]]
        BY <1>7, <1>12, <4>1
      <4> QED
        BY <1>15, <4>1, <4>2
    <3> QED
      BY <3>1, <3>2
  <2>6. PICK m : m = cand
    OBVIOUS
  <2>7. m = pool[follow.cand].key
    BY <2>6 DEF cand
  <2>8. follow.key # NoMemory
    BY <1>1 DEF key
  <2>9. ASSUME key = NoMemory PROVE Hidden(m)'
    BY <1>1, <2>9
  <2> QED
    BY <1>1, <1>6, <1>12, <1>13, <2>1, <2>2, <2>3, <2>4, <2>5, <2>6, <2>7, <2>8, <2>9, ConcludeKeepsOrder
<1> QED
  BY <1>16, <1>17, <1>18

(* Sorting and trimming keep what stands above a memory that is marked.      *)
LEMMA EndFollowKeepsOrder == ASSUME RetrievalInv, SupersessionInv, EndFollow PROVE SupersessionInv'
<1> DEFINE sorted == ByScore(pool)
           kept == Trim(sorted)
<1>1. /\ pc = "follow" /\ pc' = "assemble" /\ follow.cand > Selected
      /\ UNCHANGED <<asOf, Selection, Others>>
      /\ pool' = [i \in DOMAIN kept |-> [kept[i] EXCEPT !.score = 0]]
  BY DEF EndFollow
<1>2. /\ Ranking(pool, Scope) /\ Ranking(sorted, Scope) /\ KeysOf(sorted) = KeysOf(pool)
  BY ByScoreRanks DEF RetrievalInv, CandidatesInScope
<1>3. IsFiniteSet(pulled) /\ Cardinality(pulled) <= HitCount
  <2>1. HitCount \in Nat /\ follow.cand \in Nat
    BY RetrievalAssumption DEF RetrievalInv, RetrievalTypeOK
  <2> QED
    BY <1>1, <2>1, SelectedIsNat DEF RetrievalInv, PulledIn
<1>4. Ranking(kept, Scope) /\ KeysOf(kept) \subseteq KeysOf(pool)
  BY <1>2, <1>3, TrimRanks
<1>5. /\ Following /\ follow.cand \in Nat \ {0} /\ Selected \in Int
      /\ DOMAIN pool = 1..Len(pool) /\ Len(pool) \in Nat
      /\ \A i \in DOMAIN pool : i <= Selected => i \in 1..(follow.cand - 1)
  BY <1>1, SelectedIsNat, KeysInScope DEF SupersessionInv, Following
<1>6. /\ asOf' = asOf /\ link' = link /\ stale' = stale /\ pulled' = pulled /\ newer' = newer /\ Visible' = Visible
  BY <1>1 DEF Selection, Others, Visible
<1> HIDE DEF kept
<1>7. DOMAIN pool' = DOMAIN kept /\ \A i \in DOMAIN kept : pool'[i].key = kept[i].key
  <2>1. ASSUME NEW i \in DOMAIN kept PROVE pool'[i].key = kept[i].key
    <3>1. kept[i] \in Candidate(Scope)
      BY <1>4 DEF Ranking
    <3> QED
      BY <1>1, <3>1 DEF Candidate
  <2> QED
    BY <1>1, <2>1
<1>8. ASSUME NEW k \in DOMAIN kept, kept[k].key \in stale
      PROVE  \E l \in 1..(k - 1) : l \in DOMAIN kept /\ ChainedWithin(kept[k].key, kept[l].key)
  <2>1. PICK p \in DOMAIN sorted :
          /\ kept[k] = sorted[p]
          /\ sorted[p].key \notin pulled =>
               \A q \in 1..(p - 1) : \E l \in 1..(k - 1) : kept[l] = sorted[q]
    BY <1>2, TrimFollows DEF kept
  <2>2. PICK m : m = kept[k].key
    OBVIOUS
  <2>3. Marked(m) /\ m \notin pulled
    BY <1>5, <1>8, <2>2 DEF Following, Marked
  <2>4. PICK n : Above(m, n) /\ ChainedWithin(m, n)
    BY <2>3 DEF Marked
  <2>5. PICK b \in DOMAIN pool, a \in DOMAIN pool :
          pool[b].key = m /\ pool[a].key = n /\ pool[a].score > pool[b].score
    BY <2>4 DEF Above
  <2>6. sorted[p].key = pool[b].key
    BY <2>1, <2>2, <2>5
  <2>7. PICK q \in 1..(p - 1) : sorted[q] = pool[a]
    BY <1>2, <2>1, <2>5, <2>6, ByScoreFollows
  <2>8. PICK l \in 1..(k - 1) : kept[l] = sorted[q]
    BY <2>1, <2>2, <2>3, <2>7
  <2>9. l \in DOMAIN kept
    <3>1. DOMAIN kept = 1..Len(kept) /\ Len(kept) \in Nat
      BY <1>4, RankingDomain
    <3> QED
      BY <3>1
  <2> QED
    BY <2>2, <2>4, <2>5, <2>7, <2>8, <2>9
<1>9. ASSUME NEW k \in DOMAIN kept, kept[k].key \notin stale \cup pulled PROVE Hidden(kept[k].key)
  <2>1. kept[k].key \in KeysOf(pool)
    BY <1>4 DEF KeysOf
  <2>2. PICK i \in DOMAIN pool : pool[i].key = kept[k].key
    BY <2>1 DEF KeysOf
  <2>3. i <= Selected
    BY <1>5, <1>9, <2>2 DEF Following
  <2> QED
    BY <1>5, <1>9, <2>2, <2>3 DEF Following
<1>10. PICK keys : keys = KeyList(kept)
  OBVIOUS
<1>11. Placed(keys)
  <2>1. DOMAIN keys = DOMAIN kept /\ \A k \in DOMAIN kept : keys[k] = kept[k].key
    BY <1>10 DEF KeyList
  <2> QED
    BY <1>8, <1>9, <2>1 DEF Placed
<1>12. Placed(keys)'
  BY <1>6, <1>11 DEF Placed, Hidden, InView, ChainedWithin, Chained, Chain
<1>13. keys = KeyList(pool')
  BY <1>7, <1>10 DEF KeyList
<1>14. Placed(KeyList(pool))'
  BY <1>12, <1>13
<1>15. NewerIsLater'
  BY <1>6 DEF NewerIsLater, SupersessionInv
<1> QED
  BY <1>1, <1>14, <1>15 DEF SupersessionInv, Early, Answered

(* The last statements answer with the list as it stands.                    *)
LEMMA AnswerKeepsOrder ==
  ASSUME SupersessionInv, pc \in {"assemble", "refresh", "brief"}, pc' \in {"refresh", "brief", "done"},
         answer'.hits = IF pc = "assemble" THEN KeyList(pool) ELSE answer.hits,
         UNCHANGED <<asOf, Selection, Others>>
  PROVE  SupersessionInv'
<1> DEFINE hits == IF pc = "assemble" THEN KeyList(pool) ELSE answer.hits
<1>1. Placed(hits)
  BY DEF SupersessionInv, Answered
<1>2. /\ asOf' = asOf /\ link' = link /\ stale' = stale /\ pulled' = pulled /\ newer' = newer /\ Visible' = Visible
      /\ answer'.hits = hits
  BY DEF Selection, Others, Visible
<1> HIDE DEF hits
<1>3. PICK keys : keys = hits
  OBVIOUS
<1>4. Placed(keys)'
  BY <1>1, <1>2, <1>3 DEF Placed, Hidden, InView, ChainedWithin, Chained, Chain
<1>5. Placed(answer.hits)'
  BY <1>2, <1>3, <1>4
<1>6. NewerIsLater'
  BY <1>2 DEF NewerIsLater, SupersessionInv
<1> QED
  BY <1>5, <1>6 DEF SupersessionInv, Early, Answered

LEMMA SupersessionStep ==
  ASSUME RetrievalInv, SupersessionInv, ChainsWithinHops, [RetrievalNext]_retrievalVars
  PROVE  SupersessionInv'
<1>0. "hits" \in DOMAIN answer /\ (~Answered => answer.hits = <<>>)
  BY DEF RetrievalInv, RetrievalTypeOK, AnswerSound, NoAnswer
<1>1. CASE \E m \in Memories : Forgotten(m) \/ ViewCatchesUp(m) \/ \E n \in Memories : Superseded(m, n)
  BY <1>1, OthersKeepOrder
<1>2. CASE GateSkips \/ Fault
  BY <1>2, NothingPlaced DEF GateSkips, Fault, Empty, NoAnswer
<1>3. CASE Enrich \/ LexicalArm \/ VectorArm
  BY <1>3, EarlyKeepOrder DEF Enrich, LexicalArm, VectorArm, Early
<1>4. CASE GraphArm
  <2>1. pc = "graph" /\ pc' \in {"lexical", "rank"} /\ UNCHANGED <<Selection, Others>>
    BY <1>4 DEF GraphArm
  <2> QED
    BY <2>1, EarlyKeepOrder DEF Early
<1>5. CASE Rank
  <2>1. pc = "rank" /\ pc' \in {"done", "links"} /\ UNCHANGED <<answer, Selection, Others>>
    BY <1>5 DEF Rank
  <2>2. answer'.hits = <<>>
    BY <1>0, <2>1 DEF Answered
  <2> QED
    BY <2>1, <2>2, EarlyKeepOrder, NothingPlaced DEF Early
<1>6. CASE ReadLinks
  BY <1>6, ReadLinksKeepsOrder
<1>7. CASE TurnTo
  BY <1>7, TurnToKeepsOrder
<1>8. CASE Hop
  BY <1>8, HopKeepsOrder
<1>9. CASE EndFollow
  BY <1>9, EndFollowKeepsOrder
<1>10. CASE Assemble
  <2>1. pc = "assemble" /\ pc' = "refresh" /\ answer'.hits = KeyList(pool) /\ UNCHANGED <<asOf, Selection, Others>>
    BY <1>10 DEF Assemble
  <2> QED
    BY <2>1, AnswerKeepsOrder
<1>11. CASE Refresh
  BY <1>11, AnswerKeepsOrder DEF Refresh
<1>12. CASE Brief
  <2>1. pc = "brief" /\ pc' = "done" /\ UNCHANGED <<asOf, Selection, Others>>
    BY <1>12 DEF Brief
  <2>2. answer'.hits = answer.hits
    <3>1. \E u, b : answer' = [answer EXCEPT !.sections = u, !.brief = b]
      BY <1>12 DEF Brief
    <3> QED
      BY <1>0, <3>1
  <2> QED
    BY <2>1, <2>2, AnswerKeepsOrder
<1>13. CASE UNCHANGED retrievalVars
  <2> USE <1>13 DEF retrievalVars, callVars
  <2>1. NewerIsLater' = NewerIsLater /\ Selected' = Selected /\ Visible' = Visible /\ Answered' = Answered
    BY DEF NewerIsLater, Selected, Visible, Answered
  <2>2. Placed(KeyList(pool))' = Placed(KeyList(pool)) /\ Placed(answer.hits)' = Placed(answer.hits)
    BY <2>1 DEF Placed, Hidden, InView, ChainedWithin, Chained, Chain, KeyList
  <2>3. ASSUME Following PROVE Following'
    <3>1. LinksRead' /\ (ChainFollowed => ChainFollowed')
      BY <2>1, <2>3 DEF Following, LinksRead, ChainFollowed, HasNewer, InView, Chained, Chain
    <3>2. ASSUME NEW m \in stale PROVE Marked(m)'
      <4>1. Marked(m)
        BY <2>3 DEF Following
      <4>2. PICK n : Above(m, n) /\ ChainedWithin(m, n)
        BY <4>1 DEF Marked
      <4>3. Above(m, n)'
        BY <4>2 DEF Above
      <4>4. ChainedWithin(m, n)'
        BY <4>2 DEF ChainedWithin, Chained, Chain
      <4>5. HasNewer(m)' /\ m \in KeysOf(pool') \ pulled' /\ link'[link'[m]] \notin {Unread, Gone}
        BY <4>1 DEF Marked, HasNewer, InView
      <4> QED
        BY <4>3, <4>4, <4>5 DEF Marked
    <3>3. \A i \in 1..(follow.cand - 1) : pool[i].key \in stale \/ Hidden(pool[i].key)'
      BY <2>1, <2>3 DEF Following, Hidden, InView
    <3> QED
      BY <2>1, <2>3, <3>1, <3>2, <3>3 DEF Following
  <2> QED
    BY <2>1, <2>2, <2>3 DEF SupersessionInv
<1> QED
  BY <1>1, <1>2, <1>3, <1>4, <1>5, <1>6, <1>7, <1>8, <1>9, <1>10, <1>11, <1>12, <1>13 DEF RetrievalNext

LEMMA PlacedAbove == ASSUME RetrievalInv, SupersessionInv PROVE SuccessorAboveStale
<1> SUFFICES ASSUME Answered, NEW i \in DOMAIN answer.hits
             PROVE  LET m == answer.hits[i]
                    IN /\ m \in stale => \E j \in 1..(i - 1) : Leads(m, answer.hits[j])
                       /\ m \notin stale \cup pulled /\ link[m] \in Visible => ~InView(At[link[m]])
  BY DEF SuccessorAboveStale
<1> DEFINE m == answer.hits[i]
<1>1. /\ m \in stale => \E j \in 1..(i - 1) : ChainedWithin(m, answer.hits[j])
      /\ m \notin stale \cup pulled => Hidden(m)
  BY DEF SupersessionInv, Placed
<1>2. m \in Memories
  BY RetrievalAssumption DEF RetrievalInv, AnswerSound, HitsInView, Hits, Range
<1> HIDE DEF m
<1>3. \A n : ChainedWithin(m, n) => Leads(m, n)
  BY <1>2, ChainLeads DEF RetrievalInv
<1> QED
  BY <1>1, <1>3 DEF m, Hidden

(* As long as no chain of links is longer than a call follows, a statement    *)
(* marked as superseded stands below one that superseded it, whatever others  *)
(* link and forget meanwhile, and one whose newer statement could be shown is *)
(* marked (_supersession, retrieve/search.py:715).                           *)
THEOREM SuccessorsStandAbove == RetrievalSpec /\ []ChainsWithinHops => []SuccessorAboveStale
<1>1. RetrievalInv /\ SupersessionInv => SuccessorAboveStale
  BY PlacedAbove
<1>2. RetrievalInit => RetrievalInv /\ SupersessionInv
  BY RetrievalInitInv, SupersessionInit
<1>3. RetrievalInv /\ SupersessionInv /\ ChainsWithinHops /\ [RetrievalNext]_retrievalVars
      => RetrievalInv' /\ SupersessionInv'
  BY RetrievalStep, SupersessionStep
<1> QED
  BY <1>1, <1>2, <1>3, PTL DEF RetrievalSpec
=============================================================================
