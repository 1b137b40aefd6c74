-------------------------- MODULE DreamStateProofs --------------------------
(***************************************************************************)
(* What holds of DreamState for every set of entities and every breaker:     *)
(* the audit trail and the breaker for any number of passes side by side,    *)
(* and, for one pass at a time, that a conflict never costs both entities.    *)
(***************************************************************************)
EXTENDS DreamState, FiniteSetTheorems, TLAPS

(* The edge of the supersession being applied is there; what the breaker let   *)
(* through is an upper bound of what is hidden and still planned.            *)
EdgeFirst ==
  \A p \in Passes : pc[p] = "invalidate" =>
    pair[p] \in supersedes \/ {pair[p][1], pair[p][2]} \cap doomed # {}

Allowed(p, n) == n * BreakDen <= reviewed[p] * BreakNum

WithinBreaker ==
  \A p \in Passes :
    /\ pc[p] \in {"idle", "review"} => hidden[p] = 0
    /\ pc[p] \in {"apply", "settle"} => Allowed(p, hidden[p] + Cardinality(plan[p]))
    /\ pc[p] = "invalidate" => Allowed(p, hidden[p] + 1 + Cardinality(plan[p]))

(* A conflict target is given once, at the creation of the younger entity:     *)
(* what a snapshot holds of it stays true.                                  *)
FlaggedHasTarget ==
  \A p \in Passes : \A e \in flagged[p] : conflict[e] \in Entities /\ doc[e] # "none"

Inv == TypeOK /\ EdgeFirst /\ HiddenIsAudited /\ WithinBreaker /\ FlaggedHasTarget

LEMMA PlanIsFinite ==
  ASSUME TypeOK, NEW p \in Passes
  PROVE  IsFiniteSet(plan[p]) /\ Cardinality(plan[p]) \in Nat
<1>1. IsFiniteSet(Pairs) BY FS_Product, DreamAssumption DEF Pairs
<1>2. plan[p] \in SUBSET Pairs BY DEF TypeOK
<1> QED BY <1>1, <1>2, FS_Subset, FS_CardinalityType

LEMMA OneLess ==
  ASSUME NEW S, IsFiniteSet(S), NEW x \in S
  PROVE  Cardinality(S) = Cardinality(S \ {x}) + 1 /\ Cardinality(S \ {x}) \in Nat
<1>1. IsFiniteSet(S \ {x}) /\ Cardinality(S \ {x}) = Cardinality(S) - 1 BY FS_RemoveElement
<1>2. Cardinality(S \ {x}) \in Nat /\ Cardinality(S) \in Nat BY <1>1, FS_CardinalityType
<1> QED BY <1>1, <1>2

LEMMA AllowedBelow ==
  ASSUME NEW m \in Nat, NEW n \in Nat, m <= n, NEW r \in Nat, n * BreakDen <= r * BreakNum
  PROVE  m * BreakDen <= r * BreakNum
<1>1. m * BreakDen \in Nat /\ n * BreakDen \in Nat /\ r * BreakNum \in Nat BY DreamAssumption
<1>2. PICK k \in Nat : n = m + k
  <2> WITNESS n - m \in Nat
  <2> QED OBVIOUS
<1>3. n * BreakDen = m * BreakDen + k * BreakDen /\ k * BreakDen \in Nat BY <1>2, DreamAssumption
<1> QED BY <1>1, <1>3

LEMMA InitInv == Init => Inv
<1> SUFFICES ASSUME Init PROVE Inv OBVIOUS
<1>1. TypeOK BY DEF Init, TypeOK, Unseen
<1>2. EdgeFirst /\ HiddenIsAudited BY DEF Init, EdgeFirst, HiddenIsAudited
<1>3. WithinBreaker BY DEF Init, WithinBreaker
<1>4. FlaggedHasTarget BY DEF Init, FlaggedHasTarget
<1> QED BY <1>1, <1>2, <1>3, <1>4 DEF Inv

(* The write path, forget and purge leave the passes alone.                 *)
LEMMA OutsideKeeps ==
  ASSUME Inv, NEW e \in Entities, Beside(e)
  PROVE  Inv'
<1> USE DEF Inv, TypeOK, passVars, decideVars, applyVars
<1>1. UNCHANGED <<passVars, lost, runs>> BY DEF Beside, Create, Mention, Forget, PurgeEdges, PurgeEntity
<1>2. doomed \subseteq doomed' BY DEF Beside, Create, Mention, Forget, PurgeEdges, PurgeEntity
<1>3. \A s \in supersedes : s \in supersedes' \/ {s[1], s[2]} \cap doomed' # {}
  BY DEF Beside, Create, Mention, Forget, PurgeEdges, PurgeEntity
<1>4. TypeOK'
  <2>1. CASE Create(e)
    <3>1. conflict' \in [Entities -> Entities \cup {NoEntity}] /\ review' \in [Entities -> BOOLEAN]
      <4>1. CASE UNCHANGED <<conflict, review>> BY <4>1
      <4>2. CASE ~ UNCHANGED <<conflict, review>>
        <5>1. PICK t \in Entities : /\ conflict' = [conflict EXCEPT ![e] = t]
                                   /\ review' = [review EXCEPT ![e] = TRUE]
          BY <2>1, <4>2 DEF Create
        <5> QED BY <5>1
      <4> QED BY <4>1, <4>2
    <3>2. doc' \in [Entities -> {"none", "valid", "invalid", "gone"}] /\ mentions' \in [Entities -> Nat]
      BY <2>1 DEF Create
    <3>3. UNCHANGED <<summarized, supersedes, doomed, pc, todo, flagged, snap, reviewed, plan, pair, clears,
                      summaries, hidden, lost, runs, forgets>>
      BY <2>1 DEF Create
    <3> QED BY <3>1, <3>2, <3>3
  <2>2. CASE Mention(e) BY <1>1, <2>2 DEF Mention
  <2>3. CASE Forget(e) BY <1>1, <2>3 DEF Forget
  <2>4. CASE PurgeEdges(e) BY <1>1, <2>4 DEF PurgeEdges, entityVars
  <2>5. CASE PurgeEntity(e) BY <1>1, <2>5 DEF PurgeEntity
  <2> QED BY <2>1, <2>2, <2>3, <2>4, <2>5 DEF Beside
<1>5. EdgeFirst' BY <1>1, <1>2, <1>3 DEF EdgeFirst
<1>6. HiddenIsAudited' BY <1>1, <1>2, <1>3 DEF HiddenIsAudited
<1>7. WithinBreaker' BY <1>1 DEF WithinBreaker, Allowed
<1>8. FlaggedHasTarget'
  <2>1. \A x \in Entities : doc[x] # "none" => doc'[x] # "none" /\ conflict'[x] = conflict[x]
    <3>1. CASE Create(e)
      <4>1. CASE UNCHANGED <<conflict, review>> BY <3>1, <4>1 DEF Create
      <4>2. CASE ~ UNCHANGED <<conflict, review>>
        <5>1. PICK t \in Entities : conflict' = [conflict EXCEPT ![e] = t]
          BY <3>1, <4>2 DEF Create
        <5> QED BY <3>1, <5>1 DEF Create
      <4> QED BY <4>1, <4>2
    <3>2. CASE Mention(e) BY <3>2 DEF Mention
    <3>3. CASE Forget(e) BY <3>3 DEF Forget
    <3>4. CASE PurgeEdges(e) BY <3>4 DEF PurgeEdges, entityVars
    <3>5. CASE PurgeEntity(e) BY <3>5 DEF PurgeEntity
    <3> QED BY <3>1, <3>2, <3>3, <3>4, <3>5 DEF Beside
  <2> QED BY <1>1, <2>1 DEF FlaggedHasTarget
<1> QED BY <1>4, <1>5, <1>6, <1>7, <1>8 DEF Inv

LEMMA DecidingKeeps ==
  ASSUME Inv, NEW p \in Passes,
         Begin(p) \/ (\E e \in Entities : Review(p, e)) \/ Conclude(p) \/ Finish(p) \/ Abort(p)
  PROVE  Inv'
<1> USE DEF Inv, TypeOK, Go
<1>1. UNCHANGED <<entityVars, supersedes, doomed, lost, forgets>>
  BY DEF Begin, Review, Conclude, Finish, Abort, Ends
<1>2. HiddenIsAudited' BY <1>1 DEF HiddenIsAudited, entityVars
<1>3. CASE Ends(p)
  <2>1. TypeOK' BY <1>3 DEF Ends, Unseen, entityVars
  <2>2. EdgeFirst' BY <1>3 DEF Ends, EdgeFirst, entityVars
  <2>3. WithinBreaker'
    <3>1. /\ pc'[p] = "idle" /\ hidden'[p] = 0
          /\ \A q \in Passes \ {p} : pc'[q] = pc[q] /\ hidden'[q] = hidden[q] /\ plan'[q] = plan[q]
                                   /\ reviewed'[q] = reviewed[q]
      BY <1>3 DEF Ends
    <3> QED BY <3>1 DEF WithinBreaker, Allowed
  <2>4. FlaggedHasTarget' BY <1>3 DEF Ends, FlaggedHasTarget, entityVars
  <2> QED BY <1>2, <2>1, <2>2, <2>3, <2>4 DEF Inv
<1>4. CASE Begin(p)
  <2>1. Candidates \subseteq Entities /\ Cardinality(Candidates) \in Nat
    BY FS_Subset, FS_CardinalityType, DreamAssumption DEF Candidates
  <2>2. TypeOK' BY <1>4, <2>1 DEF Begin, entityVars, applyVars
  <2>3. EdgeFirst' BY <1>4 DEF Begin, EdgeFirst, entityVars, applyVars
  <2>4. WithinBreaker'
    <3>1. /\ pc'[p] = "review" /\ hidden'[p] = 0 /\ plan' = plan
          /\ \A q \in Passes \ {p} :
               pc'[q] = pc[q] /\ hidden'[q] = hidden[q] /\ reviewed'[q] = reviewed[q]
      BY <1>4 DEF Begin, applyVars
    <3> QED BY <3>1 DEF WithinBreaker, Allowed
  <2>5. FlaggedHasTarget'
    <3>1. /\ flagged' = [flagged EXCEPT ![p] = {e \in Candidates : review[e] /\ conflict[e] # NoEntity}]
          /\ UNCHANGED <<conflict, doc>>
      BY <1>4 DEF Begin, entityVars
    <3> QED BY <3>1 DEF FlaggedHasTarget, Candidates
  <2> QED BY <1>2, <2>2, <2>3, <2>4, <2>5 DEF Inv
<1>5. ASSUME NEW e \in Entities, Review(p, e) PROVE Inv'
  <2>1. ASSUME NEW S \in SUBSET Pairs, NEW C \in SUBSET Entities,
               plan' = [plan EXCEPT ![p] = @ \cup S], clears' = [clears EXCEPT ![p] = @ \cup C]
        PROVE  /\ plan' \in [Passes -> SUBSET Pairs] /\ clears' \in [Passes -> SUBSET Entities]
               /\ \A q \in Passes \ {p} : plan'[q] = plan[q]
    BY <2>1
  <2>2. /\ plan' \in [Passes -> SUBSET Pairs] /\ clears' \in [Passes -> SUBSET Entities]
        /\ \A q \in Passes \ {p} : plan'[q] = plan[q]
    <3> DEFINE win == <<Winner(p, e), Loser(p, e)>>
    <3>1. PICK S \in {{}, {win}}, C \in {{}, {e}} :
               /\ Decide(p, e, S, C)
               /\ e \in flagged[p] \/ S = {}
      <4>1. CASE e \notin flagged[p] BY <1>5, <4>1 DEF Review
      <4>2. CASE e \in flagged[p] BY <1>5, <4>2 DEF Review, Judge
      <4> QED BY <4>1, <4>2
    <3>2. e \in flagged[p] => win \in Pairs
      BY DEF FlaggedHasTarget, Pairs, Winner, Loser
    <3>3. S \in SUBSET Pairs /\ C \in SUBSET Entities BY <3>1, <3>2
    <3> QED BY <2>1, <3>1, <3>3 DEF Decide
  <2>3. summaries' \in [Passes -> SUBSET Entities]
    <3>1. Distil(p, e) BY <1>5 DEF Review
    <3>2. summaries \in [Passes -> SUBSET Entities] OBVIOUS
    <3>3. CASE UNCHANGED summaries BY <3>2, <3>3
    <3>4. CASE summaries' = [summaries EXCEPT ![p] = @ \cup {e}] BY <3>2, <3>4
    <3> QED BY <3>1, <3>3, <3>4 DEF Distil
  <2>4. TypeOK' BY <1>5, <2>2, <2>3 DEF Review, entityVars
  <2>5. EdgeFirst' BY <1>5 DEF Review, EdgeFirst, entityVars
  <2>6. WithinBreaker'
    <3>1. pc[p] = "review" /\ UNCHANGED <<pc, hidden, reviewed>> BY <1>5 DEF Review
    <3> QED BY <2>2, <3>1 DEF WithinBreaker, Allowed
  <2>7. FlaggedHasTarget' BY <1>5 DEF Review, FlaggedHasTarget, entityVars
  <2> QED BY <1>2, <2>4, <2>5, <2>6, <2>7 DEF Inv
<1>6. CASE Conclude(p) /\ ~Ends(p)
  <2>1. ~Tripped(p) /\ Go(p, "apply")
        /\ UNCHANGED <<entityVars, supersedes, doomed, decideVars, applyVars, hidden, lost, runs,
                       forgets>>
    BY <1>6 DEF Conclude
  <2>2. TypeOK' BY <2>1 DEF entityVars, decideVars, applyVars
  <2>3. EdgeFirst' BY <2>1 DEF EdgeFirst, entityVars, applyVars
  <2>4. WithinBreaker'
    <3>1. hidden[p] = 0 BY <1>6 DEF Conclude, WithinBreaker
    <3>2. Allowed(p, hidden[p] + Cardinality(plan[p]))
      <4>1. Cardinality(plan[p]) * BreakDen \in Nat /\ reviewed[p] * BreakNum \in Nat
        BY PlanIsFinite, DreamAssumption
      <4>2. hidden[p] + Cardinality(plan[p]) = Cardinality(plan[p]) BY <3>1, PlanIsFinite
      <4> QED BY <2>1, <4>1, <4>2 DEF Allowed, Tripped
    <3>3. pc' = [pc EXCEPT ![p] = "apply"] /\ UNCHANGED <<hidden, plan, reviewed>>
      BY <2>1 DEF decideVars, applyVars
    <3> QED BY <3>2, <3>3 DEF WithinBreaker, Allowed
  <2>5. FlaggedHasTarget' BY <2>1 DEF FlaggedHasTarget, entityVars, decideVars
  <2> QED BY <1>2, <2>2, <2>3, <2>4, <2>5 DEF Inv
<1> QED BY <1>3, <1>4, <1>5, <1>6 DEF Conclude, Finish, Abort

LEMMA ApplyKeeps ==
  ASSUME Inv, NEW p \in Passes,
         InsertEdge(p) \/ Invalidate(p) \/ Settle(p) \/ Clear(p) \/ Summarize(p)
  PROVE  Inv'
<1> USE DEF Inv, TypeOK, Go
<1>1. CASE InsertEdge(p)
  <2>1. PICK s \in plan[p] : /\ supersedes' = supersedes \cup {s}
                             /\ pair' = [pair EXCEPT ![p] = s]
                             /\ plan' = [plan EXCEPT ![p] = @ \ {s}]
    <3>1. \A s \in Pairs : <<s[1], s[2]>> = s BY DEF Pairs
    <3> QED BY <1>1, <3>1 DEF InsertEdge, Edges
  <2>2. /\ pc[p] = "apply" /\ pc' = [pc EXCEPT ![p] = "invalidate"]
        /\ UNCHANGED <<entityVars, doomed, decideVars, clears, summaries, hidden, lost, runs, forgets>>
    BY <1>1 DEF InsertEdge
  <2>3. TypeOK' BY <2>1, <2>2 DEF entityVars, decideVars
  <2>4. EdgeFirst' BY <2>1, <2>2 DEF EdgeFirst, entityVars
  <2>5. HiddenIsAudited' BY <2>1, <2>2 DEF HiddenIsAudited, entityVars
  <2>6. WithinBreaker'
    <3>1. Cardinality(plan[p]) = Cardinality(plan[p] \ {s}) + 1
          /\ Cardinality(plan[p] \ {s}) \in Nat
      BY PlanIsFinite, OneLess
    <3>2. hidden[p] + 1 + Cardinality(plan[p] \ {s}) = hidden[p] + Cardinality(plan[p])
      BY <3>1
    <3>3. Allowed(p, hidden[p] + 1 + Cardinality(plan[p] \ {s}))
      BY <2>2, <3>2 DEF WithinBreaker
    <3>4. /\ plan'[p] = plan[p] \ {s} /\ UNCHANGED <<hidden, reviewed>> /\ pc'[p] = "invalidate"
          /\ \A q \in Passes \ {p} : plan'[q] = plan[q] /\ pc'[q] = pc[q]
      BY <2>1, <2>2 DEF decideVars
    <3> QED BY <3>3, <3>4 DEF WithinBreaker, Allowed
  <2>7. FlaggedHasTarget' BY <2>2 DEF FlaggedHasTarget, entityVars, decideVars
  <2> QED BY <2>3, <2>4, <2>5, <2>6, <2>7 DEF Inv
<1>2. CASE Invalidate(p)
  <2> DEFINE old == pair[p][2]
  <2>1. /\ pc[p] = "invalidate" /\ pc' = [pc EXCEPT ![p] = "settle"]
        /\ doc' = [doc EXCEPT ![old] = "invalid"] /\ doc[old] # "gone"
        /\ lost' = lost \cup {pair[p]} /\ hidden' = [hidden EXCEPT ![p] = @ + 1]
        /\ UNCHANGED <<conflict, review, mentions, summarized, supersedes, doomed, decideVars, applyVars,
                       runs, forgets>>
    BY <1>2 DEF Invalidate
  <2>2. pair[p] \in Pairs /\ old \in Entities BY <2>1 DEF Pairs
  <2> HIDE DEF old
  <2>3. \A x \in Entities : doc[x] # "none" => doc'[x] # "none" BY <2>1, <2>2
  <2>4. TypeOK' BY <2>1, <2>2 DEF decideVars, applyVars
  <2>5. EdgeFirst' BY <2>1 DEF EdgeFirst, applyVars
  <2>6. HiddenIsAudited' BY <2>1 DEF EdgeFirst, HiddenIsAudited
  <2>7. WithinBreaker'
    <3>1. Allowed(p, hidden[p] + 1 + Cardinality(plan[p])) BY <2>1 DEF WithinBreaker
    <3>2. /\ hidden'[p] = hidden[p] + 1 /\ UNCHANGED <<plan, reviewed>> /\ pc'[p] = "settle"
          /\ \A q \in Passes \ {p} : hidden'[q] = hidden[q] /\ pc'[q] = pc[q]
      BY <2>1 DEF decideVars, applyVars
    <3> QED BY <3>1, <3>2 DEF WithinBreaker, Allowed
  <2>8. FlaggedHasTarget' BY <2>1, <2>3 DEF FlaggedHasTarget, decideVars
  <2> QED BY <2>4, <2>5, <2>6, <2>7, <2>8 DEF Inv
<1>3. CASE Settle(p)
  <2>1. /\ pc[p] = "settle" /\ pc' = [pc EXCEPT ![p] = "apply"]
        /\ review' = [review EXCEPT ![pair[p][1]] = FALSE]
        /\ pair' = [pair EXCEPT ![p] = NoPair]
        /\ UNCHANGED <<doc, conflict, mentions, summarized, supersedes, doomed, decideVars, plan, clears,
                       summaries, hidden, lost, runs, forgets>>
    BY <1>3 DEF Settle
  <2>2. TypeOK' BY <2>1 DEF decideVars
  <2>3. EdgeFirst' BY <2>1 DEF EdgeFirst
  <2>4. HiddenIsAudited' BY <2>1 DEF HiddenIsAudited
  <2>5. WithinBreaker' BY <2>1 DEF WithinBreaker, Allowed, decideVars
  <2>6. FlaggedHasTarget' BY <2>1 DEF FlaggedHasTarget, decideVars
  <2> QED BY <2>2, <2>3, <2>4, <2>5, <2>6 DEF Inv
<1>4. CASE Clear(p) \/ Summarize(p)
  <2>1. /\ UNCHANGED <<doc, conflict, mentions, supersedes, doomed, pc, decideVars, plan, pair,
                       hidden, lost, runs, forgets>>
        /\ review' \in [Entities -> BOOLEAN] /\ summarized' \subseteq Entities
        /\ clears' \in [Passes -> SUBSET Entities] /\ summaries' \in [Passes -> SUBSET Entities]
    <3>1. CASE Clear(p) BY <3>1 DEF Clear
    <3>2. CASE Summarize(p) BY <3>2 DEF Summarize
    <3> QED BY <1>4, <3>1, <3>2
  <2>2. TypeOK' BY <2>1 DEF decideVars
  <2>3. EdgeFirst' BY <2>1 DEF EdgeFirst
  <2>4. HiddenIsAudited' BY <2>1 DEF HiddenIsAudited
  <2>5. WithinBreaker' BY <2>1 DEF WithinBreaker, Allowed, decideVars
  <2>6. FlaggedHasTarget' BY <2>1 DEF FlaggedHasTarget, decideVars
  <2> QED BY <2>2, <2>3, <2>4, <2>5, <2>6 DEF Inv
<1> QED BY <1>1, <1>2, <1>3, <1>4

LEMMA NextInv == ASSUME Inv, [Next]_vars PROVE Inv'
<1>1. CASE UNCHANGED vars
  BY <1>1 DEF Inv, TypeOK, EdgeFirst, HiddenIsAudited, WithinBreaker, Allowed, FlaggedHasTarget,
     vars, entityVars, passVars, decideVars, applyVars
<1>2. ASSUME NEW e \in Entities, Beside(e) PROVE Inv'
  BY <1>2, OutsideKeeps
<1>3. ASSUME NEW p \in Passes, Pass(p) PROVE Inv'
  BY <1>3, DecidingKeeps, ApplyKeeps DEF Pass
<1> QED BY <1>1, <1>2, <1>3 DEF Next

LEMMA SpecInv == Spec => []Inv
<1> HIDE DEF Inv
<1> QED BY InitInv, NextInv, PTL DEF Spec

(* Every step of the review keeps the types: a plan is made of pairs of         *)
(* entities, the pair under way is one of them (dream.py, conflict.py).        *)
THEOREM DreamTypes == Spec => []TypeOK
<1>1. Inv => TypeOK BY DEF Inv
<1> HIDE DEF Inv
<1> QED BY <1>1, SpecInv, PTL

(* Any number of passes side by side, stopped anywhere, with forget and purge    *)
(* between their statements: every loss has its Supersedes edge, because the   *)
(* edge is inserted before invalid_at is set (conflict.py).                   *)
THEOREM LossesAreAudited == Spec => []HiddenIsAudited
<1>1. Inv => HiddenIsAudited BY DEF Inv
<1> HIDE DEF Inv
<1> QED BY <1>1, SpecInv, PTL

(* The breaker bounds what each pass hides of what it reviewed (dream.py:156). *)
THEOREM BreakerBoundsPasses == Spec => []BreakerHolds
<1>1. ASSUME Inv PROVE BreakerHolds
  <2> USE DEF Inv, TypeOK
  <2> SUFFICES ASSUME NEW p \in Passes PROVE hidden[p] * BreakDen <= reviewed[p] * BreakNum
    BY DEF BreakerHolds
  <2>1. CASE hidden[p] = 0
    <3>1. reviewed[p] * BreakNum \in Nat BY <1>1, DreamAssumption
    <3>2. hidden[p] * BreakDen = 0 BY <2>1, DreamAssumption
    <3> QED BY <3>1, <3>2
  <2>2. CASE pc[p] \in {"apply", "settle"}
    BY <1>1, <2>2, PlanIsFinite, AllowedBelow DEF WithinBreaker, Allowed
  <2>3. CASE pc[p] = "invalidate"
    <3>1. hidden[p] + 1 + Cardinality(plan[p]) \in Nat
          /\ hidden[p] <= hidden[p] + 1 + Cardinality(plan[p])
      BY PlanIsFinite, <1>1
    <3> QED BY <1>1, <2>3, <3>1, AllowedBelow DEF WithinBreaker, Allowed
  <2> QED BY <1>1, <2>1, <2>2, <2>3 DEF WithinBreaker
<1> HIDE DEF Inv
<1> QED BY <1>1, SpecInv, PTL

(***************************************************************************)
(* One pass at a time.  What was decided and is still to be applied is never *)
(* the reverse of another decision, of this pass or an earlier one.           *)
(***************************************************************************)
Alone == \E p \in Passes : Passes = {p}

Rev(s) == <<s[2], s[1]>>

Pending(p) == plan[p] \cup (IF pc[p] = "invalidate" THEN {pair[p]} ELSE {})

(* The target is the older of the two, so that two entities never have each    *)
(* other for target.                                                        *)
TargetsAreOlder ==
  \A e \in Entities : conflict[e] \in Entities =>
    /\ doc[e] # "none" /\ doc[conflict[e]] # "none"
    /\ conflict[e] # e /\ conflict[conflict[e]] # e

LostAreHidden == \A s \in lost : doc[s[2]] \in {"invalid", "gone"}

NoReverse ==
  \A p \in Passes : \A s \in Pending(p) : Rev(s) \notin lost /\ Rev(s) \notin Pending(p)

Undecided ==
  \A p \in Passes :
    /\ pc[p] = "idle" => plan[p] = {}
    /\ pc[p] = "review" =>
         /\ \A e \in todo[p] : \A s \in lost : s[2] # e
         /\ \A s \in plan[p] : \E e \in Entities \ todo[p] :
              s \in {<<e, conflict[e]>>, <<conflict[e], e>>}

OneInv == TargetsAreOlder /\ LostAreHidden /\ NoReverse /\ Undecided /\ ConflictKeepsOne

LEMMA OneOutside ==
  ASSUME Inv, OneInv, NEW e \in Entities, Beside(e)
  PROVE  OneInv'
<1> USE DEF Inv, TypeOK
<1>1. UNCHANGED <<passVars, lost>> BY DEF Beside, Create, Mention, Forget, PurgeEdges, PurgeEntity
<1>2. \A x \in Entities :
        /\ doc[x] # "none" => doc'[x] # "none" /\ conflict'[x] = conflict[x]
        /\ doc[x] \in {"invalid", "gone"} => doc'[x] \in {"invalid", "gone"}
        /\ conflict'[x] # conflict[x] =>
             conflict'[x] \in Entities /\ doc[conflict'[x]] # "none" /\ doc[x] = "none"
                                      /\ doc'[x] # "none"
  <2>1. CASE Create(e)
    <3>1. CASE UNCHANGED <<conflict, review>> BY <2>1, <3>1 DEF Create
    <3>2. CASE ~ UNCHANGED <<conflict, review>>
      <4>1. PICK t \in Entities : conflict' = [conflict EXCEPT ![e] = t] /\ doc[t] # "none"
        BY <2>1, <3>2 DEF Create
      <4> QED BY <2>1, <4>1 DEF Create
    <3> QED BY <3>1, <3>2
  <2>2. CASE Mention(e) BY <2>2 DEF Mention
  <2>3. CASE Forget(e) BY <2>3 DEF Forget
  <2>4. CASE PurgeEdges(e) BY <2>4 DEF PurgeEdges, entityVars
  <2>5. CASE PurgeEntity(e) BY <2>5 DEF PurgeEntity
  <2> QED BY <2>1, <2>2, <2>3, <2>4, <2>5 DEF Beside
<1>3. TargetsAreOlder'
  <2> SUFFICES ASSUME NEW x \in Entities, conflict'[x] \in Entities
               PROVE  /\ doc'[x] # "none" /\ doc'[conflict'[x]] # "none"
                      /\ conflict'[x] # x /\ conflict'[conflict'[x]] # x
    BY DEF TargetsAreOlder
  <2>1. CASE conflict'[x] = conflict[x]
    BY <1>2, <2>1 DEF OneInv, TargetsAreOlder
  <2>2. CASE conflict'[x] # conflict[x]
    <3>1. /\ doc[x] = "none" /\ doc'[x] # "none" /\ doc[conflict'[x]] # "none"
          /\ conflict'[conflict'[x]] = conflict[conflict'[x]]
      BY <1>2, <2>2
    <3>2. conflict[conflict'[x]] # x BY <3>1 DEF OneInv, TargetsAreOlder
    <3> QED BY <1>2, <3>1, <3>2
  <2> QED BY <2>1, <2>2
<1>4. LostAreHidden'
  <2>1. \A s \in lost : s[2] \in Entities BY DEF Pairs
  <2> QED BY <1>1, <1>2, <2>1 DEF OneInv, LostAreHidden
<1>5. NoReverse' BY <1>1 DEF OneInv, NoReverse, Pending, passVars, applyVars
<1>6. Undecided'
  <2>1. UNCHANGED <<pc, todo, plan, lost>> BY <1>1 DEF passVars, decideVars, applyVars
  <2>2. ASSUME NEW p \in Passes, pc[p] = "review", NEW s \in plan[p]
        PROVE  \E x \in Entities \ todo[p] : s \in {<<x, conflict'[x]>>, <<conflict'[x], x>>}
    <3>1. PICK x \in Entities \ todo[p] : s \in {<<x, conflict[x]>>, <<conflict[x], x>>}
      BY <2>2 DEF OneInv, Undecided
    <3>2. conflict[x] \in Entities
      <4>1. s \in Pairs OBVIOUS
      <4> QED BY <3>1, <4>1 DEF Pairs
    <3>3. conflict'[x] = conflict[x] BY <1>2, <3>2 DEF OneInv, TargetsAreOlder
    <3> QED BY <3>1, <3>3
  <2> QED BY <2>1, <2>2 DEF OneInv, Undecided
<1>7. ConflictKeepsOne' BY <1>1 DEF OneInv, ConflictKeepsOne
<1> QED BY <1>3, <1>4, <1>5, <1>6, <1>7 DEF OneInv

LEMMA OneReview ==
  ASSUME Inv, OneInv, NEW p \in Passes, Passes = {p}, NEW e \in Entities, Review(p, e)
  PROVE  OneInv'
<1> USE DEF Inv, TypeOK
<1>1. /\ UNCHANGED <<doc, conflict, pc, lost, pair>> /\ pc[p] = "review" /\ e \in todo[p]
      /\ todo' = [todo EXCEPT ![p] = @ \ {e}]
  BY DEF Review, entityVars
<1>2. TargetsAreOlder' /\ LostAreHidden' /\ ConflictKeepsOne'
  BY <1>1 DEF OneInv, TargetsAreOlder, LostAreHidden, ConflictKeepsOne
<1>3. \A s \in plan[p] : s[1] \in Entities /\ s[2] \in Entities /\ s = <<s[1], s[2]>>
  BY DEF Pairs
<1>4. PICK S \in SUBSET {<<e, conflict[e]>>, <<conflict[e], e>>} :
        /\ plan' = [plan EXCEPT ![p] = @ \cup S]
        /\ S = {} \/ \E s \in S : S = {s}
        /\ S # {} => e \in flagged[p] /\ doc[conflict[e]] = "valid"
  <2>1. CASE e \notin flagged[p]
    <3>1. plan' = [plan EXCEPT ![p] = @ \cup {}] BY <2>1 DEF Review, Decide
    <3> QED BY <3>1
  <2>2. CASE e \in flagged[p]
    <3> DEFINE win == <<Winner(p, e), Loser(p, e)>>
    <3>1. win \in {<<e, conflict[e]>>, <<conflict[e], e>>} BY DEF Winner, Loser
    <3>2. CASE plan' = [plan EXCEPT ![p] = @ \cup {}] BY <3>2
    <3>3. CASE plan' = [plan EXCEPT ![p] = @ \cup {win}] /\ doc[conflict[e]] = "valid"
      BY <2>2, <3>1, <3>3
    <3>4. Judge(p, e) BY <2>2 DEF Review
    <3> QED BY <3>2, <3>3, <3>4 DEF Judge, Decide
  <2> QED BY <2>1, <2>2
<1>5. ASSUME NEW s \in S
      PROVE  /\ Rev(s) \notin lost /\ Rev(s) \notin plan[p] /\ Rev(s) \notin S
             /\ \A u \in plan[p] : Rev(u) # s
  <2>1. conflict[e] \in Entities /\ doc[conflict[e]] = "valid"
    BY <1>4, <1>5 DEF FlaggedHasTarget
  <2>2. conflict[e] # e /\ conflict[conflict[e]] # e BY <2>1 DEF OneInv, TargetsAreOlder
  <2>3. \A u \in lost : u[2] # e /\ u[2] # conflict[e]
    BY <1>1, <2>1 DEF OneInv, Undecided, LostAreHidden
  <2>4. Rev(s) \notin lost
    <3>1. Rev(s)[2] = e \/ Rev(s)[2] = conflict[e] BY <1>4, <1>5 DEF Rev
    <3> QED BY <2>3, <3>1
  <2>5. Rev(s) \notin S BY <1>4, <1>5, <2>2 DEF Rev
  <2>6. ASSUME NEW u \in plan[p] PROVE u # <<e, conflict[e]>> /\ u # <<conflict[e], e>>
    <3>1. PICK x \in Entities \ todo[p] : u \in {<<x, conflict[x]>>, <<conflict[x], x>>}
      BY <1>1 DEF OneInv, Undecided
    <3>2. x # e BY <1>1
    <3> QED BY <2>2, <3>1, <3>2
  <2>7. Rev(s) \in {<<e, conflict[e]>>, <<conflict[e], e>>} BY <1>4, <1>5 DEF Rev
  <2>8. \A u \in plan[p] : Rev(u) # s
    <3> SUFFICES ASSUME NEW u \in plan[p], Rev(u) = s PROVE FALSE OBVIOUS
    <3>1. u = <<s[2], s[1]>> BY <1>3 DEF Rev
    <3> QED BY <2>6, <2>7, <3>1 DEF Rev
  <2> QED BY <2>4, <2>5, <2>6, <2>7, <2>8
<1>6. NoReverse'
  <2>1. Pending(p) = plan[p] /\ Pending(p)' = plan[p] \cup S BY <1>1, <1>4 DEF Pending
  <2>2. \A s \in plan[p] : Rev(s) \notin lost /\ Rev(s) \notin plan[p]
    BY <2>1 DEF OneInv, NoReverse
  <2>3. \A s \in plan[p] : Rev(s) \notin S BY <1>5
  <2>4. \A s \in plan[p] \cup S : Rev(s) \notin lost /\ Rev(s) \notin plan[p] \cup S
    BY <1>5, <2>2, <2>3
  <2> QED BY <1>1, <2>1, <2>4 DEF NoReverse, Rev
<1>7. Undecided'
  <2>1. \A x \in todo'[p] : \A s \in lost : s[2] # x BY <1>1 DEF OneInv, Undecided
  <2>2. \A s \in plan'[p] : \E x \in Entities \ todo'[p] :
          s \in {<<x, conflict[x]>>, <<conflict[x], x>>}
    <3>1. ASSUME NEW s \in plan[p] PROVE \E x \in Entities \ todo'[p] :
                  s \in {<<x, conflict[x]>>, <<conflict[x], x>>}
      BY <1>1 DEF OneInv, Undecided
    <3>2. ASSUME NEW s \in S PROVE \E x \in Entities \ todo'[p] :
                  s \in {<<x, conflict[x]>>, <<conflict[x], x>>}
      BY <1>1, <1>4
    <3> QED BY <1>4, <3>1, <3>2
  <2> QED BY <1>1, <2>1, <2>2 DEF Undecided
<1> QED BY <1>2, <1>6, <1>7 DEF OneInv

(* The steps of a pass but its reviews.                                     *)
LEMMA OnePass ==
  ASSUME Inv, OneInv, NEW p \in Passes, Passes = {p}, Pass(p),
         ~ \E e \in Entities : Review(p, e)
  PROVE  OneInv'
<1> USE DEF Inv, TypeOK, Go
<1>1. UNCHANGED conflict /\ \A x \in Entities : doc'[x] = doc[x] \/ doc'[x] = "invalid"
  <2>1. CASE Invalidate(p)
    <3>1. pair[p][2] \in Entities BY <2>1 DEF Invalidate, Pairs
    <3>2. doc' = [doc EXCEPT ![pair[p][2]] = "invalid"] /\ UNCHANGED conflict
      BY <2>1 DEF Invalidate
    <3> QED BY <3>1, <3>2
  <2>2. CASE ~ Invalidate(p)
    <3>1. UNCHANGED <<conflict, doc>>
      BY <2>2 DEF Pass, Begin, Conclude, Ends, InsertEdge, Settle, Clear, Summarize, Finish, Abort,
         entityVars
    <3> QED BY <3>1
  <2> QED BY <2>1, <2>2
<1>2. TargetsAreOlder' BY <1>1 DEF OneInv, TargetsAreOlder
<1>3. \A s \in lost : s[2] \in Entities BY DEF Pairs
<1>4. CASE Invalidate(p)
  <2>1. /\ pair[p] \in Pairs /\ pc[p] = "invalidate" /\ pc'[p] = "settle"
        /\ doc'[pair[p][2]] = "invalid" /\ lost' = lost \cup {pair[p]}
        /\ UNCHANGED <<plan, pair>>
    BY <1>4 DEF Invalidate, Pairs, applyVars
  <2>2. Pending(p) = plan[p] \cup {pair[p]} /\ Pending(p)' = plan[p] BY <2>1 DEF Pending
  <2>3. \A s \in plan[p] \cup {pair[p]} : Rev(s) \notin lost /\ Rev(s) \notin plan[p] \cup {pair[p]}
    BY <2>2 DEF OneInv, NoReverse
  <2>4. LostAreHidden' BY <1>1, <1>3, <2>1 DEF OneInv, LostAreHidden
  <2>5. NoReverse'
    <3>1. \A s \in plan[p] : Rev(s) \notin lost' /\ Rev(s) \notin plan[p]
      <4> SUFFICES ASSUME NEW s \in plan[p] PROVE Rev(s) # pair[p] BY <2>1, <2>3
      <4>1. pair[p] \in Pending(p) BY <2>2
      <4> QED BY <2>2, <2>3
    <3> QED BY <2>2, <3>1 DEF NoReverse, Rev
  <2>6. ConflictKeepsOne'
    <3>1. \A s \in lost : Rev(s) \notin lost BY DEF OneInv, ConflictKeepsOne, Rev
    <3>2. \A s \in lost : Rev(s) # pair[p]
      <4> SUFFICES ASSUME NEW s \in lost, Rev(s) = pair[p] PROVE FALSE OBVIOUS
      <4>1. s \in Pairs OBVIOUS
      <4>2. Rev(pair[p]) = s
        <5>1. s = <<s[1], s[2]>> BY <4>1 DEF Pairs
        <5> QED BY <5>1 DEF Rev
      <4> QED BY <2>3, <4>2
    <3> QED BY <2>1, <2>3, <3>1, <3>2 DEF ConflictKeepsOne, Rev
  <2>7. Undecided' BY <2>1 DEF Undecided
  <2> QED BY <1>2, <2>4, <2>5, <2>6, <2>7 DEF OneInv
<1>5. CASE ~ Invalidate(p)
  <2>1. UNCHANGED lost
    BY <1>5 DEF Pass, Begin, Conclude, Ends, InsertEdge, Settle, Clear, Summarize, Finish, Abort
  <2>2. LostAreHidden' BY <1>1, <1>3, <2>1 DEF OneInv, LostAreHidden
  <2>3. ConflictKeepsOne' BY <2>1 DEF OneInv, ConflictKeepsOne
  <2>4. Pending(p)' \subseteq Pending(p)
    <3>1. CASE Ends(p) BY <3>1 DEF Ends, Pending
    <3>2. CASE Begin(p) BY <3>2 DEF Begin, Pending, applyVars
    <3>3. CASE Conclude(p) /\ ~Ends(p) BY <3>3 DEF Conclude, Pending, applyVars
    <3>4. CASE InsertEdge(p)
      <4>1. PICK s \in plan[p] : pair'[p] = s /\ plan'[p] = plan[p] \ {s} BY <3>4 DEF InsertEdge
      <4>2. pc[p] = "apply" /\ pc'[p] = "invalidate" BY <3>4 DEF InsertEdge
      <4> QED BY <4>1, <4>2 DEF Pending
    <3>5. CASE Settle(p) BY <3>5 DEF Settle, Pending
    <3>6. CASE Clear(p) BY <3>6 DEF Clear, Pending
    <3>7. CASE Summarize(p) BY <3>7 DEF Summarize, Pending
    <3> QED BY <1>5, <3>1, <3>2, <3>3, <3>4, <3>5, <3>6, <3>7 DEF Pass, Finish, Abort, Conclude
  <2>5. NoReverse'
    <3>1. \A s \in Pending(p) : Rev(s) \notin lost /\ Rev(s) \notin Pending(p)
      BY DEF OneInv, NoReverse
    <3>2. \A s \in Pending(p)' : Rev(s) \notin lost' /\ Rev(s) \notin Pending(p)'
      BY <2>1, <2>4, <3>1
    <3> QED BY <3>2 DEF NoReverse, Rev
  <2>6. Undecided'
    <3>1. CASE Ends(p) BY <3>1 DEF Ends, Undecided
    <3>2. CASE Begin(p)
      <4>1. plan'[p] = {} /\ pc'[p] = "review" /\ todo'[p] = Candidates
        BY <3>2 DEF Begin, applyVars, OneInv, Undecided
      <4>2. \A e \in Candidates : \A s \in lost : s[2] # e
        BY DEF Candidates, OneInv, LostAreHidden
      <4> QED BY <2>1, <4>1, <4>2 DEF Undecided
    <3>3. CASE ~Ends(p) /\ ~Begin(p)
      <4>1. pc'[p] \in {"apply", "invalidate"}
        BY <1>5, <3>3 DEF Pass, Conclude, InsertEdge, Settle, Clear, Summarize, Finish, Abort
      <4> QED BY <4>1 DEF Undecided
    <3> QED BY <3>1, <3>2, <3>3
  <2> QED BY <1>2, <2>2, <2>3, <2>5, <2>6 DEF OneInv
<1> QED BY <1>4, <1>5

(* With one pass at a time, as DESIGN.md's consolidation_lock would have it, no  *)
(* conflict costs both entities, whatever the writers, forget and purge do      *)
(* beside it and wherever passes stop.  DreamPassesRace shows that the premise  *)
(* is needed.                                                               *)
THEOREM OnePassKeepsOne ==
  ASSUME Alone
  PROVE  Spec => []ConflictKeepsOne
<1>1. Init => OneInv
  <2> SUFFICES ASSUME Init PROVE OneInv OBVIOUS
  <2>1. \A e \in Entities : conflict[e] \notin Entities BY DreamAssumption DEF Init
  <2>2. TargetsAreOlder BY <2>1 DEF TargetsAreOlder
  <2>3. LostAreHidden /\ ConflictKeepsOne BY DEF Init, LostAreHidden, ConflictKeepsOne
  <2>4. NoReverse /\ Undecided BY DEF Init, NoReverse, Undecided, Pending
  <2> QED BY <2>2, <2>3, <2>4 DEF OneInv
<1>2. ASSUME Inv, OneInv, [Next]_vars PROVE OneInv'
  <2>1. CASE UNCHANGED vars
    BY <1>2, <2>1 DEF OneInv, TargetsAreOlder, LostAreHidden, NoReverse, Undecided, ConflictKeepsOne,
       Pending, Rev, vars, entityVars, passVars, decideVars, applyVars
  <2>2. ASSUME NEW e \in Entities, Beside(e) PROVE OneInv'
    BY <1>2, <2>2, OneOutside
  <2>3. ASSUME NEW p \in Passes, Pass(p) PROVE OneInv'
    <3>1. Passes = {p} BY DEF Alone
    <3>2. CASE \E e \in Entities : Review(p, e) BY <1>2, <3>1, <3>2, OneReview
    <3>3. CASE ~ \E e \in Entities : Review(p, e) BY <1>2, <2>3, <3>1, <3>3, OnePass
    <3> QED BY <3>2, <3>3
  <2> QED BY <1>2, <2>1, <2>2, <2>3 DEF Next
<1>3. OneInv => ConflictKeepsOne BY DEF OneInv
<1> HIDE DEF Inv, OneInv, Alone
<1> QED BY <1>1, <1>2, <1>3, SpecInv, PTL DEF Spec
=============================================================================
