-------------------------- MODULE LifecycleProofs ---------------------------
(***************************************************************************)
(* What keeps stored knowledge in order over its life, for every size of the*)
(* tenant and every number of passes and instances: facts that supersede   *)
(* one another, relationships the ontology pass renames, the schema's      *)
(* migrations, and the vectors of the texts.  Then what the service keeps   *)
(* between requests: the counters of the rate limit, and the model's replies.*)
(***************************************************************************)
EXTENDS FactSupersession, Ontology, Migrations, Embeddings, RateLimits, ModelReplies,
        SequenceTheorems, FiniteSetTheorems, WellFoundedInduction, TLAPS

-----------------------------------------------------------------------------
(***************************************************************************)
(* FactSupersession: links climb in time however passes overlap; with one  *)
(* pass at a time a link is made once; and facts that arrive in order are  *)
(* checked in order.                                                       *)
(***************************************************************************)

Running(p) == passes[p].pc # "out"
Comparing(p) == passes[p].pc \in {"ask", "link"}

(* The row of a pass is one of those it took, which all were stored.         *)
RowAtWork ==
  \A p \in Passes :
    /\ Comparing(p) => Row(p) \in passes[p].todo
    /\ \A f \in passes[p].todo : facts[f] # "absent"

(* What is shown to the model, and what is picked, is older than the row.    *)
OlderThanRow(f, p) == When[f] < When[Row(p)] /\ SpokenBy[f] = SpokenBy[Row(p)]
OlderAtWork ==
  \A p \in Passes :
    /\ passes[p].pc = "ask" => \A f \in passes[p].older : OlderThanRow(f, p)
    /\ passes[p].pc = "link" => \A f \in passes[p].picked : OlderThanRow(f, p)

(* Alone, a pass links only what has no link.                                *)
AloneUnlinked ==
  ~overlap =>
    /\ \A p, q \in Passes : p # q => ~Running(p) \/ ~Running(q)
    /\ \A p \in Passes :
         /\ passes[p].pc = "ask" => \A f \in passes[p].older : supersededBy[f] = NoFact
         /\ passes[p].pc = "link" => \A f \in passes[p].picked : supersededBy[f] = NoFact

(* While facts arrive in order, whatever a pass did not take was checked or   *)
(* is no older than what it has left.                                        *)
TakenInOrder ==
  ~arrivedLate => \A p \in Passes : Running(p) =>
    \A o \in Live : \/ o \in checked \cup passes[p].todo
                    \/ \A f \in passes[p].todo : When[f] <= When[o]

FactInv == /\ FactTypeOK /\ RowAtWork /\ OlderAtWork /\ LinksClimb
           /\ AloneUnlinked /\ TakenInOrder /\ NoOlderSkipped

LEMMA PassFields ==
  ASSUME FactTypeOK, NEW p \in Passes
  PROVE  /\ passes[p] \in [pc : {"out", "compare", "ask", "link"}, todo : SUBSET Facts,
                           row : Facts \cup {NoFact}, older : SUBSET Facts, picked : SUBSET Facts]
         /\ passes[p].todo \subseteq Facts
         /\ passes[p].older \subseteq Facts
         /\ passes[p].picked \subseteq Facts
BY DEF FactTypeOK

LEMMA FactInitInv == FactInit => FactInv
<1> SUFFICES ASSUME FactInit PROVE FactInv OBVIOUS
<1> USE DEF FactInit, NotRunning, Running, Comparing
<1>1. FactTypeOK BY DEF FactTypeOK
<1>2. RowAtWork BY DEF RowAtWork
<1>3. OlderAtWork BY DEF OlderAtWork
<1>4. LinksClimb BY DEF LinksClimb
<1>5. AloneUnlinked BY DEF AloneUnlinked
<1>6. TakenInOrder BY DEF TakenInOrder
<1>7. NoOlderSkipped BY DEF NoOlderSkipped
<1> QED BY <1>1, <1>2, <1>3, <1>4, <1>5, <1>6, <1>7 DEF FactInv

LEMMA FactStutter == FactInv /\ UNCHANGED factVars => FactInv'
BY DEF FactInv, factVars, FactTypeOK, RowAtWork, OlderAtWork, OlderThanRow, LinksClimb,
       AloneUnlinked, TakenInOrder, NoOlderSkipped, Running, Comparing, Row, Live

LEMMA RememberKeeps ==
  ASSUME FactInv, NEW g \in Facts, Remember(g)
  PROVE  FactInv'
<1> USE DEF FactInv, Remember
<1>1. FactTypeOK' BY DEF FactTypeOK
<1>2. RowAtWork'
  <2>1. \A f \in Facts : facts[f] # "absent" => facts'[f] # "absent" BY DEF FactTypeOK
  <2> QED BY <2>1, PassFields DEF RowAtWork, Comparing, Row
<1>3. OlderAtWork' BY DEF OlderAtWork, OlderThanRow, Row
<1>4. LinksClimb' BY DEF LinksClimb
<1>5. AloneUnlinked' BY DEF AloneUnlinked, Running
<1>6. ASSUME ~arrivedLate'
      PROVE  ~arrivedLate /\ \A e \in Facts : facts[e] # "absent" => When[e] <= When[g]
  <2>1. ~arrivedLate /\ ~ \E e \in Facts : facts[e] # "absent" /\ When[e] > When[g]
    <3>1. arrivedLate' = (arrivedLate \/ \E e \in Facts : facts[e] # "absent" /\ When[e] > When[g])
      BY DEF Remember
    <3> QED BY <1>6, <3>1
  <2>2. \A e \in Facts : When[e] \in Nat BY WhenAssumption
  <2> QED BY <2>1, <2>2
<1>7. Live' \subseteq Live \cup {g} BY DEF Live, FactTypeOK
<1>8. TakenInOrder'
  <2> SUFFICES ASSUME ~arrivedLate', NEW p \in Passes, Running(p)', NEW o \in Live'
               PROVE  (\/ o \in checked \cup passes[p].todo
                       \/ \A f \in passes[p].todo : When[f] <= When[o])'
    BY DEF TakenInOrder
  <2>1. CASE o = g BY <2>1, <1>6, PassFields DEF RowAtWork
  <2>2. CASE o \in Live BY <2>2, <1>6 DEF TakenInOrder, Running
  <2> QED BY <1>7, <2>1, <2>2
<1>9. NoOlderSkipped'
  <2> SUFFICES ASSUME NEW p \in Passes, ~arrivedLate', passes[p].pc = "ask",
                      NEW o \in Live', When[o] < When[Row(p)]
               PROVE  o \in checked
    BY DEF NoOlderSkipped, Row
  <2>1. CASE o = g
    <3>1. Row(p) \in Facts /\ facts[Row(p)] # "absent" BY PassFields DEF RowAtWork, Comparing
    <3>2. When[Row(p)] <= When[g] BY <3>1, <1>6
    <3> QED BY <2>1, <3>1, <3>2, WhenAssumption
  <2>2. CASE o \in Live BY <2>2, <1>6 DEF NoOlderSkipped
  <2> QED BY <1>7, <2>1, <2>2
<1> QED BY <1>1, <1>2, <1>3, <1>4, <1>5, <1>8, <1>9

LEMMA ForgetKeeps ==
  ASSUME FactInv, NEW g \in Facts, ForgetFact(g)
  PROVE  FactInv'
<1> USE DEF FactInv, ForgetFact
<1>1. FactTypeOK' BY DEF FactTypeOK
<1>2. RowAtWork'
  <2>1. \A f \in Facts : facts[f] # "absent" => facts'[f] # "absent" BY DEF FactTypeOK
  <2> QED BY <2>1, PassFields DEF RowAtWork, Comparing, Row
<1>3. OlderAtWork' BY DEF OlderAtWork, OlderThanRow, Row
<1>4. LinksClimb' BY DEF LinksClimb
<1>5. AloneUnlinked' BY DEF AloneUnlinked, Running
<1>6. Live' \subseteq Live BY DEF Live, FactTypeOK
<1>7. TakenInOrder' BY <1>6 DEF TakenInOrder, Running
<1>8. NoOlderSkipped' BY <1>6 DEF NoOlderSkipped, Row
<1> QED BY <1>1, <1>2, <1>3, <1>4, <1>5, <1>7, <1>8

LEMMA StartKeeps ==
  ASSUME FactInv, NEW p \in Passes, StartPass(p)
  PROVE  FactInv'
<1> USE DEF FactInv
<1>0. /\ passes[p].pc = "out"
      /\ passes' = [passes EXCEPT ![p] =
           [NotRunning EXCEPT !.pc = "compare", !.todo = Live \ checked]]
      /\ starts' = starts + 1
      /\ overlap' = (overlap \/ \E q \in Passes : passes[q].pc # "out")
      /\ UNCHANGED <<gate, facts, supersededBy, checked, arrivedLate>>
  BY DEF StartPass
<1> USE DEF NotRunning
<1> DEFINE R == [pc : {"out", "compare", "ask", "link"}, todo : SUBSET Facts,
                 row : Facts \cup {NoFact}, older : SUBSET Facts, picked : SUBSET Facts]
           T == Live \ checked
<1>1. FactTypeOK'
  <2>1. NotRunning \in R OBVIOUS
  <2>2. T \in SUBSET Facts BY DEF Live
  <2> HIDE DEF NotRunning, T
  <2>3. [NotRunning EXCEPT !.pc = "compare", !.todo = T] \in R BY <2>1, <2>2
  <2> HIDE DEF R
  <2>4. passes \in [Passes -> R] BY DEF FactTypeOK, R
  <2>5. passes' \in [Passes -> R] BY <1>0, <2>3, <2>4 DEF T
  <2> QED BY <1>0, <2>5 DEF FactTypeOK, R
<1> HIDE DEF R, T
<1>2. RowAtWork' BY <1>0 DEF RowAtWork, Comparing, Row, Live, FactTypeOK
<1>3. OlderAtWork' BY <1>0 DEF OlderAtWork, OlderThanRow, Row, FactTypeOK
<1>4. LinksClimb' BY <1>0 DEF LinksClimb
<1>5. AloneUnlinked' BY <1>0 DEF AloneUnlinked, Running, FactTypeOK
<1>6. TakenInOrder' BY <1>0 DEF TakenInOrder, Running, Live, FactTypeOK
<1>7. NoOlderSkipped' BY <1>0 DEF NoOlderSkipped, Row, Live, FactTypeOK
<1> QED BY <1>1, <1>2, <1>3, <1>4, <1>5, <1>6, <1>7

LEMMA CompareKeeps ==
  ASSUME FactInv, NEW p \in Passes, Compare(p)
  PROVE  FactInv'
<1> USE DEF FactInv
<1>0. PICK g \in OldestOf(passes[p].todo) :
        passes' = [passes EXCEPT ![p].pc = "ask", ![p].row = g,
                                 ![p].older = {o \in Candidates(g) : Older(o, g)}]
  BY DEF Compare
<1>a. /\ passes[p].pc = "compare"
      /\ UNCHANGED <<gate, facts, supersededBy, checked, starts, arrivedLate, overlap>>
  BY DEF Compare
<1>b. g \in passes[p].todo /\ g \in Facts /\ \A f \in passes[p].todo : When[g] <= When[f]
  BY PassFields DEF OldestOf
<1>c. \A o \in Candidates(g) : o \in Facts /\ SpokenBy[o] = SpokenBy[g] /\ supersededBy[o] = NoFact
  BY DEF Candidates, Live
<1>d. \A o \in {c \in Candidates(g) : Older(c, g)} : When[o] < When[g] BY DEF Older
<1> DEFINE C == {o \in Candidates(g) : Older(o, g)}
<1>e. C \subseteq Facts BY <1>c
<1>f. passes' = [passes EXCEPT ![p] = [passes[p] EXCEPT !.pc = "ask", !.row = g, !.older = C]] BY <1>0
<1>g. /\ \A o \in C : When[o] < When[g] /\ SpokenBy[o] = SpokenBy[g] /\ supersededBy[o] = NoFact
  BY <1>c, <1>d
<1> HIDE DEF C
<1>1. FactTypeOK' BY <1>a, <1>b, <1>e, <1>f, ZenonT(60) DEF FactTypeOK
<1>2. RowAtWork' BY <1>a, <1>b, <1>f DEF RowAtWork, Comparing, Row, FactTypeOK
<1>3. OlderAtWork' BY <1>a, <1>f, <1>g DEF OlderAtWork, OlderThanRow, Row, FactTypeOK
<1>4. LinksClimb' BY <1>a DEF LinksClimb
<1>5. AloneUnlinked' BY <1>a, <1>f, <1>g DEF AloneUnlinked, Running, FactTypeOK
<1>6. TakenInOrder' BY <1>a, <1>f DEF TakenInOrder, Running, Live, FactTypeOK
<1>7. NoOlderSkipped'
  <2>1. ASSUME ~arrivedLate, NEW o \in Live, When[o] < When[g] PROVE o \in checked
    <3>1. o \in Facts BY DEF Live
    <3>2. When[o] \in Nat /\ When[g] \in Nat BY <3>1, <1>b, WhenAssumption
    <3>3. o \notin passes[p].todo BY <1>b, <2>1, <3>2
    <3>4. ~ (\A f \in passes[p].todo : When[f] <= When[o]) BY <1>b, <2>1, <3>2
    <3> QED BY <1>a, <2>1, <3>3, <3>4 DEF TakenInOrder, Running
  <2> QED BY <1>a, <1>f, <2>1 DEF NoOlderSkipped, Row, Live, FactTypeOK
<1> QED BY <1>1, <1>2, <1>3, <1>4, <1>5, <1>6, <1>7

LEMMA AskKeeps ==
  ASSUME FactInv, NEW p \in Passes, Ask(p)
  PROVE  FactInv'
<1> USE DEF FactInv
<1>0. PICK picked \in SUBSET passes[p].older :
        passes' = [passes EXCEPT ![p].pc = "link", ![p].picked = picked, ![p].older = {}]
  BY DEF Ask
<1>a. /\ passes[p].pc = "ask"
      /\ UNCHANGED <<gate, facts, supersededBy, checked, starts, arrivedLate, overlap>>
  BY DEF Ask
<1>b. picked \subseteq Facts BY PassFields
<1>f. passes' = [passes EXCEPT ![p] = [passes[p] EXCEPT !.pc = "link", !.picked = picked, !.older = {}]]
  BY <1>0
<1>1. FactTypeOK' BY <1>a, <1>b, <1>f, ZenonT(60) DEF FactTypeOK
<1>2. RowAtWork' BY <1>a, <1>f DEF RowAtWork, Comparing, Row, FactTypeOK
<1>3. OlderAtWork' BY <1>a, <1>f DEF OlderAtWork, OlderThanRow, Row, FactTypeOK
<1>4. LinksClimb' BY <1>a DEF LinksClimb
<1>5. AloneUnlinked' BY <1>a, <1>f DEF AloneUnlinked, Running, FactTypeOK
<1>6. TakenInOrder' BY <1>a, <1>f DEF TakenInOrder, Running, Live, FactTypeOK
<1>7. NoOlderSkipped' BY <1>a, <1>f DEF NoOlderSkipped, Row, Live, FactTypeOK
<1> QED BY <1>1, <1>2, <1>3, <1>4, <1>5, <1>6, <1>7

LEMMA LinkKeeps ==
  ASSUME FactInv, NEW p \in Passes, LinkOne(p)
  PROVE  /\ FactInv'
         /\ ~overlap => \A f \in Facts : supersededBy[f] # NoFact => supersededBy'[f] = supersededBy[f]
<1> USE DEF FactInv
<1>0. PICK o \in passes[p].picked :
        /\ supersededBy' = [supersededBy EXCEPT ![o] = Row(p)]
        /\ passes' = [passes EXCEPT ![p].picked = @ \ {o}]
  BY DEF LinkOne
<1>a. /\ passes[p].pc = "link"
      /\ UNCHANGED <<gate, facts, checked, starts, arrivedLate, overlap>>
  BY DEF LinkOne
<1>b. o \in Facts /\ Row(p) \in Facts /\ OlderThanRow(o, p)
  BY <1>a, PassFields DEF RowAtWork, Comparing, OlderAtWork
<1>c. ~overlap => supersededBy[o] = NoFact /\ \A q \in Passes \ {p} : ~Running(q)
  BY <1>a DEF AloneUnlinked, Running
<1>f. passes' = [passes EXCEPT ![p] = [passes[p] EXCEPT !.picked = passes[p].picked \ {o}]]
  BY <1>0
<1>1. FactTypeOK' BY <1>0, <1>a, <1>b, <1>f DEF FactTypeOK
<1>2. RowAtWork' BY <1>a, <1>f DEF RowAtWork, Comparing, Row, FactTypeOK
<1>3. OlderAtWork' BY <1>a, <1>f DEF OlderAtWork, OlderThanRow, Row, FactTypeOK
<1>4. LinksClimb'
  <2> SUFFICES ASSUME NEW f \in Facts, supersededBy'[f] # NoFact
               PROVE  When[f] < When[supersededBy'[f]] /\ SpokenBy[f] = SpokenBy[supersededBy'[f]]
    BY DEF LinksClimb
  <2>1. CASE f = o BY <2>1, <1>0, <1>b DEF FactTypeOK, OlderThanRow
  <2>2. CASE f # o BY <2>2, <1>0, <1>b DEF FactTypeOK, LinksClimb
  <2> QED BY <2>1, <2>2
<1>5. AloneUnlinked'
  <2> SUFFICES ASSUME ~overlap PROVE AloneUnlinked' BY <1>a DEF AloneUnlinked
  <2>1. \A q \in Passes \ {p} : passes'[q] = passes[q] /\ passes[q].pc = "out"
    BY <1>c, <1>f DEF Running, FactTypeOK
  <2>2. passes'[p].pc = "link" /\ passes'[p].picked = passes[p].picked \ {o} BY <1>a, <1>f DEF FactTypeOK
  <2>3. \A f \in passes[p].picked \ {o} : supersededBy'[f] = NoFact
    BY <1>0, <1>a, PassFields DEF AloneUnlinked, FactTypeOK
  <2> QED BY <2>1, <2>2, <2>3 DEF AloneUnlinked, Running
<1>6. TakenInOrder' BY <1>a, <1>f DEF TakenInOrder, Running, Live, FactTypeOK
<1>7. NoOlderSkipped' BY <1>a, <1>f DEF NoOlderSkipped, Row, Live, FactTypeOK
<1>8. ~overlap => \A f \in Facts : supersededBy[f] # NoFact => supersededBy'[f] = supersededBy[f]
  BY <1>0, <1>c DEF FactTypeOK
<1> QED BY <1>1, <1>2, <1>3, <1>4, <1>5, <1>6, <1>7, <1>8

LEMMA StampKeeps ==
  ASSUME FactInv, NEW p \in Passes, StampRow(p)
  PROVE  FactInv'
<1> USE DEF FactInv
<1>a. /\ passes[p].pc = "link" /\ checked' = checked \cup {Row(p)}
      /\ UNCHANGED <<gate, facts, supersededBy, starts, arrivedLate, overlap>>
  BY DEF StampRow
<1>b. Row(p) \in Facts /\ Row(p) \in passes[p].todo BY <1>a, PassFields DEF RowAtWork, Comparing
<1>f. passes' = [passes EXCEPT ![p] = [passes[p] EXCEPT !.pc = "compare", !.row = NoFact,
                                                      !.todo = passes[p].todo \ {Row(p)}]]
  BY DEF StampRow
<1>1. FactTypeOK' BY <1>a, <1>b, <1>f, ZenonT(60) DEF FactTypeOK
<1>2. RowAtWork' BY <1>a, <1>f DEF RowAtWork, Comparing, Row, FactTypeOK
<1>3. OlderAtWork' BY <1>a, <1>f DEF OlderAtWork, OlderThanRow, Row, FactTypeOK
<1>4. LinksClimb' BY <1>a DEF LinksClimb
<1>5. AloneUnlinked' BY <1>a, <1>f DEF AloneUnlinked, Running, FactTypeOK
<1>6. TakenInOrder'
  <2> SUFFICES ASSUME ~arrivedLate, NEW q \in Passes, Running(q)', NEW o \in Live
               PROVE  (\/ o \in checked \cup passes[q].todo
                       \/ \A f \in passes[q].todo : When[f] <= When[o])'
    BY <1>a DEF TakenInOrder, Live
  <2>1. CASE q = p
    <3>1. passes'[p].todo = passes[p].todo \ {Row(p)} BY <1>f DEF FactTypeOK
    <3>2. \/ o \in checked \cup passes[p].todo
          \/ \A f \in passes[p].todo : When[f] <= When[o]
      BY <1>a DEF TakenInOrder, Running
    <3> QED BY <1>a, <2>1, <3>1, <3>2
  <2>2. CASE q # p
    <3>1. passes'[q] = passes[q] BY <2>2, <1>f DEF FactTypeOK
    <3> QED BY <1>a, <3>1 DEF TakenInOrder, Running
  <2> QED BY <2>1, <2>2
<1>7. NoOlderSkipped' BY <1>a, <1>f DEF NoOlderSkipped, Row, Live, FactTypeOK
<1> QED BY <1>1, <1>2, <1>3, <1>4, <1>5, <1>6, <1>7

LEMMA EndKeeps ==
  ASSUME FactInv, NEW p \in Passes, EndPass(p)
  PROVE  FactInv'
<1> USE DEF FactInv, EndPass, NotRunning
<1>1. FactTypeOK' BY DEF FactTypeOK
<1>2. RowAtWork' BY DEF RowAtWork, Comparing, Row, FactTypeOK
<1>3. OlderAtWork' BY DEF OlderAtWork, OlderThanRow, Row, FactTypeOK
<1>4. LinksClimb' BY DEF LinksClimb
<1>5. AloneUnlinked' BY DEF AloneUnlinked, Running, FactTypeOK
<1>6. TakenInOrder' BY DEF TakenInOrder, Running, Live, FactTypeOK
<1>7. NoOlderSkipped' BY DEF NoOlderSkipped, Row, Live, FactTypeOK
<1> QED BY <1>1, <1>2, <1>3, <1>4, <1>5, <1>6, <1>7

LEMMA FactStep == FactInv /\ [FactNext]_factVars => FactInv'
<1> SUFFICES ASSUME FactInv, [FactNext]_factVars PROVE FactInv' OBVIOUS
<1> HIDE DEF FactInv
<1> QED BY FactStutter, RememberKeeps, ForgetKeeps, StartKeeps, CompareKeeps, AskKeeps, LinkKeeps,
           StampKeeps, EndKeeps DEF FactNext

LEMMA LinkKeptStep ==
  FactInv /\ [FactNext]_factVars =>
    [~overlap' => \A f \in Facts :
       supersededBy[f] # NoFact => supersededBy'[f] = supersededBy[f]]_factVars
<1> SUFFICES ASSUME FactInv, FactNext
             PROVE  ~overlap' => \A f \in Facts :
                      supersededBy[f] # NoFact => supersededBy'[f] = supersededBy[f]
  OBVIOUS
<1>1. CASE \E p \in Passes : LinkOne(p)
  <2>1. PICK p \in Passes : LinkOne(p) BY <1>1
  <2>2. overlap' = overlap BY <2>1 DEF LinkOne
  <2> HIDE DEF FactInv
  <2> QED BY <2>1, <2>2, LinkKeeps
<1>2. CASE ~ \E p \in Passes : LinkOne(p)
  BY <1>2 DEF FactNext, Remember, ForgetFact, StartPass, Compare, Ask, StampRow, EndPass
<1> QED BY <1>1, <1>2

(* Rows, candidates and links keep their types in every pass                 *)
(* (lifecycle/supersession.py:136).                                         *)
THEOREM FactTypes == FactSpec => []FactTypeOK
<1>1. FactInv => FactTypeOK BY DEF FactInv
<1> HIDE DEF FactInv
<1> QED BY <1>1, FactInitInv, FactStep, PTL DEF FactSpec

(* However many passes overlap and die, a link points to a strictly newer    *)
(* statement of the same agent (lifecycle/supersession.py:150).              *)
THEOREM LinksNeverCycle == FactSpec => []LinksClimb
<1>1. FactInv => LinksClimb BY DEF FactInv
<1> HIDE DEF FactInv
<1> QED BY <1>1, FactInitInv, FactStep, PTL DEF FactSpec

(* Facts that arrive in order are checked in order, across failed and        *)
(* overlapping passes (lifecycle/supersession.py:90).                        *)
THEOREM CheckedInOrder == FactSpec => []NoOlderSkipped
<1>1. FactInv => NoOlderSkipped BY DEF FactInv
<1> HIDE DEF FactInv
<1> QED BY <1>1, FactInitInv, FactStep, PTL DEF FactSpec

(* With one pass at a time a statement gets one successor for good           *)
(* (lifecycle/supersession.py:193).                                         *)
THEOREM LinksAreKept == FactSpec => LinkKept
<1> HIDE DEF FactInv
<1> QED BY FactInitInv, FactStep, LinkKeptStep, PTL DEF FactSpec, LinkKept

-----------------------------------------------------------------------------
(***************************************************************************)
(* Ontology: an edge bears a reviewed name or the one it was extracted with.*)
(***************************************************************************)

(* What a proposal that was read under key k holds: a group of that key, and *)
(* a relationship the model named for one.                                   *)
Backed(p, k, names) ==
  /\ p.group \in Groups /\ ProposalKey[p.group] = k
  /\ p.relation \in Relations
  /\ \E g \in Groups : ProposalKey[g] = k /\ <<g, p.relation>> \in names

Statuses == {"pending", "approved", "rejected", NoRelation}
ProposalRecords == [group : Groups \cup {<<>>}, relation : Relations \cup {NoRelation}, status : Statuses]
ReviewStages == {"none", "listed", "approve", "reject", "approved"}
ReviewRecords ==
  [pc : ReviewStages, tenant : Tenants \cup {""}, key : Keys \cup {""}, shown : ProposalRecords,
   read : ProposalRecords, renewed : BOOLEAN]

OntologyTypes ==
  /\ relation \in [Edges -> Relations \cup {NoRelation, Generic}]
  /\ proposals \in [Keys -> ProposalRecords]
  /\ review \in ReviewRecords
  /\ approvals \in [Edges -> ReviewRecords]
  /\ pass.todo \subseteq Groups
  /\ named \subseteq Groups \X Relations

ProposalsBacked == \A k \in Keys : proposals[k] # NoProposal => Backed(proposals[k], k, named)

(* What the reviewer was shown is what the key still holds, unless a pass    *)
(* upserted it in between; and what was read for the verdict stays.          *)
ReviewBacked ==
  /\ review.pc = "none" => review = NoReview
  /\ review.pc # "none" => review.key \in Keys /\ proposals[review.key] # NoProposal
  /\ review.pc = "listed" =>
       review.renewed \/ proposals[review.key].relation = review.shown.relation
  /\ review.pc \in {"approve", "approved"} =>
       /\ Backed(review.read, review.key, named)
       /\ review.renewed \/ review.read.relation = review.shown.relation

OntologyInv == OntologyTypes /\ ProposalsBacked /\ ReviewBacked /\ RelabelledAsReviewed

LEMMA EmptyRecords ==
  /\ NoProposal \in ProposalRecords
  /\ NoReview \in ReviewRecords /\ NoReview.pc = "none"
  /\ NoPass.todo = {}
<1>1. NoProposal \in ProposalRecords
  BY DEF NoProposal, ProposalRecords, Statuses
<1> QED
  BY <1>1 DEF NoReview, ReviewRecords, ReviewStages, NoPass

LEMMA OntologyInvInit == OntologyInit => OntologyInv
BY EmptyRecords
   DEF OntologyInit, OntologyInv, OntologyTypes, ProposalsBacked, ReviewBacked, RelabelledAsReviewed

(* What a proposal rests on only grows.                                      *)
LEMMA BackedStays ==
  ASSUME NEW p, NEW k, Backed(p, k, named), named \subseteq named'
  PROVE  Backed(p, k, named')
BY DEF Backed

LEMMA UpsertBacks ==
  ASSUME NEW p \in ProposalRecords, NEW g \in Groups, NEW rel \in Relations,
         p # NoProposal => Backed(p, ProposalKey[g], named), <<g, rel>> \in named'
  PROVE  /\ Upserted(p, g, rel) \in ProposalRecords
         /\ Upserted(p, g, rel) # NoProposal
         /\ Backed(Upserted(p, g, rel), ProposalKey[g], named')
<1> USE OntologyAssumption
<1>1. CASE p = NoProposal
  BY <1>1 DEF Upserted, Backed, NoProposal, ProposalRecords, Statuses
<1>2. CASE p # NoProposal
  <2>1. Upserted(p, g, rel) = [p EXCEPT !.relation = rel]
    BY <1>2 DEF Upserted
  <2>2. /\ Upserted(p, g, rel).relation = rel /\ Upserted(p, g, rel).group = p.group
        /\ Upserted(p, g, rel) \in ProposalRecords
    BY <2>1 DEF ProposalRecords
  <2>3. NoProposal.relation \notin Relations
    BY DEF NoProposal
  <2> QED
    BY <1>2, <2>2, <2>3 DEF Backed
<1> QED
  BY <1>1, <1>2

LEMMA OntologyInvStep == OntologyInv /\ [OntologyNext]_ontologyVars => OntologyInv'
<1> SUFFICES ASSUME OntologyInv, [OntologyNext]_ontologyVars PROVE OntologyInv'
  OBVIOUS
<1> USE OntologyAssumption
<1> USE DEF OntologyInv, OntologyTypes, ProposalsBacked, ReviewBacked, RelabelledAsReviewed
<1>1. ASSUME NEW e \in Edges, Cooccur(e) PROVE OntologyInv'
  <2>1. OntologyTypes' /\ ProposalsBacked' /\ ReviewBacked'
    BY <1>1 DEF Cooccur, Backed
  <2>2. relation' = [relation EXCEPT ![e] = Generic] /\ approvals[e] = NoReview
    <3>1. NoRelation \notin Relations /\ relation[e] = NoRelation
      BY <1>1 DEF Cooccur
    <3> QED
      BY <1>1, <3>1 DEF Cooccur
  <2>3. UNCHANGED <<approvals, named>>
    BY <1>1 DEF Cooccur
  <2>4. RelabelledAsReviewed'
    BY <2>2, <2>3
  <2> QED
    BY <2>1, <2>4
<1>2. ASSUME NEW e \in Edges, Fade(e) PROVE OntologyInv'
  BY <1>2 DEF Fade, Backed
<1>3. ASSUME NEW t \in Tenants, ReadClusters(t) PROVE OntologyInv'
  BY <1>3 DEF ReadClusters, Backed
<1>4. ASSUME NEW t \in Tenants, NEW k \in Keys, List(t, k) PROVE OntologyInv'
  <2>1. /\ proposals[k] # NoProposal /\ review'.pc = "listed" /\ review'.key = k
        /\ review'.shown = proposals[k]
    BY <1>4 DEF List, Owned, NoReview
  <2>2. review' \in ReviewRecords
    BY <1>4, EmptyRecords DEF List, NoReview, ReviewRecords, ReviewStages
  <2> QED
    BY <1>4, <2>1, <2>2 DEF List, Backed
<1>5. ASSUME NEW g \in Groups, NEW rel \in Relations, Propose(g, rel) PROVE OntologyInv'
  <2> DEFINE k == ProposalKey[g]
  <2>0. k \in Keys /\ named \subseteq named' /\ <<g, rel>> \in named'
    BY <1>5 DEF Propose, Keys
  <2>1. /\ proposals' = [proposals EXCEPT ![k] = Upserted(proposals[k], g, rel)]
        /\ proposals'[k] \in ProposalRecords /\ proposals'[k] # NoProposal
        /\ Backed(proposals'[k], k, named')
    <3>1. proposals[k] \in ProposalRecords /\ (proposals[k] # NoProposal => Backed(proposals[k], k, named))
      BY <2>0
    <3>2. /\ Upserted(proposals[k], g, rel) \in ProposalRecords
          /\ Upserted(proposals[k], g, rel) # NoProposal
          /\ Backed(Upserted(proposals[k], g, rel), k, named')
      BY <2>0, <3>1, UpsertBacks
    <3>3. proposals' = [proposals EXCEPT ![k] = Upserted(proposals[k], g, rel)]
      BY <1>5 DEF Propose
    <3>4. proposals'[k] = Upserted(proposals[k], g, rel)
      BY <2>0, <3>3
    <3> QED
      BY <3>2, <3>3, <3>4 DEF Backed
  <2>2. ProposalsBacked'
    <3> SUFFICES ASSUME NEW j \in Keys, proposals'[j] # NoProposal PROVE Backed(proposals'[j], j, named')
      BY DEF Backed
    <3>1. CASE j = k
      BY <3>1, <2>1
    <3>2. CASE j # k
      <4>1. proposals'[j] = proposals[j]
        BY <2>1, <3>2
      <4>2. Backed(proposals[j], j, named)
        BY <4>1
      <4> QED
        BY <2>0, <4>1, <4>2 DEF Backed
    <3> QED
      BY <3>1, <3>2
  <2>3. /\ review' \in ReviewRecords
        /\ review'.pc = review.pc /\ review'.key = review.key /\ review'.read = review.read
        /\ review'.shown = review.shown
        /\ review'.renewed = (review.renewed \/ (review.pc = "listed" /\ review.key = k))
    BY <1>5 DEF Propose, ReviewRecords
  <2>4. review.pc = "none" => review' = NoReview
    <3>1. CASE review.pc = "none"
      <4>1. ~(review.pc = "listed" /\ review.key = k)
        BY <3>1
      <4>2. review' = [review EXCEPT !.renewed = @ \/ (review.pc = "listed" /\ review.key = k)]
        BY <1>5 DEF Propose
      <4>3. review = NoReview
        BY <3>1
      <4>4. NoReview.renewed = FALSE
        BY DEF NoReview
      <4>5. NoReview = [NoReview EXCEPT !.renewed = FALSE]
        BY <4>4, EmptyRecords DEF ReviewRecords
      <4> QED
        BY <4>1, <4>2, <4>3, <4>4, <4>5
    <3> QED
      BY <3>1
  <2>5. ReviewBacked'
    BY <2>0, <2>1, <2>3, <2>4, BackedStays
  <2>6. RelabelledAsReviewed'
    BY <1>5, <2>0 DEF Propose
  <2>7. OntologyTypes'
    <3>1. proposals' \in [Keys -> ProposalRecords]
      BY <2>1
    <3> QED
      BY <1>5, <2>3, <3>1 DEF Propose
  <2> QED
    BY <2>2, <2>5, <2>6, <2>7
<1>6. ASSUME NEW g \in Groups, Decline(g) PROVE OntologyInv'
  <2>1. pass'.todo \subseteq Groups
    BY <1>6 DEF Decline
  <2> QED
    BY <1>6, <2>1 DEF Decline, Backed
<1>7. CASE EndProposing
  BY <1>7 DEF EndProposing, NoPass, Backed
<1>8. ASSUME NEW verdict \in {"approve", "reject"}, ReadProposal(verdict) PROVE OntologyInv'
  <2>1. /\ review'.pc = verdict /\ review'.key = review.key
        /\ review'.read = proposals[review.key] /\ review'.shown = review.shown
        /\ review'.renewed = review.renewed
    BY <1>8 DEF ReadProposal, ReviewRecords
  <2>2. review' \in ReviewRecords
    BY <1>8 DEF ReadProposal, ReviewRecords, ReviewStages
  <2>3. ReviewBacked'
    BY <1>8, <2>1, BackedStays DEF ReadProposal
  <2> QED
    BY <1>8, <2>2, <2>3 DEF ReadProposal, Backed
<1>9. CASE Relabel
  <2> DEFINE hit == {e \in Edges : Matches(e, review.read)}
  <2>0. Backed(review.read, review.key, named) /\ review # NoReview
    BY <1>9, EmptyRecords DEF Relabel
  <2>1. relation' = [e \in Edges |-> IF e \in hit THEN review.read.relation ELSE relation[e]]
    BY <1>9 DEF Relabel
  <2>2. approvals' = [e \in Edges |-> IF e \in hit THEN review ELSE approvals[e]]
    BY <1>9 DEF Relabel
  <2>3. UNCHANGED <<proposals, named, pass>>
    BY <1>9 DEF Relabel
  <2>4. /\ review' \in ReviewRecords /\ review'.pc = "approved" /\ review'.key = review.key
        /\ review'.read = review.read /\ review'.shown = review.shown
        /\ review'.renewed = review.renewed
    BY <1>9 DEF Relabel, ReviewRecords, ReviewStages
  <2>5. OntologyTypes'
    BY <2>0, <2>1, <2>2, <2>3, <2>4 DEF Backed
  <2>6. ReviewBacked' /\ ProposalsBacked'
    BY <1>9, <2>3, <2>4, BackedStays DEF Relabel
  <2>7. ASSUME NEW e \in hit
        PROVE  /\ review.read.group = GroupOf(e)
               /\ \E g \in Groups : /\ ProposalKey[g] = review.key
                                    /\ <<g, review.read.relation>> \in named'
               /\ review.renewed \/ review.read.relation = review.shown.relation
    BY <1>9, <2>0, <2>3, <2>7 DEF Matches, Backed, Relabel
  <2>8. RelabelledAsReviewed'
    <3> SUFFICES ASSUME NEW e \in Edges
                 PROVE  LET a == approvals'[e] IN
                          /\ a = NoReview => relation'[e] \in {NoRelation, Generic}
                          /\ a # NoReview =>
                               /\ relation'[e] = a.read.relation /\ a.read.group = GroupOf(e)
                               /\ \E g \in Groups : /\ ProposalKey[g] = a.key
                                                    /\ <<g, a.read.relation>> \in named'
                               /\ a.renewed \/ a.read.relation = a.shown.relation
      OBVIOUS
    <3>1. CASE e \in hit
      BY <3>1, <2>0, <2>1, <2>2, <2>7
    <3>2. CASE e \notin hit
      BY <3>2, <2>1, <2>2, <2>3
    <3> QED
      BY <3>1, <3>2
  <2> QED
    BY <2>5, <2>6, <2>8
<1>10. CASE Mark
  <2> DEFINE k == review.key
             status == IF review.pc = "reject" THEN "rejected" ELSE "approved"
  <2>1. /\ proposals' = [proposals EXCEPT ![k].status = status]
        /\ review' = NoReview /\ k \in Keys
        /\ UNCHANGED <<relation, approvals, named, pass>>
    BY <1>10, EmptyRecords DEF Mark
  <2>2. \A j \in Keys : /\ proposals'[j] \in ProposalRecords
                        /\ proposals'[j].group = proposals[j].group
                        /\ proposals'[j].relation = proposals[j].relation
                        /\ j # k => proposals'[j] = proposals[j]
    BY <2>1 DEF ProposalRecords, Statuses
  <2>3. proposals[k] # NoProposal
    BY <1>10 DEF Mark
  <2>4. ProposalsBacked'
    <3> SUFFICES ASSUME NEW j \in Keys, proposals'[j] # NoProposal
                 PROVE  Backed(proposals'[j], j, named)
      BY <2>1
    <3>1. Backed(proposals[j], j, named)
      BY <2>2, <2>3
    <3> QED
      BY <2>2, <3>1 DEF Backed
  <2> QED
    BY <2>1, <2>2, <2>4, EmptyRecords
<1>11. CASE AbandonReview
  BY <1>11, EmptyRecords DEF AbandonReview, Backed
<1>12. CASE UNCHANGED ontologyVars
  BY <1>12 DEF ontologyVars, Backed
<1> QED
  BY <1>1, <1>2, <1>3, <1>4, <1>5, <1>6, <1>7, <1>8, <1>9, <1>10, <1>11, <1>12 DEF OntologyNext

(* The relationship an edge carries is one a reviewer approved for its       *)
(* tenant and labels, whatever passes and other reviews ran in between       *)
(* (approve_proposal in lifecycle/ontology.py).                              *)
THEOREM RelabelsAreReviewed == OntologySpec => []RelabelledAsReviewed
<1>1. OntologyInv => RelabelledAsReviewed
  BY DEF OntologyInv
<1> QED
  BY OntologyInvInit, OntologyInvStep, <1>1, PTL DEF OntologySpec

-----------------------------------------------------------------------------
(***************************************************************************)
(* Migrations: for every registry and baseline nothing is skipped, whichever*)
(* instances race and die.                                                 *)
(***************************************************************************)

(* An instance has seen every object before the one it is at.               *)
BaselineBehind ==
  \A b \in Booters :
    /\ boots[b].pc \in {"down", "schema", "create"} => 1..(boots[b].at - 1) \subseteq baseline
    /\ boots[b].pc = "create" => boots[b].at \in 1..SchemaSize
    /\ boots[b].pc \in {"apply", "record"} => baseline = 1..SchemaSize

(* A version that is recorded, or that an instance believes in, was applied. *)
VersionsBacked ==
  /\ \A v \in Versions : v <= recorded => v \in applied
  /\ \A b \in Booters, v \in Versions : v <= boots[b].version => v \in applied

AppliedInOrder ==
  /\ \A v \in applied, u \in Versions : u < v => u \in applied
  /\ applied # {} => baseline = 1..SchemaSize

MigrationInv == MigrationTypeOK /\ BaselineBehind /\ VersionsBacked /\ AppliedInOrder

LEMMA MinOfPending ==
  ASSUME NEW S \in SUBSET Nat, S # {}
  PROVE  Min(S) \in S /\ \A y \in S : Min(S) <= y
<1> DEFINE R == OpToRel(<, Nat)
<1>1. PICK x \in S : \A y \in S : ~ (<<y, x>> \in R)
  <2> HIDE DEF R
  <2>1. IsWellFoundedOn(R, Nat) BY NatLessThanWellFounded DEF R
  <2> QED BY <2>1, WFMin
<1>2. \A y \in S : ~ (y < x) BY <1>1 DEF OpToRel
<1>3. \E z \in S : \A y \in S : z <= y BY <1>2
<1> QED BY <1>3 DEF Min

LEMMA NextIsLeast ==
  ASSUME NEW version \in Nat, Pending(version) # {}
  PROVE  /\ NextOf(Pending(version)) \in Versions
         /\ \A u \in Versions : u < NextOf(Pending(version)) => u <= version
<1>1. Pending(version) \in SUBSET Nat BY VersionsAssumption DEF Pending
<1>2. /\ Min(Pending(version)) \in Pending(version)
      /\ \A y \in Pending(version) : Min(Pending(version)) <= y
  BY <1>1, MinOfPending
<1> QED BY <1>1, <1>2, VersionsAssumption DEF Pending, NextOf

LEMMA BootFields ==
  ASSUME MigrationTypeOK, NEW b \in Booters
  PROVE  /\ boots[b].pc \in {"down", "schema", "create", "apply", "record"}
         /\ boots[b].at \in 1..(SchemaSize + 1)
         /\ boots[b].version \in {0} \cup Versions /\ boots[b].version \in Nat
<1>1. boots[b] \in [pc : {"down", "schema", "create", "apply", "record"},
                   at : 1..(SchemaSize + 1), version : {0} \cup Versions]
  BY DEF MigrationTypeOK
<1>2. boots[b].pc \in {"down", "schema", "create", "apply", "record"} BY <1>1
<1>3. boots[b].at \in 1..(SchemaSize + 1) BY <1>1
<1>4. boots[b].version \in {0} \cup Versions BY <1>1
<1>5. \A v \in {0} \cup Versions : v \in Nat BY VersionsAssumption
<1> QED BY <1>2, <1>3, <1>4, <1>5

LEMMA MigrationInitInv == MigrationInit => MigrationInv
<1> SUFFICES ASSUME MigrationInit PROVE MigrationInv OBVIOUS
<1>1. MigrationTypeOK BY SchemaAssumption DEF MigrationInit, MigrationTypeOK, Down
<1>2. BaselineBehind BY DEF MigrationInit, BaselineBehind, Down
<1>3. VersionsBacked BY VersionsAssumption DEF MigrationInit, VersionsBacked, Down
<1>4. AppliedInOrder BY DEF MigrationInit, AppliedInOrder
<1> QED BY <1>1, <1>2, <1>3, <1>4 DEF MigrationInv

(* The baseline only grows, within its objects.                             *)
LEMMA BaselineComplete ==
  ASSUME MigrationTypeOK, NEW x \in 1..SchemaSize, baseline = 1..SchemaSize
  PROVE  baseline \cup {x} = 1..SchemaSize
BY DEF MigrationTypeOK

(* A step of one instance that adds an object to the baseline.                *)
LEMMA BaselineWidens ==
  ASSUME MigrationTypeOK, BaselineBehind, NEW b \in Booters, NEW x \in 1..SchemaSize,
         baseline' = baseline \cup {x},
         \A d \in Booters \ {b} : boots'[d] = boots[d],
         boots'[b].pc \in {"down", "schema"}, 1..(boots'[b].at - 1) \subseteq baseline'
  PROVE  BaselineBehind'
<1>1. baseline \subseteq baseline' /\ (baseline = 1..SchemaSize => baseline' = 1..SchemaSize)
  BY BaselineComplete
<1> QED
  BY <1>1 DEF BaselineBehind

LEMMA MigrationStep == MigrationInv /\ [MigrationNext]_migrationVars => MigrationInv'
<1> SUFFICES ASSUME MigrationInv, [MigrationNext]_migrationVars PROVE MigrationInv' OBVIOUS
<1> USE SchemaAssumption, VersionsAssumption
<1>0. CASE UNCHANGED migrationVars
  BY <1>0 DEF migrationVars, MigrationInv, MigrationTypeOK, BaselineBehind, VersionsBacked, AppliedInOrder
<1>1. ASSUME NEW b \in Booters, Boot(b) PROVE MigrationInv'
  <2> USE <1>1 DEF Boot, MigrationInv, MigrationTypeOK
  <2>1. MigrationTypeOK' OBVIOUS
  <2>2. BaselineBehind' BY DEF BaselineBehind
  <2>3. VersionsBacked' BY DEF VersionsBacked
  <2>4. AppliedInOrder' BY DEF AppliedInOrder
  <2> QED BY <2>1, <2>2, <2>3, <2>4
<1>2. ASSUME NEW b \in Booters, CheckObject(b) PROVE MigrationInv'
  <2> USE <1>2 DEF CheckObject, MigrationInv, MigrationTypeOK
  <2>1. MigrationTypeOK' OBVIOUS
  <2>2. BaselineBehind'
    <3>1. boots[b].at \in Nat BY BootFields
    <3>2. 1..(boots[b].at - 1) \subseteq baseline BY DEF BaselineBehind
    <3>3. boots[b].at \in baseline => 1..boots[b].at \subseteq baseline BY <3>1, <3>2
    <3>4. CASE boots[b].at \in baseline /\ boots' = [boots EXCEPT ![b].at = @ + 1]
      BY <3>1, <3>3, <3>4 DEF BaselineBehind
    <3>5. CASE boots[b].at \notin baseline /\ boots' = [boots EXCEPT ![b].pc = "create"]
      BY <3>2, <3>5 DEF BaselineBehind
    <3> QED BY <3>4, <3>5
  <2>3. VersionsBacked' BY DEF VersionsBacked
  <2>4. AppliedInOrder' BY DEF AppliedInOrder
  <2> QED BY <2>1, <2>2, <2>3, <2>4
<1>3. ASSUME NEW b \in Booters, CreateObject(b) PROVE MigrationInv'
  <2> USE <1>3 DEF CreateObject, MigrationInv
  <2>0. boots[b].at \in 1..SchemaSize BY DEF BaselineBehind
  <2>1. MigrationTypeOK' BY <2>0 DEF MigrationTypeOK, Down
  <2>2. BaselineBehind'
    <3>1. 1..(boots[b].at - 1) \subseteq baseline BY DEF BaselineBehind
    <3>2. 1..boots[b].at \subseteq baseline' BY <2>0, <3>1
    <3>3. boots' = [boots EXCEPT ![b] = Down] \/ boots' = [boots EXCEPT ![b].pc = "schema", ![b].at = @ + 1]
      OBVIOUS
    <3>4. CASE boots' = [boots EXCEPT ![b] = Down]
      <4>1. /\ boots'[b].pc = "down" /\ 1..(boots'[b].at - 1) \subseteq baseline'
            /\ \A d \in Booters \ {b} : boots'[d] = boots[d]
        BY <3>4 DEF MigrationTypeOK, Down
      <4> QED BY <2>0, <3>4, <4>1, BaselineWidens
    <3>5. CASE boots' = [boots EXCEPT ![b].pc = "schema", ![b].at = @ + 1]
      <4>1. /\ boots'[b].pc = "schema" /\ boots'[b].at - 1 = boots[b].at
            /\ \A d \in Booters \ {b} : boots'[d] = boots[d]
        BY <2>0, <3>5 DEF MigrationTypeOK
      <4> QED BY <2>0, <3>2, <3>5, <4>1, BaselineWidens
    <3> QED BY <3>3, <3>4, <3>5
  <2>3. VersionsBacked' BY DEF VersionsBacked, MigrationTypeOK, Down
  <2>4. AppliedInOrder' BY <2>0, BaselineComplete DEF AppliedInOrder
  <2> QED BY <2>1, <2>2, <2>3, <2>4
<1>4. ASSUME NEW b \in Booters, AddIndex(b) PROVE MigrationInv'
  <2> USE <1>4 DEF AddIndex, MigrationInv
  <2>0. boots[b].at \in 1..SchemaSize OBVIOUS
  <2>1. MigrationTypeOK' BY <2>0 DEF MigrationTypeOK
  <2>2. BaselineBehind'
    <3>1. 1..(boots[b].at - 1) \subseteq baseline BY DEF BaselineBehind
    <3>2. 1..boots[b].at \subseteq baseline' BY <2>0, <3>1
    <3>3. /\ boots'[b].pc = "schema" /\ boots'[b].at - 1 = boots[b].at
          /\ \A d \in Booters \ {b} : boots'[d] = boots[d]
      BY <2>0 DEF MigrationTypeOK
    <3> QED BY <2>0, <3>2, <3>3, BaselineWidens
  <2>3. VersionsBacked' BY DEF VersionsBacked, MigrationTypeOK
  <2>4. AppliedInOrder' BY <2>0, BaselineComplete DEF AppliedInOrder
  <2> QED BY <2>1, <2>2, <2>3, <2>4
<1>5. ASSUME NEW b \in Booters, ReadVersion(b) PROVE MigrationInv'
  <2> USE <1>5 DEF ReadVersion, MigrationInv, MigrationTypeOK
  <2>1. MigrationTypeOK' OBVIOUS
  <2>2. BaselineBehind'
    <3>1. boots[b].at = SchemaSize + 1 BY BootFields
    <3>2. 1..(boots[b].at - 1) \subseteq baseline BY DEF BaselineBehind
    <3>3. 1..SchemaSize \subseteq baseline /\ baseline \subseteq 1..SchemaSize BY <3>1, <3>2
    <3>4. baseline = 1..SchemaSize BY <3>3
    <3> QED BY <3>1, <3>4 DEF BaselineBehind
  <2>3. VersionsBacked' BY DEF VersionsBacked
  <2>4. AppliedInOrder' BY DEF AppliedInOrder
  <2> QED BY <2>1, <2>2, <2>3, <2>4
<1>6. ASSUME NEW b \in Booters, ApplyNext(b) PROVE MigrationInv'
  <2> DEFINE v == NextOf(Pending(boots[b].version))
  <2> USE DEF MigrationInv
  <2>0. /\ boots[b].pc = "apply" /\ applied' = applied \cup {v}
        /\ boots' = [boots EXCEPT ![b].pc = "record", ![b].version = v]
        /\ UNCHANGED <<baseline, recorded, booted>>
    BY <1>6 DEF ApplyNext
  <2>1. v \in Versions /\ \A u \in Versions : u < v => u <= boots[b].version
    <3>1. boots[b].version \in Nat BY BootFields
    <3> QED BY <1>6, <3>1, NextIsLeast DEF ApplyNext
  <2>2. \A u \in Versions : u <= v => u \in applied'
    BY <2>0, <2>1 DEF VersionsBacked
  <2> HIDE DEF v
  <2>3. MigrationTypeOK' BY <2>0, <2>1 DEF MigrationTypeOK
  <2>4. BaselineBehind' BY <2>0 DEF BaselineBehind, MigrationTypeOK
  <2>5. VersionsBacked' BY <2>0, <2>2 DEF VersionsBacked, MigrationTypeOK
  <2>6. AppliedInOrder' BY <2>0, <2>1, <2>2 DEF AppliedInOrder, BaselineBehind
  <2> QED BY <2>3, <2>4, <2>5, <2>6
<1>7. ASSUME NEW b \in Booters, RecordVersion(b) PROVE MigrationInv'
  <2> USE <1>7 DEF RecordVersion, MigrationInv, MigrationTypeOK
  <2>1. MigrationTypeOK' OBVIOUS
  <2>2. BaselineBehind' BY DEF BaselineBehind
  <2>3. VersionsBacked' BY DEF VersionsBacked
  <2>4. AppliedInOrder' BY DEF AppliedInOrder
  <2> QED BY <2>1, <2>2, <2>3, <2>4
<1>8. ASSUME NEW b \in Booters, Stop(b) PROVE MigrationInv'
  <2> USE <1>8 DEF Stop, Down, MigrationInv, MigrationTypeOK
  <2>1. MigrationTypeOK' OBVIOUS
  <2>2. BaselineBehind' BY DEF BaselineBehind
  <2>3. VersionsBacked' BY DEF VersionsBacked
  <2>4. AppliedInOrder' BY DEF AppliedInOrder
  <2> QED BY <2>1, <2>2, <2>3, <2>4
<1> QED BY <1>0, <1>1, <1>2, <1>3, <1>4, <1>5, <1>6, <1>7, <1>8 DEF MigrationNext

LEMMA NothingSkippedInv == MigrationInv => NoMigrationSkipped
<1> SUFFICES ASSUME MigrationInv PROVE NoMigrationSkipped OBVIOUS
<1> USE DEF MigrationInv
<1>1. ASSUME NEW b \in Booters, Ready(b) PROVE applied = Versions /\ baseline = 1..SchemaSize
  <2>1. boots[b].version \in Nat BY BootFields
  <2>2. \A v \in Versions : v <= boots[b].version
    BY <1>1, <2>1, VersionsAssumption DEF Ready, Pending
  <2> QED BY <1>1, <2>2 DEF Ready, VersionsBacked, BaselineBehind, MigrationTypeOK
<1> QED BY <1>1 DEF NoMigrationSkipped, VersionsBacked, AppliedInOrder

(* Every object, version and position stays what ensure_schema and           *)
(* run_migrations can hold (schema/collections.py:72, schema/migrations.py:50). *)
THEOREM MigrationTypes == MigrationSpec => []MigrationTypeOK
<1>1. MigrationInv => MigrationTypeOK BY DEF MigrationInv
<1> HIDE DEF MigrationInv
<1> QED BY <1>1, MigrationInitInv, MigrationStep, PTL DEF MigrationSpec

(* For any number of instances that start, race, die and start again, no     *)
(* migration is skipped or applied to an incomplete baseline, and an instance *)
(* that serves has the whole schema (schema/migrations.py:58).               *)
THEOREM NothingIsSkipped == MigrationSpec => []NoMigrationSkipped
<1> HIDE DEF MigrationInv
<1> QED BY NothingSkippedInv, MigrationInitInv, MigrationStep, PTL DEF MigrationSpec

-----------------------------------------------------------------------------
(***************************************************************************)
(* Embeddings: a stored vector was made by the version it is stamped with, *)
(* and a finished migration leaves no other version behind.                *)
(***************************************************************************)

EmbeddingVersions == Models \cup {NoVersion}
Entries == [key : Passages \X Models, made : Models]
WriterStages == {"idle", "bump", "embed", "evict", "insert"}
Writers == [pc : WriterStages, text : Passages \cup {""}, made : EmbeddingVersions]
Vectors == [made : EmbeddingVersions, stamp : EmbeddingVersions]
MigrationStages == {"off", "list", "embed", "drop", "ensure", "done"}
EmbeddingMigrations == [pc : MigrationStages, version : EmbeddingVersions, kind : 0..2, todo : SUBSET Passages]

EmbeddingTypes ==
  /\ embedder \in [Hosts -> Models]
  /\ cache \in [Hosts -> Seq(Entries)] /\ sharedCache \in SUBSET Entries
  /\ docs \in [Passages -> Vectors]
  /\ threads \in [Threads -> Writers]
  /\ migration \in EmbeddingMigrations
  /\ storedLate \in SUBSET Passages

(* A cached vector was made by the version in its key.                       *)
EntriesTrue ==
  /\ \A i \in Hosts : \A n \in DOMAIN cache[i] : cache[i][n].made = cache[i][n].key[2]
  /\ \A e \in sharedCache : e.made = e.key[2]

(* The vector a thread has at hand was made by its instance's embedder.      *)
AtHandTrue ==
  \A t \in Threads :
    /\ threads[t].pc # "idle" => threads[t].text \in Passages
    /\ threads[t].pc \in {"bump", "evict", "insert"} => threads[t].made = embedder[HostOf[t]]

StampsTrue == \A x \in Passages : docs[x].made = docs[x].stamp

(* What the migration has yet to do about a text of another version that was *)
(* not stored late: list it, or embed it.                                    *)
StaleText(x) == docs[x] # Absent /\ docs[x].stamp # migration.version /\ x \notin storedLate
MigrationOnCourse ==
  /\ migration.pc \in {"list", "embed"} => migration.kind \in {1, 2}
  /\ migration.pc = "list" /\ migration.kind = 2 => \A x \in Kinds[1] : ~StaleText(x)
  /\ migration.pc = "embed" =>
       \A j \in 1..migration.kind : \A x \in Kinds[j] : StaleText(x) => x \in migration.todo
  /\ migration.pc \in {"drop", "ensure", "done"} => \A x \in Passages : ~StaleText(x)

EvictersOf(i) == {t \in Threads : HostOf[t] = i /\ threads[t].pc = "evict"}
CacheInBounds == \A i \in Hosts : Len(cache[i]) <= CacheSize + Cardinality(EvictersOf(i))

EmbeddingInv ==
  /\ EmbeddingTypes /\ EntriesTrue /\ AtHandTrue /\ StampsTrue /\ MigrationOnCourse /\ CacheInBounds

LEMMA RestingWriter == Resting \in Writers /\ Resting.pc = "idle"
BY DEF Resting, Writers, WriterStages, EmbeddingVersions

LEMMA IdleMigration == NoMigration \in EmbeddingMigrations /\ NoMigration.pc = "off"
BY DEF NoMigration, EmbeddingMigrations, MigrationStages, EmbeddingVersions

LEMMA TextKinds ==
  /\ Len(Kinds) = 2 /\ Kinds[1] = Passages \ Entities /\ Kinds[2] = Entities
  /\ Entities \subseteq Passages
BY EmbeddingAssumption DEF Kinds

LEMMA EmbeddingInvInit == EmbeddingInit => EmbeddingInv
<1> SUFFICES ASSUME EmbeddingInit PROVE EmbeddingInv
  OBVIOUS
<1> USE DEF EmbeddingInit
<1>1. Absent \in Vectors /\ Absent.made = Absent.stamp /\ <<>> \in Seq(Entries)
  BY DEF Absent, Vectors, EmbeddingVersions
<1>2. EmbeddingTypes
  BY <1>1, RestingWriter, IdleMigration DEF EmbeddingTypes
<1>3. EntriesTrue
  BY DEF EntriesTrue
<1>4. AtHandTrue
  BY RestingWriter DEF AtHandTrue
<1>5. StampsTrue
  BY <1>1 DEF StampsTrue
<1>6. MigrationOnCourse
  BY IdleMigration DEF MigrationOnCourse
<1>7. CacheInBounds
  <2>1. \A i \in Hosts : IsFiniteSet(EvictersOf(i))
    BY EmbeddingAssumption, FS_Subset DEF EvictersOf
  <2>2. \A i \in Hosts : Cardinality(EvictersOf(i)) \in Nat /\ Len(cache[i]) = 0
    BY <2>1, FS_CardinalityType
  <2> QED
    BY <2>2, EmbeddingAssumption DEF CacheInBounds
<1> QED
  BY <1>2, <1>3, <1>4, <1>5, <1>6, <1>7 DEF EmbeddingInv

(* The room an instance's cache has while threads are about to evict.        *)
LEMMA EvictersCount ==
  ASSUME NEW i \in Hosts
  PROVE  IsFiniteSet(EvictersOf(i)) /\ Cardinality(EvictersOf(i)) \in Nat
BY EmbeddingAssumption, FS_Subset, FS_CardinalityType DEF EvictersOf

(* A step of one thread.                                                     *)
LEMMA MovedWriter ==
  ASSUME EmbeddingTypes, NEW t \in Threads, NEW w \in Writers,
         threads' = [threads EXCEPT ![t] = w]
  PROVE  /\ threads' \in [Threads -> Writers] /\ threads'[t] = w
         /\ \A u \in Threads \ {t} : threads'[u] = threads[u]
         /\ \A i \in Hosts \ {HostOf[t]} : EvictersOf(i)' = EvictersOf(i)
         /\ (w.pc = "evict") = (threads[t].pc = "evict") =>
              EvictersOf(HostOf[t])' = EvictersOf(HostOf[t])
         /\ w.pc = "evict" => EvictersOf(HostOf[t])' = EvictersOf(HostOf[t]) \cup {t}
         /\ w.pc # "evict" => EvictersOf(HostOf[t])' = EvictersOf(HostOf[t]) \ {t}
<1>1. /\ threads' \in [Threads -> Writers] /\ threads'[t] = w
      /\ \A u \in Threads \ {t} : threads'[u] = threads[u]
  BY DEF EmbeddingTypes
<1>2. \A i : EvictersOf(i)' = {u \in Threads : HostOf[u] = i /\ threads'[u].pc = "evict"}
  BY DEF EvictersOf
<1>3. \A i \in Hosts \ {HostOf[t]} : EvictersOf(i)' = EvictersOf(i)
  BY <1>1, <1>2 DEF EvictersOf
<1>4. w.pc = "evict" => EvictersOf(HostOf[t])' = EvictersOf(HostOf[t]) \cup {t}
  BY <1>1, <1>2 DEF EvictersOf
<1>5. w.pc # "evict" => EvictersOf(HostOf[t])' = EvictersOf(HostOf[t]) \ {t}
  BY <1>1, <1>2 DEF EvictersOf
<1>6. threads[t].pc = "evict" <=> t \in EvictersOf(HostOf[t])
  BY DEF EvictersOf
<1> QED
  BY <1>1, <1>3, <1>4, <1>5, <1>6

(* Steps that leave the texts and the migration alone.                       *)
LEMMA CorpusKept ==
  ASSUME EmbeddingInv, UNCHANGED <<docs, migration, storedLate>>
  PROVE  StampsTrue' /\ MigrationOnCourse'
<1>1. \A x : StaleText(x)' <=> StaleText(x)
  BY DEF StaleText
<1> QED
  BY <1>1 DEF EmbeddingInv, StampsTrue, MigrationOnCourse

(* A thread goes on, without eviction, over caches as they are.              *)
LEMMA WriterMoves ==
  ASSUME EmbeddingInv, NEW t \in Threads, NEW w \in Writers,
         threads' = [threads EXCEPT ![t] = w], UNCHANGED <<cache, sharedCache, embedder>>,
         threads[t].pc # "evict", w.pc # "evict",
         w.pc # "idle" => w.text \in Passages,
         w.pc \in {"bump", "insert"} => w.made = embedder[HostOf[t]]
  PROVE  EntriesTrue' /\ AtHandTrue' /\ CacheInBounds'
<1>1. /\ threads'[t] = w /\ \A u \in Threads \ {t} : threads'[u] = threads[u]
      /\ \A i \in Hosts : EvictersOf(i)' = EvictersOf(i)
  BY MovedWriter DEF EmbeddingInv
<1>2. EntriesTrue'
  BY DEF EmbeddingInv, EntriesTrue
<1>3. AtHandTrue'
  BY <1>1 DEF EmbeddingInv, AtHandTrue
<1>4. CacheInBounds'
  BY <1>1 DEF EmbeddingInv, CacheInBounds
<1> QED
  BY <1>2, <1>3, <1>4

LEMMA LookupStep ==
  ASSUME EmbeddingInv, NEW t \in Threads, NEW x \in Passages, Lookup(t, x)
  PROVE  EmbeddingInv'
<1> DEFINE i == HostOf[t]
           key == CacheKey(x, embedder[i])
<1>1. /\ i \in Hosts /\ embedder[i] \in Models /\ key[2] = embedder[i] /\ EmbeddingTypes
      /\ threads[t].pc = "idle"
  BY DEF Hosts, EmbeddingInv, EmbeddingTypes, CacheKey, Lookup
<1>2. UNCHANGED <<docs, migration, storedLate, cache, sharedCache, embedder>>
  BY DEF Lookup, corpusVars
<1>3. \A e : e \in (IF cacheBackend = "local" THEN ToSet(cache[i]) ELSE sharedCache)
              /\ e.key = key => e.made = embedder[i]
  BY <1>1 DEF EmbeddingInv, EntriesTrue, ToSet
<1>4. PICK w \in Writers :
        /\ threads' = [threads EXCEPT ![t] = w] /\ w.text = x
        /\ w.pc \in {"bump", "insert", "embed"}
        /\ w.pc \in {"bump", "insert"} => w.made = embedder[i]
  <2>1. ASSUME NEW e \in (IF cacheBackend = "local" THEN ToSet(cache[i]) ELSE sharedCache),
               e.key = key,
               threads' = [threads EXCEPT ![t] =
                 [pc |-> IF cacheBackend = "local" THEN "bump" ELSE "insert", text |-> x, made |-> e.made]]
        PROVE  \E w \in Writers :
                 /\ threads' = [threads EXCEPT ![t] = w] /\ w.text = x
                 /\ w.pc \in {"bump", "insert", "embed"}
                 /\ w.pc \in {"bump", "insert"} => w.made = embedder[i]
    <3> DEFINE w == [pc |-> IF cacheBackend = "local" THEN "bump" ELSE "insert", text |-> x, made |-> e.made]
    <3>1. e.made = embedder[i]
      BY <1>3, <2>1
    <3>2. /\ w \in Writers /\ w.text = x /\ w.made = embedder[i]
          /\ w.pc \in {"bump", "insert"}
      BY <1>1, <3>1 DEF Writers, WriterStages, EmbeddingVersions
    <3>3. threads' = [threads EXCEPT ![t] = w]
      BY <2>1
    <3> HIDE DEF w
    <3> QED
      BY <3>2, <3>3
  <2>2. ASSUME threads' = [threads EXCEPT ![t] = [pc |-> "embed", text |-> x, made |-> NoVersion]]
        PROVE  \E w \in Writers :
                 /\ threads' = [threads EXCEPT ![t] = w] /\ w.text = x
                 /\ w.pc \in {"bump", "insert", "embed"}
                 /\ w.pc \in {"bump", "insert"} => w.made = embedder[i]
    <3> DEFINE w == [pc |-> "embed", text |-> x, made |-> NoVersion]
    <3>1. w \in Writers /\ w.text = x /\ w.pc = "embed"
      BY DEF Writers, WriterStages, EmbeddingVersions
    <3>2. threads' = [threads EXCEPT ![t] = w]
      BY <2>2
    <3> HIDE DEF w
    <3> QED
      BY <3>1, <3>2
  <2> HIDE DEF i, key
  <2> QED
    BY <2>1, <2>2 DEF Lookup, i, key
<1>5. EntriesTrue' /\ AtHandTrue' /\ CacheInBounds'
  BY <1>1, <1>2, <1>4, WriterMoves
<1>6. threads' \in [Threads -> Writers]
  BY <1>1, <1>4, MovedWriter
<1>7. EmbeddingTypes'
  BY <1>1, <1>2, <1>6 DEF EmbeddingTypes
<1> QED
  BY <1>2, <1>5, <1>7, CorpusKept DEF EmbeddingInv

(* Moving an entry to the end keeps the entries.                             *)
LEMMA MovedToEnd ==
  \A s \in Seq(Entries) : \A n \in DOMAIN s : \A moved :
    moved = Append(RemoveAt(s, n), s[n]) =>
      /\ moved \in Seq(Entries) /\ Len(moved) = Len(s)
      /\ \A k \in DOMAIN moved : \E m \in DOMAIN s : moved[k] = s[m]
<1> TAKE s \in Seq(Entries)
<1> TAKE n \in DOMAIN s
<1> TAKE moved
<1> HAVE moved = Append(RemoveAt(s, n), s[n])
<1>1. PICK len \in Nat : len = Len(s) /\ DOMAIN s = 1..len
  OBVIOUS
<1>2. n \in 1..len /\ s[n] \in Entries
  BY <1>1
<1> DEFINE front == SubSeq(s, 1, n - 1)
           back == SubSeq(s, n + 1, len)
<1>3. /\ front \in Seq(Entries) /\ Len(front) = n - 1 /\ \A k \in 1..(n - 1) : front[k] = s[k]
  BY <1>1, <1>2
<1>4. /\ back \in Seq(Entries) /\ Len(back) = len - n /\ \A k \in 1..(len - n) : back[k] = s[n + k]
  <2>1. n + 1 \in Int /\ len \in Int /\ \A i \in (n + 1)..len : s[i] \in Entries
    BY <1>1, <1>2
  <2>2. /\ back \in Seq(Entries) /\ Len(back) = IF n + 1 <= len THEN len - (n + 1) + 1 ELSE 0
        /\ \A k \in 1..(len - (n + 1) + 1) : back[k] = s[n + 1 + k - 1]
    BY <2>1, SubSeqProperties
  <2>3. /\ (IF n + 1 <= len THEN len - (n + 1) + 1 ELSE 0) = len - n /\ len - (n + 1) + 1 = len - n
        /\ \A k \in 1..(len - n) : n + 1 + k - 1 = n + k
    BY <1>2
  <2> HIDE DEF back
  <2> QED
    BY <2>2, <2>3
<1>5. RemoveAt(s, n) = front \o back
  BY <1>1 DEF RemoveAt
<1> HIDE DEF front, back
<1>6. PICK rest \in Seq(Entries) :
        /\ rest = RemoveAt(s, n) /\ Len(rest) = len - 1
        /\ \A k \in 1..(len - 1) : rest[k] = IF k <= n - 1 THEN front[k] ELSE back[k - (n - 1)]
  <2>1. /\ front \o back \in Seq(Entries)
        /\ Len(front \o back) = Len(front) + Len(back)
        /\ \A k \in 1..(Len(front) + Len(back)) : (front \o back)[k] =
             IF k <= Len(front) THEN front[k] ELSE back[k - Len(front)]
    BY <1>3, <1>4, ConcatProperties
  <2>2. Len(front) + Len(back) = len - 1
    BY <1>2, <1>3, <1>4
  <2> QED
    BY <1>3, <1>5, <2>1, <2>2
<1>7. ASSUME NEW k \in 1..(len - 1) PROVE \E m \in 1..len : rest[k] = s[m]
  <2>1. CASE k <= n - 1
    BY <2>1, <1>2, <1>3, <1>6
  <2>2. CASE ~(k <= n - 1)
    <3>1. /\ k - (n - 1) \in 1..(len - n) /\ n + (k - (n - 1)) = k + 1
          /\ k + 1 \in 1..len
      BY <2>2, <1>2
    <3> QED
      BY <2>2, <3>1, <1>4, <1>6
  <2> QED
    BY <2>1, <2>2
<1>8. /\ moved \in Seq(Entries) /\ Len(moved) = len
      /\ \A k \in 1..(len - 1) : moved[k] = rest[k]
      /\ moved[len] = s[n]
  <2>1. /\ Append(rest, s[n]) \in Seq(Entries) /\ Len(Append(rest, s[n])) = Len(rest) + 1
        /\ \A k \in 1..Len(rest) : Append(rest, s[n])[k] = rest[k]
        /\ Append(rest, s[n])[Len(rest) + 1] = s[n]
    BY <1>2, AppendProperties
  <2> QED
    BY <1>2, <1>6, <2>1
<1>9. ASSUME NEW k \in 1..len PROVE \E m \in DOMAIN s : moved[k] = s[m]
  <2>1. CASE k = len
    BY <2>1, <1>8
  <2>2. CASE k # len
    <3>1. k \in 1..(len - 1)
      BY <2>2
    <3> QED
      BY <3>1, <1>1, <1>7, <1>8
  <2> QED
    BY <2>1, <2>2
<1>10. DOMAIN moved = 1..len
  BY <1>8
<1> QED
  BY <1>1, <1>8, <1>9, <1>10

LEMMA BumpStep ==
  ASSUME EmbeddingInv, NEW t \in Threads, Bump(t)
  PROVE  EmbeddingInv'
<1> DEFINE i == HostOf[t]
<1>1. /\ i \in Hosts /\ embedder[i] \in Models /\ EmbeddingTypes /\ cache[i] \in Seq(Entries)
      /\ threads[t].pc = "bump" /\ threads[t] \in Writers
      /\ threads[t].text \in Passages /\ threads[t].made = embedder[i]
  BY DEF Hosts, EmbeddingInv, EmbeddingTypes, AtHandTrue, Bump
<1>2. UNCHANGED <<docs, migration, storedLate, sharedCache, embedder>>
  BY DEF Bump, corpusVars
<1>3. CASE threads' = [threads EXCEPT ![t] = Resting] /\ cache' = cache
  <2>1. EntriesTrue' /\ AtHandTrue' /\ CacheInBounds'
    BY <1>1, <1>2, <1>3, WriterMoves, RestingWriter
  <2>2. EmbeddingTypes'
    BY <1>1, <1>2, <1>3, MovedWriter, RestingWriter DEF EmbeddingTypes
  <2> QED
    BY <1>2, <2>1, <2>2, CorpusKept DEF EmbeddingInv
<1>4. ASSUME NEW n \in DOMAIN cache[i],
             threads' = [threads EXCEPT ![t].pc = "insert"],
             cache' = [cache EXCEPT ![i] = Append(RemoveAt(cache[i], n), cache[i][n])]
      PROVE  EmbeddingInv'
  <2>1. PICK w \in Writers : /\ threads' = [threads EXCEPT ![t] = w] /\ w.pc = "insert"
                            /\ w.text = threads[t].text /\ w.made = threads[t].made
    <3> DEFINE w == [threads[t] EXCEPT !.pc = "insert"]
    <3>1. threads' = [threads EXCEPT ![t] = w]
      BY <1>4 DEF EmbeddingTypes
    <3>2. w \in Writers /\ w.pc = "insert" /\ w.text = threads[t].text /\ w.made = threads[t].made
      BY <1>1 DEF Writers, WriterStages
    <3> HIDE DEF w
    <3> QED
      BY <3>1, <3>2
  <2>2. PICK moved \in Seq(Entries) :
          /\ moved = Append(RemoveAt(cache[i], n), cache[i][n]) /\ Len(moved) = Len(cache[i])
          /\ \A k \in DOMAIN moved : \E m \in DOMAIN cache[i] : moved[k] = cache[i][m]
    <3>1. PICK moved : moved = Append(RemoveAt(cache[i], n), cache[i][n])
      OBVIOUS
    <3> HIDE DEF i
    <3> QED
      <4>1. cache[i] \in Seq(Entries) /\ n \in DOMAIN cache[i]
        BY <1>1, <1>4
      <4>2. /\ moved \in Seq(Entries) /\ Len(moved) = Len(cache[i])
            /\ \A k \in DOMAIN moved : \E m \in DOMAIN cache[i] : moved[k] = cache[i][m]
        <5>1. PICK s \in Seq(Entries) : s = cache[i] /\ n \in DOMAIN s
          BY <4>1
        <5>2. moved = Append(RemoveAt(s, n), s[n])
          BY <3>1, <5>1
        <5>3. /\ moved \in Seq(Entries) /\ Len(moved) = Len(s)
              /\ \A k \in DOMAIN moved : \E m \in DOMAIN s : moved[k] = s[m]
          <6>1. \A p \in DOMAIN s : \A x : x = Append(RemoveAt(s, p), s[p]) =>
                   /\ x \in Seq(Entries) /\ Len(x) = Len(s)
                   /\ \A k \in DOMAIN x : \E m \in DOMAIN s : x[k] = s[m]
            BY MovedToEnd
          <6>2. \A x : x = Append(RemoveAt(s, n), s[n]) =>
                   /\ x \in Seq(Entries) /\ Len(x) = Len(s)
                   /\ \A k \in DOMAIN x : \E m \in DOMAIN s : x[k] = s[m]
            BY <5>1, <6>1
          <6> QED
            BY <6>2, <5>2
        <5> QED
          BY <5>1, <5>3
      <4> QED
        BY <3>1, <4>2
  <2>3. /\ cache' \in [Hosts -> Seq(Entries)] /\ cache'[i] = moved
        /\ \A j \in Hosts \ {i} : cache'[j] = cache[j]
    BY <1>1, <1>4, <2>2 DEF EmbeddingTypes
  <2>4. /\ threads' \in [Threads -> Writers] /\ threads'[t] = w
        /\ \A u \in Threads \ {t} : threads'[u] = threads[u]
        /\ \A j \in Hosts : EvictersOf(j)' = EvictersOf(j)
    BY <1>1, <2>1, MovedWriter
  <2>5. EmbeddingTypes'
    BY <1>1, <1>2, <2>3, <2>4 DEF EmbeddingTypes
  <2>6. EntriesTrue'
    <3>1. \A k \in DOMAIN moved : moved[k].made = moved[k].key[2]
      BY <1>1, <2>2 DEF EmbeddingInv, EntriesTrue
    <3> QED
      BY <1>2, <2>3, <3>1 DEF EmbeddingInv, EntriesTrue
  <2>7. AtHandTrue'
    BY <1>1, <1>2, <2>1, <2>4 DEF EmbeddingInv, AtHandTrue
  <2>8. CacheInBounds'
    <3>1. \A j \in Hosts : Len(cache'[j]) = Len(cache[j])
      BY <2>2, <2>3
    <3> QED
      BY <2>4, <3>1 DEF EmbeddingInv, CacheInBounds
  <2> QED
    BY <1>2, <2>5, <2>6, <2>7, <2>8, CorpusKept DEF EmbeddingInv
<1> QED
  BY <1>3, <1>4 DEF Bump

LEMMA EmbedStep ==
  ASSUME EmbeddingInv, NEW t \in Threads, Embed(t)
  PROVE  EmbeddingInv'
<1> DEFINE i == HostOf[t]
<1>1. /\ i \in Hosts /\ EmbeddingTypes /\ cache[i] \in Seq(Entries)
      /\ threads[t].pc = "embed" /\ threads[t].text \in Passages
  BY DEF Hosts, EmbeddingInv, EmbeddingTypes, AtHandTrue, Embed
<1>2. PICK made \in Models : made = embedder[i]
  BY <1>1 DEF EmbeddingTypes
<1>3. PICK entry \in Entries : entry = Entry(KeyIn(t), made) /\ entry.made = entry.key[2]
  <2> DEFINE entry == [key |-> <<threads[t].text, made>>, made |-> made]
  <2>1. entry \in Entries
    BY <1>1 DEF Entries
  <2>2. entry.made = made /\ entry.key = <<threads[t].text, made>>
    OBVIOUS
  <2>3. entry = Entry(KeyIn(t), made)
    BY <1>2 DEF Entry, KeyIn, CacheKey
  <2> HIDE DEF entry
  <2> QED
    BY <2>1, <2>2, <2>3
<1>4. UNCHANGED <<docs, migration, storedLate, embedder>>
  BY DEF Embed, corpusVars
<1>5. PICK w \in Writers :
        /\ threads' = [threads EXCEPT ![t] = w] /\ w.text \in Passages /\ w.made = made
        /\ w.pc = IF cacheBackend = "local" THEN "evict" ELSE "insert"
  <2> DEFINE w == [pc |-> IF cacheBackend = "local" THEN "evict" ELSE "insert",
                   text |-> threads[t].text, made |-> made]
  <2>1. threads' = [threads EXCEPT ![t] = w]
    BY <1>2 DEF Embed
  <2>2. /\ w \in Writers /\ w.text \in Passages /\ w.made = made
        /\ w.pc = IF cacheBackend = "local" THEN "evict" ELSE "insert"
    BY <1>1 DEF Writers, WriterStages, EmbeddingVersions
  <2> HIDE DEF w
  <2> QED
    BY <2>1, <2>2
<1>6. /\ threads' \in [Threads -> Writers] /\ threads'[t] = w
      /\ \A u \in Threads \ {t} : threads'[u] = threads[u]
      /\ \A j \in Hosts \ {i} : EvictersOf(j)' = EvictersOf(j)
      /\ w.pc = "evict" => EvictersOf(i)' = EvictersOf(i) \cup {t}
      /\ w.pc # "evict" => EvictersOf(i)' = EvictersOf(i)
  BY <1>1, <1>5, MovedWriter
<1>7. AtHandTrue'
  BY <1>2, <1>4, <1>5, <1>6 DEF EmbeddingInv, AtHandTrue
<1>14. PICK s \in Seq(Entries) : s = cache[i] /\ Len(s) \in Nat /\ DOMAIN s = 1..Len(s)
  BY <1>1
<1>8. PICK after \in Seq(Entries) :
        /\ cache' = [cache EXCEPT ![i] = after]
        /\ \A n \in DOMAIN after : after[n] = entry \/ \E m \in DOMAIN s : after[n] = s[m]
        /\ Len(after) <= IF w.pc = "evict" THEN Len(s) + 1 ELSE Len(s)
  <2>1. CASE cache' = cache
    <3>1. cache' = [cache EXCEPT ![i] = s]
      BY <1>1, <1>14, <2>1 DEF EmbeddingTypes
    <3>2. Len(s) <= IF w.pc = "evict" THEN Len(s) + 1 ELSE Len(s)
      BY <1>14
    <3> QED
      BY <3>1, <3>2
  <2>2. CASE w.pc = "evict" /\ cache' = [cache EXCEPT ![i] = Append(s, entry)]
    <3>1. PICK after \in Seq(Entries) :
            /\ after = Append(s, entry) /\ Len(after) = Len(s) + 1
            /\ DOMAIN after = 1..(Len(s) + 1)
            /\ \A n \in 1..Len(s) : after[n] = s[n]
            /\ after[Len(s) + 1] = entry
      <4>1. /\ Append(s, entry) \in Seq(Entries) /\ Len(Append(s, entry)) = Len(s) + 1
            /\ \A n \in 1..Len(s) : Append(s, entry)[n] = s[n]
            /\ Append(s, entry)[Len(s) + 1] = entry
        BY AppendProperties
      <4>2. DOMAIN Append(s, entry) = 1..(Len(s) + 1)
        BY <4>1, LenProperties
      <4> QED
        BY <4>1, <4>2
    <3>2. \A n \in DOMAIN after : after[n] = entry \/ \E m \in DOMAIN s : after[n] = s[m]
      <4> TAKE n \in DOMAIN after
      <4>1. n \in 1..Len(s) \/ n = Len(s) + 1
        BY <1>14, <3>1
      <4> QED
        BY <1>14, <3>1, <4>1
    <3>3. Len(after) <= IF w.pc = "evict" THEN Len(s) + 1 ELSE Len(s)
      BY <1>14, <2>2, <3>1
    <3> QED
      BY <2>2, <3>1, <3>2, <3>3
  <2>3. cache' = cache \/ (w.pc = "evict" /\ cache' = [cache EXCEPT ![i] = Append(s, entry)])
    <3>1. CASE cacheBackend = "local"
      <4>1. cache' = [cache EXCEPT ![i] =
              IF \E e \in ToSet(cache[i]) : e.key = KeyIn(t) THEN cache[i] ELSE Append(s, entry)]
        BY <1>2, <1>3, <1>14, <3>1 DEF Embed
      <4>2. cache = [cache EXCEPT ![i] = cache[i]]
        BY <1>1 DEF EmbeddingTypes
      <4> QED
        BY <1>5, <3>1, <4>1, <4>2
    <3>2. CASE cacheBackend # "local"
      BY <3>2 DEF Embed
    <3> QED
      BY <3>1, <3>2
  <2> QED
    BY <2>1, <2>2, <2>3
<1>9. /\ cache' \in [Hosts -> Seq(Entries)] /\ cache'[i] = after
      /\ \A j \in Hosts \ {i} : cache'[j] = cache[j]
  BY <1>1, <1>8 DEF EmbeddingTypes
<1>10. sharedCache' \subseteq sharedCache \cup {entry}
  BY <1>2, <1>3 DEF Embed
<1>11. EmbeddingTypes'
  BY <1>1, <1>4, <1>6, <1>9, <1>10 DEF EmbeddingTypes
<1>12. EntriesTrue'
  <2>1. \A n \in DOMAIN after : after[n].made = after[n].key[2]
    <3>1. \A m \in DOMAIN s : s[m].made = s[m].key[2]
      BY <1>1, <1>14 DEF EmbeddingInv, EntriesTrue
    <3>2. entry.made = entry.key[2]
      BY <1>3
    <3> QED
      BY <1>8, <3>1, <3>2
  <2>2. \A e \in sharedCache' : e.made = e.key[2]
    BY <1>3, <1>10 DEF EmbeddingInv, EntriesTrue
  <2> QED
    BY <1>9, <2>1, <2>2 DEF EmbeddingInv, EntriesTrue
<1>13. CacheInBounds'
  <2>1. /\ IsFiniteSet(EvictersOf(i)) /\ Cardinality(EvictersOf(i)) \in Nat
        /\ Len(s) <= CacheSize + Cardinality(EvictersOf(i))
        /\ Len(after) \in Nat /\ CacheSize \in Nat
    BY <1>1, <1>14, EvictersCount, EmbeddingAssumption DEF EmbeddingInv, CacheInBounds
  <2>2. t \notin EvictersOf(i)
    BY <1>1 DEF EvictersOf
  <2>3. Cardinality(EvictersOf(i) \cup {t}) = Cardinality(EvictersOf(i)) + 1
    BY <2>1, <2>2, FS_AddElement
  <2>4. Len(after) <= CacheSize + Cardinality(EvictersOf(i)')
    <3>1. CASE w.pc = "evict"
      <4>1. Cardinality(EvictersOf(i)') = Cardinality(EvictersOf(i)) + 1
        BY <3>1, <1>6, <2>3
      <4>2. Len(after) <= Len(s) + 1
        BY <3>1, <1>8
      <4> QED
        BY <4>1, <4>2, <1>14, <2>1
    <3>2. CASE w.pc # "evict"
      BY <3>2, <1>6, <1>8, <1>14, <2>1
    <3> QED
      BY <3>1, <3>2
  <2> QED
    BY <1>6, <1>9, <2>4 DEF EmbeddingInv, CacheInBounds
<1> QED
  BY <1>4, <1>7, <1>11, <1>12, <1>13, CorpusKept DEF EmbeddingInv

LEMMA EvictStep ==
  ASSUME EmbeddingInv, NEW t \in Threads, Evict(t)
  PROVE  EmbeddingInv'
<1> DEFINE i == HostOf[t]
<1>1. /\ i \in Hosts /\ EmbeddingTypes /\ cache[i] \in Seq(Entries)
      /\ threads[t].pc = "evict" /\ threads[t] \in Writers
      /\ threads[t].text \in Passages /\ threads[t].made = embedder[i]
  BY DEF Hosts, EmbeddingInv, EmbeddingTypes, AtHandTrue, Evict
<1>2. UNCHANGED <<docs, migration, storedLate, embedder, sharedCache>>
  BY DEF Evict, corpusVars
<1>3. PICK w \in Writers : /\ threads' = [threads EXCEPT ![t] = w] /\ w.pc = "insert"
                          /\ w.text = threads[t].text /\ w.made = threads[t].made
  <2> DEFINE w == [threads[t] EXCEPT !.pc = "insert"]
  <2>1. threads' = [threads EXCEPT ![t] = w]
    BY <1>1 DEF EmbeddingTypes, Evict
  <2>2. w \in Writers /\ w.pc = "insert" /\ w.text = threads[t].text /\ w.made = threads[t].made
    BY <1>1 DEF Writers, WriterStages
  <2> HIDE DEF w
  <2> QED
    BY <2>1, <2>2
<1>4. /\ threads' \in [Threads -> Writers] /\ threads'[t] = w
      /\ \A u \in Threads \ {t} : threads'[u] = threads[u]
      /\ \A j \in Hosts \ {i} : EvictersOf(j)' = EvictersOf(j)
      /\ EvictersOf(i)' = EvictersOf(i) \ {t}
  BY <1>1, <1>3, MovedWriter
<1>5. PICK s \in Seq(Entries) : s = cache[i] /\ Len(s) \in Nat /\ DOMAIN s = 1..Len(s)
  BY <1>1
<1>6. PICK after \in Seq(Entries) :
        /\ cache' = [cache EXCEPT ![i] = after]
        /\ \A n \in DOMAIN after : \E m \in DOMAIN s : after[n] = s[m]
        /\ Len(after) = IF Len(s) > CacheSize THEN Len(s) - 1 ELSE Len(s)
  <2>1. CASE Len(s) > CacheSize
    <3>1. s # <<>>
      BY <1>5, <2>1, EmbeddingAssumption
    <3>2. /\ Tail(s) \in Seq(Entries) /\ Len(Tail(s)) = Len(s) - 1
          /\ \A n \in 1..Len(Tail(s)) : Tail(s)[n] = s[n + 1]
          /\ DOMAIN Tail(s) = 1..Len(Tail(s))
      BY <3>1, HeadTailProperties, LenProperties
    <3>3. \A n \in DOMAIN Tail(s) : n + 1 \in DOMAIN s
      BY <1>5, <3>2
    <3>4. cache' = [cache EXCEPT ![i] = Tail(s)]
      BY <1>5, <2>1 DEF Evict
    <3> QED
      BY <2>1, <3>2, <3>3, <3>4
  <2>2. CASE ~(Len(s) > CacheSize)
    <3>1. cache' = [cache EXCEPT ![i] = s]
      BY <1>5, <2>2 DEF Evict
    <3> QED
      BY <1>5, <2>2, <3>1
  <2> QED
    BY <2>1, <2>2
<1>7. /\ cache' \in [Hosts -> Seq(Entries)] /\ cache'[i] = after
      /\ \A j \in Hosts \ {i} : cache'[j] = cache[j]
  BY <1>1, <1>6 DEF EmbeddingTypes
<1>8. EmbeddingTypes'
  BY <1>1, <1>2, <1>4, <1>7 DEF EmbeddingTypes
<1>9. AtHandTrue'
  BY <1>1, <1>2, <1>3, <1>4 DEF EmbeddingInv, AtHandTrue
<1>10. EntriesTrue'
  <2>1. \A n \in DOMAIN after : after[n].made = after[n].key[2]
    BY <1>1, <1>5, <1>6 DEF EmbeddingInv, EntriesTrue
  <2> QED
    BY <1>2, <1>7, <2>1 DEF EmbeddingInv, EntriesTrue
<1>11. CacheInBounds'
  <2>1. /\ IsFiniteSet(EvictersOf(i)) /\ Cardinality(EvictersOf(i)) \in Nat
        /\ Len(s) <= CacheSize + Cardinality(EvictersOf(i)) /\ CacheSize \in Nat
    BY <1>1, <1>5, EvictersCount, EmbeddingAssumption DEF EmbeddingInv, CacheInBounds
  <2>4. t \in EvictersOf(i)
    BY <1>1 DEF EvictersOf
  <2>2. /\ Cardinality(EvictersOf(i) \ {t}) = Cardinality(EvictersOf(i)) - 1
        /\ Cardinality(EvictersOf(i) \ {t}) \in Nat
    BY <2>1, <2>4, FS_RemoveElement, FS_CardinalityType
  <2>3. Len(after) <= CacheSize + Cardinality(EvictersOf(i) \ {t})
    BY <1>5, <1>6, <2>1, <2>2
  <2> QED
    BY <1>4, <1>7, <2>3 DEF EmbeddingInv, CacheInBounds
<1> QED
  BY <1>2, <1>8, <1>9, <1>10, <1>11, CorpusKept DEF EmbeddingInv

LEMMA KindTexts == \A j \in {1, 2} : \A x \in Kinds[j] : x \in Passages
BY TextKinds

(* A step after which no more texts are stale keeps the migration on course. *)
LEMMA FewerStale ==
  ASSUME EmbeddingInv, UNCHANGED migration, \A x \in Passages : StaleText(x)' => StaleText(x)
  PROVE  MigrationOnCourse'
<1>1. migration.kind \in 0..2
  BY DEF EmbeddingInv, EmbeddingTypes, EmbeddingMigrations
<1>2. \A j \in 1..migration.kind : j \in {1, 2}
  BY <1>1
<1>3. \A j \in {1, 2} : \A x \in Kinds[j] : StaleText(x)' => StaleText(x)
  BY KindTexts
<1> QED
  BY <1>2, <1>3 DEF EmbeddingInv, MigrationOnCourse

LEMMA HostsKept ==
  ASSUME EmbeddingInv, UNCHANGED <<cache, sharedCache, embedder, threads>>
  PROVE  EntriesTrue' /\ AtHandTrue' /\ CacheInBounds'
<1>1. \A i : EvictersOf(i)' = EvictersOf(i)
  BY DEF EvictersOf
<1> QED
  BY <1>1 DEF EmbeddingInv, EntriesTrue, AtHandTrue, CacheInBounds

LEMMA VectorMade ==
  ASSUME NEW v \in EmbeddingVersions
  PROVE  \E made \in Vectors : made = [made |-> v, stamp |-> v] /\ made.made = v /\ made.stamp = v
<1> DEFINE vector == [made |-> v, stamp |-> v]
<1>1. vector \in Vectors /\ vector.made = v /\ vector.stamp = v
  BY DEF Vectors
<1> QED
  BY <1>1

LEMMA InsertStep ==
  ASSUME EmbeddingInv, NEW t \in Threads, Insert(t)
  PROVE  EmbeddingInv'
<1>1. /\ HostOf[t] \in Hosts /\ EmbeddingTypes /\ StampsTrue
      /\ threads[t].pc = "insert" /\ threads[t].made = embedder[HostOf[t]]
  BY DEF Hosts, EmbeddingInv, AtHandTrue, Insert
<1>2. PICK x \in Passages : x = threads[t].text
  BY <1>1 DEF EmbeddingInv, AtHandTrue
<1>3. PICK version \in Models : version = embedder[HostOf[t]]
  BY <1>1 DEF EmbeddingTypes
<1>4. PICK stored \in Vectors : /\ stored = [made |-> threads[t].made, stamp |-> version]
                               /\ stored.made = version /\ stored.stamp = version
  <2>1. threads[t].made = version /\ version \in EmbeddingVersions
    BY <1>1, <1>3 DEF EmbeddingVersions
  <2> QED
    BY <2>1, VectorMade
<1>5. /\ threads' = [threads EXCEPT ![t] = Resting]
      /\ UNCHANGED <<embedder, cache, sharedCache, migration>>
  BY DEF Insert
<1>6. EntriesTrue' /\ AtHandTrue' /\ CacheInBounds'
  BY <1>1, <1>5, WriterMoves, RestingWriter
<1>7. CASE docs[x] = Absent
  <2>1. /\ docs' = [docs EXCEPT ![x] = stored]
        /\ storedLate' = IF version # migration.version THEN storedLate \cup {x} ELSE storedLate
    BY <1>2, <1>3, <1>4, <1>7 DEF Insert
  <2>2. /\ docs' \in [Passages -> Vectors] /\ docs'[x] = stored
        /\ \A y \in Passages \ {x} : docs'[y] = docs[y]
    BY <1>1, <2>1 DEF EmbeddingTypes
  <2>3. EmbeddingTypes'
    <3>1. threads' \in [Threads -> Writers]
      BY <1>1, <1>5, MovedWriter, RestingWriter
    <3> QED
      BY <1>1, <1>5, <2>1, <2>2, <3>1 DEF EmbeddingTypes
  <2>4. StampsTrue'
    BY <1>1, <1>4, <2>2 DEF StampsTrue
  <2>5. \A y \in Passages : StaleText(y)' => StaleText(y)
    BY <1>4, <1>5, <2>1, <2>2 DEF StaleText
  <2>6. MigrationOnCourse'
    BY <1>5, <2>5, FewerStale
  <2> QED
    BY <1>6, <2>3, <2>4, <2>6 DEF EmbeddingInv
<1>8. CASE docs[x] # Absent
  <2>1. UNCHANGED <<docs, storedLate>>
    BY <1>2, <1>8 DEF Insert
  <2>2. EmbeddingTypes'
    BY <1>1, <1>5, <2>1, MovedWriter, RestingWriter DEF EmbeddingTypes
  <2> QED
    BY <1>5, <1>6, <2>1, <2>2, CorpusKept DEF EmbeddingInv
<1> QED
  BY <1>7, <1>8

LEMMA ReconfigureStep ==
  ASSUME EmbeddingInv, NEW i \in Hosts, NEW version \in Models, Reconfigure(i, version)
  PROVE  EmbeddingInv'
<1>1. /\ UNCHANGED <<docs, migration, storedLate, sharedCache>>
      /\ embedder' = [embedder EXCEPT ![i] = version] /\ cache' = [cache EXCEPT ![i] = <<>>]
      /\ threads' = [t \in Threads |-> IF HostOf[t] = i THEN Resting ELSE threads[t]]
      /\ EmbeddingTypes
  BY DEF Reconfigure, corpusVars, EmbeddingInv
<1>2. /\ threads' \in [Threads -> Writers]
      /\ \A t \in Threads : threads'[t] = IF HostOf[t] = i THEN Resting ELSE threads[t]
  BY <1>1, RestingWriter DEF EmbeddingTypes
<1>3. /\ cache' \in [Hosts -> Seq(Entries)] /\ cache'[i] = <<>>
      /\ \A j \in Hosts \ {i} : cache'[j] = cache[j]
      /\ embedder' \in [Hosts -> Models] /\ \A j \in Hosts \ {i} : embedder'[j] = embedder[j]
  BY <1>1 DEF EmbeddingTypes
<1>4. EmbeddingTypes'
  BY <1>1, <1>2, <1>3 DEF EmbeddingTypes
<1>5. EntriesTrue'
  BY <1>1, <1>3 DEF EmbeddingInv, EntriesTrue
<1>6. AtHandTrue'
  <2> SUFFICES ASSUME NEW t \in Threads
               PROVE  /\ threads'[t].pc # "idle" => threads'[t].text \in Passages
                      /\ threads'[t].pc \in {"bump", "evict", "insert"} =>
                           threads'[t].made = embedder'[HostOf[t]]
    BY DEF AtHandTrue
  <2>1. CASE HostOf[t] = i
    BY <2>1, <1>2, RestingWriter
  <2>2. CASE HostOf[t] # i
    <3>1. HostOf[t] \in Hosts \ {i}
      BY <2>2 DEF Hosts
    <3> QED
      BY <2>2, <3>1, <1>2, <1>3 DEF EmbeddingInv, AtHandTrue
  <2> QED
    BY <2>1, <2>2
<1>7. CacheInBounds'
  <2>1. \A j \in Hosts \ {i} : EvictersOf(j)' = EvictersOf(j)
    BY <1>2 DEF EvictersOf
  <2>2. EvictersOf(i)' = {}
    BY <1>2, RestingWriter DEF EvictersOf
  <2>3. Len(cache'[i]) <= CacheSize + Cardinality(EvictersOf(i)')
    BY <1>3, <2>2, EmbeddingAssumption, FS_EmptySet
  <2> QED
    BY <1>3, <2>1, <2>3 DEF EmbeddingInv, CacheInBounds
<1> QED
  BY <1>1, <1>4, <1>5, <1>6, <1>7, CorpusKept DEF EmbeddingInv

LEMMA ReembedStep ==
  ASSUME EmbeddingInv, NEW x \in Passages, Reembed(x)
  PROVE  EmbeddingInv'
<1>1. /\ EmbeddingTypes /\ migration \in EmbeddingMigrations /\ migration.version \in EmbeddingVersions
      /\ migration.pc = "embed" /\ migration.kind \in {1, 2} /\ migration.todo \in SUBSET Passages
  BY DEF EmbeddingInv, EmbeddingTypes, EmbeddingMigrations, MigrationOnCourse, Reembed
<1>2. PICK fresh \in Vectors : /\ fresh = [made |-> migration.version, stamp |-> migration.version]
                              /\ fresh.made = migration.version /\ fresh.stamp = migration.version
  BY <1>1, VectorMade
<1>3. /\ docs' = [docs EXCEPT ![x] = fresh]
      /\ UNCHANGED <<embedder, cache, sharedCache, threads, storedLate>>
  BY <1>2 DEF Reembed, hostVars
<1>4. /\ docs' \in [Passages -> Vectors] /\ docs'[x] = fresh
      /\ \A y \in Passages \ {x} : docs'[y] = docs[y]
  BY <1>1, <1>3 DEF EmbeddingTypes
<1>5. /\ migration' \in EmbeddingMigrations /\ migration'.pc = "embed"
      /\ migration'.version = migration.version /\ migration'.kind = migration.kind
      /\ migration'.todo = migration.todo \ {x}
  BY <1>1 DEF Reembed, EmbeddingMigrations
<1>6. EmbeddingTypes'
  BY <1>1, <1>3, <1>4, <1>5 DEF EmbeddingTypes
<1>7. StampsTrue'
  BY <1>2, <1>4 DEF EmbeddingInv, StampsTrue
<1>8. \A y \in Passages : StaleText(y)' => StaleText(y) /\ y # x
  BY <1>2, <1>3, <1>4, <1>5 DEF StaleText
<1>9. MigrationOnCourse'
  <2>1. \A j \in 1..migration.kind : j \in {1, 2}
    BY <1>1
  <2>2. \A j \in 1..migration.kind : \A y \in Kinds[j] : StaleText(y)' => y \in migration'.todo
    BY <1>1, <1>5, <1>8, <2>1, KindTexts DEF EmbeddingInv, MigrationOnCourse
  <2> QED
    BY <1>1, <1>5, <2>2 DEF MigrationOnCourse
<1>10. EntriesTrue' /\ AtHandTrue' /\ CacheInBounds'
  BY <1>3, HostsKept
<1> QED
  BY <1>6, <1>7, <1>9, <1>10 DEF EmbeddingInv

LEMMA ReembeddingStep ==
  ASSUME EmbeddingInv,
         (\E v \in Models : StartMigration(v)) \/ NextKind \/ DropIndex \/ RebuildIndex \/ MigrationFails
         \/ ListStale
  PROVE  EmbeddingInv'
<1>1. /\ EmbeddingTypes /\ UNCHANGED <<docs, embedder, cache, sharedCache, threads>>
      /\ migration \in EmbeddingMigrations
  BY DEF EmbeddingInv, EmbeddingTypes, StartMigration, NextKind, DropIndex, RebuildIndex, MigrationFails,
         ListStale, hostVars
<1>2. EntriesTrue' /\ AtHandTrue' /\ CacheInBounds' /\ StampsTrue'
  BY <1>1, HostsKept DEF EmbeddingInv, StampsTrue
<1>3. /\ storedLate' \in SUBSET Passages
      /\ migration' \in EmbeddingMigrations
      /\ MigrationOnCourse'
  <2>1. CASE \E v \in Models : StartMigration(v)
    <3>1. PICK v \in Models : StartMigration(v)
      BY <2>1
    <3>2. /\ storedLate' = {} /\ migration' \in EmbeddingMigrations
          /\ migration'.pc = "list" /\ migration'.kind = 1
      BY <3>1 DEF StartMigration, EmbeddingMigrations, MigrationStages, EmbeddingVersions
    <3> QED
      BY <3>2 DEF MigrationOnCourse
  <2>2. CASE ListStale
    <3> DEFINE found == {x \in Kinds[migration.kind] : docs[x] # Absent /\ docs[x].stamp # migration.version}
    <3>1. migration.pc = "list" /\ migration.kind \in {1, 2} /\ storedLate' \in SUBSET Passages
      BY <1>1, <2>2 DEF ListStale, EmbeddingInv, MigrationOnCourse, EmbeddingTypes
    <3>2. found \in SUBSET Passages
      BY <3>1, KindTexts
    <3>3. /\ migration' \in EmbeddingMigrations /\ migration'.pc = "embed"
          /\ migration'.version = migration.version /\ migration'.kind = migration.kind
          /\ migration'.todo = found
      BY <1>1, <2>2, <3>2 DEF ListStale, EmbeddingMigrations, MigrationStages
    <3>4. \A x \in Kinds[migration.kind] : StaleText(x)' => x \in migration'.todo
      BY <1>1, <3>3 DEF StaleText
    <3>5. migration.kind = 2 => \A x \in Kinds[1] : ~StaleText(x)'
      <4> SUFFICES ASSUME migration.kind = 2, NEW x \in Kinds[1], StaleText(x)' PROVE FALSE
        OBVIOUS
      <4>1. ~StaleText(x) /\ x \notin Kinds[2]
        BY <3>1, TextKinds DEF EmbeddingInv, MigrationOnCourse
      <4>2. storedLate' = storedLate \ Kinds[2]
        BY <2>2 DEF ListStale
      <4> QED
        BY <1>1, <3>3, <4>1, <4>2 DEF StaleText
    <3>6. \A j \in 1..migration.kind : j = migration.kind \/ (j = 1 /\ migration.kind = 2)
      BY <3>1
    <3> QED
      BY <3>1, <3>3, <3>4, <3>5, <3>6 DEF MigrationOnCourse
  <2>3. CASE NextKind
    <3>1. /\ storedLate' = storedLate /\ migration.pc = "embed" /\ migration.todo = {}
          /\ migration.kind \in {1, 2} /\ migration'.version = migration.version
      BY <1>1, <2>3 DEF NextKind, EmbeddingInv, MigrationOnCourse, EmbeddingMigrations
    <3>2. \A j \in 1..migration.kind : \A x \in Kinds[j] : ~StaleText(x)
      BY <3>1 DEF EmbeddingInv, MigrationOnCourse
    <3>3. \A x : StaleText(x)' <=> StaleText(x)
      BY <1>1, <3>1 DEF StaleText
    <3>4. CASE migration.kind = 1
      <4>1. /\ migration' \in EmbeddingMigrations /\ migration'.pc = "list" /\ migration'.kind = 2
        <5>1. migration' = [migration EXCEPT !.pc = "list", !.kind = migration.kind + 1]
          BY <2>3, <3>4, TextKinds DEF NextKind
        <5>2. migration.kind + 1 = 2
          BY <3>4
        <5> QED
          <6>1. migration' = [migration EXCEPT !.pc = "list", !.kind = 2]
            BY <5>1, <5>2
          <6>2. 2 \in 0..2 /\ "list" \in MigrationStages
            BY DEF MigrationStages
          <6> QED
            BY <1>1, <6>1, <6>2 DEF EmbeddingMigrations
      <4> QED
        BY <1>1, <3>1, <3>2, <3>3, <3>4, <4>1 DEF MigrationOnCourse, EmbeddingTypes
    <3>5. CASE migration.kind = 2
      <4>1. migration' \in EmbeddingMigrations /\ migration'.pc = "drop"
        BY <1>1, <2>3, <3>5, TextKinds DEF NextKind, EmbeddingMigrations, MigrationStages
      <4>2. \A x \in Passages : x \in Kinds[1] \/ x \in Kinds[2]
        BY TextKinds
      <4>3. \A x \in Passages : ~StaleText(x)'
        BY <3>2, <3>3, <3>5, <4>2
      <4> QED
        BY <1>1, <3>1, <4>1, <4>3 DEF MigrationOnCourse, EmbeddingTypes
    <3> QED
      BY <3>1, <3>4, <3>5
  <2>4. CASE DropIndex \/ RebuildIndex
    <3>1. /\ storedLate' = storedLate /\ migration.pc \in {"drop", "ensure"}
          /\ migration' \in EmbeddingMigrations /\ migration'.pc \in {"ensure", "done"}
          /\ migration'.version = migration.version
      BY <1>1, <2>4 DEF DropIndex, RebuildIndex, EmbeddingMigrations, MigrationStages
    <3>2. \A x : StaleText(x)' <=> StaleText(x)
      BY <1>1, <3>1 DEF StaleText
    <3>3. \A x \in Passages : ~StaleText(x)'
      BY <3>1, <3>2 DEF EmbeddingInv, MigrationOnCourse
    <3> QED
      BY <1>1, <3>1, <3>3 DEF MigrationOnCourse, EmbeddingTypes
  <2>5. CASE MigrationFails
    <3>1. storedLate' = storedLate /\ migration' = NoMigration
      BY <2>5 DEF MigrationFails
    <3> QED
      BY <1>1, <3>1, IdleMigration DEF MigrationOnCourse, EmbeddingTypes
  <2> QED
    BY <2>1, <2>2, <2>3, <2>4, <2>5
<1>4. EmbeddingTypes'
  BY <1>1, <1>3 DEF EmbeddingTypes
<1> QED
  BY <1>2, <1>3, <1>4 DEF EmbeddingInv

LEMMA EmbeddingKept ==
  ASSUME EmbeddingInv,
         UNCHANGED <<docs, migration, storedLate, embedder, cache, sharedCache, threads>>
  PROVE  EmbeddingInv'
<1>1. EmbeddingTypes'
  BY DEF EmbeddingInv, EmbeddingTypes
<1> QED
  BY <1>1, HostsKept, CorpusKept DEF EmbeddingInv

LEMMA EmbeddingInvStep == EmbeddingInv /\ [EmbeddingNext]_embeddingVars => EmbeddingInv'
<1> SUFFICES ASSUME EmbeddingInv, [EmbeddingNext]_embeddingVars PROVE EmbeddingInv'
  OBVIOUS
<1>1. CASE UNCHANGED embeddingVars
  BY <1>1, EmbeddingKept DEF embeddingVars, hostVars, corpusVars
<1>2. ASSUME NEW i \in Hosts, SelfHeal(i) PROVE EmbeddingInv'
  BY <1>2, EmbeddingKept DEF SelfHeal, hostVars
<1>3. CASE EmbeddingNext
  BY <1>2, <1>3, LookupStep, BumpStep, EmbedStep, EvictStep, InsertStep, ReconfigureStep,
     ReembedStep, ReembeddingStep DEF EmbeddingNext
<1> QED
  BY <1>1, <1>3

LEMMA EmbeddingInvVectors == EmbeddingInv => VectorsMatchModels
<1> SUFFICES ASSUME EmbeddingInv PROVE VectorsMatchModels
  OBVIOUS
<1>1. \A x \in Passages : docs[x].made = docs[x].stamp
  BY DEF EmbeddingInv, StampsTrue
<1>2. migration.pc = "done" =>
        {x \in Passages : docs[x] # Absent /\ docs[x].stamp # migration.version} \subseteq storedLate
  BY DEF EmbeddingInv, MigrationOnCourse, StaleText
<1>3. \A i \in Hosts : Len(cache[i]) <= CacheSize
         + Cardinality({t \in Threads : HostOf[t] = i /\ threads[t].pc = "evict"})
  BY DEF EmbeddingInv, CacheInBounds, EvictersOf
<1> QED
  BY <1>1, <1>2, <1>3 DEF VectorsMatchModels

(* Every stored vector is of the version it is stamped with, a finished      *)
(* migration has left no text of another version but those stored meanwhile, *)
(* and a cache exceeds its size only by the threads about to evict           *)
(* (embedding_cache.py:48-54, :70; ops.py:53-70).                            *)
THEOREM VectorsAreTrue == EmbeddingSpec => []VectorsMatchModels
<1> QED
  BY EmbeddingInvInit, EmbeddingInvStep, EmbeddingInvVectors, PTL DEF EmbeddingSpec
-----------------------------------------------------------------------------
(***************************************************************************)
(* RateLimits: for every limit, window and clock no stretch of one window  *)
(* admits twice the limit.                                                 *)
(***************************************************************************)

(***************************************************************************)
(* One counter: A has been admitted at the times f, its window began at s,  *)
(* and n of its Limit is used.                                              *)
(***************************************************************************)
From(A, f, s) == {r \in A : f[r] >= s}
After(A, f, s) == {r \in A : f[r] > s}
Between(A, f, s, t) == {r \in A : s <= f[r] /\ f[r] < t}

Used(count) == IF count < Limit THEN count ELSE Limit

(* Each window begun is worth Limit, and the next begins Window later.       *)
RateHeld(A, s, n) ==
  \E k \in Nat : Window * k <= s /\ Cardinality(A) <= Limit * k + n

(* The hit that opens a window is one of its Limit, and lies before every    *)
(* stretch that reaches into the next window.                               *)
Packed(A, f, s, n) ==
  /\ \A r \in A : f[r] < s + Window
  /\ Cardinality(From(A, f, s)) <= n
  /\ Cardinality(After(A, f, s)) <= n - 1
  /\ \A t \in Nat : s < t + Window => Cardinality(Between(A, f, t, s)) <= Limit - 1
  /\ \A t \in Nat : Cardinality(Between(A, f, t, t + Window)) < 2 * Limit

RateOK(A, count, s) == IF count = 0 THEN A = {} ELSE RateHeld(A, s, Used(count))
PackedOK(A, f, count, s) == IF count = 0 THEN A = {} ELSE Packed(A, f, s, Used(count))

(* What a hit at the time t leaves of a counter.                             *)
NextWindow(count, s, t, count2, s2) ==
  IF count = 0 \/ t >= s + Window THEN s2 = t /\ count2 = 1 ELSE s2 = s /\ count2 = count + 1
Joined(A, x, count2) == IF count2 > Limit THEN A ELSE A \cup {x}

LEMMA UsedRange ==
  ASSUME NEW count \in Nat
  PROVE  /\ Used(count) \in Nat /\ Used(count) <= Limit
         /\ count < Limit => Used(count + 1) = Used(count) + 1
         /\ count >= Limit => Used(count + 1) = Used(count)
         /\ Used(1) = 1
BY LimitsAssumption DEF Used

LEMMA Card ==
  ASSUME NEW S \in SUBSET Requests
  PROVE  IsFiniteSet(S) /\ Cardinality(S) \in Nat
BY LimitsAssumption, FS_Subset, FS_CardinalityType

LEMMA CardUpTo ==
  ASSUME NEW S \in SUBSET Requests, NEW T \in SUBSET Requests, NEW x, T \subseteq S \cup {x}
  PROVE  Cardinality(T) <= Cardinality(S) + 1
<1>1. Cardinality(S \cup {x}) <= Cardinality(S) + 1 /\ IsFiniteSet(S \cup {x})
  BY Card, FS_AddElement, FS_CardinalityType
<1>2. Cardinality(T) <= Cardinality(S \cup {x}) BY <1>1, FS_Subset
<1> QED BY <1>1, <1>2, Card, FS_CardinalityType

LEMMA CardWithin ==
  ASSUME NEW S \in SUBSET Requests, NEW T \in SUBSET Requests, T \subseteq S
  PROVE  Cardinality(T) <= Cardinality(S)
BY Card, FS_Subset

LEMMA CardOfTwo ==
  ASSUME NEW S \in SUBSET Requests, NEW T \in SUBSET Requests, NEW U \in SUBSET Requests,
         U \subseteq S \cup T
  PROVE  Cardinality(U) <= Cardinality(S) + Cardinality(T)
<1>1. /\ IsFiniteSet(S \cup T)
      /\ Cardinality(S \cup T) = Cardinality(S) + Cardinality(T) - Cardinality(S \cap T)
  BY Card, FS_Union
<1>2. Cardinality(S \cap T) \in Nat
  <2>1. S \cap T \in SUBSET Requests OBVIOUS
  <2> QED BY <2>1, Card
<1>3. Cardinality(U) <= Cardinality(S \cup T) BY <1>1, FS_Subset
<1> QED BY <1>1, <1>2, <1>3, Card, FS_CardinalityType

LEMMA CardSingle == ASSUME NEW x, NEW S \in SUBSET {x} PROVE Cardinality(S) <= 1
<1>1. S = {} \/ S = {x} OBVIOUS
<1>2. Cardinality({}) = 0 /\ Cardinality({x}) = 1 BY FS_EmptySet, FS_Singleton
<1> QED BY <1>1, <1>2

LEMMA Times ==
  ASSUME NEW k \in Nat
  PROVE  /\ Window * k \in Nat /\ k <= Window * k /\ Window * (k + 1) = Window * k + Window
         /\ Limit * k \in Nat /\ Limit * (k + 1) = Limit * k + Limit
<1>1. Window \in Nat /\ Window >= 1 /\ Limit \in Nat /\ Limit >= 1 BY LimitsAssumption
<1> QED BY <1>1

(* The first hit of a window.                                               *)
LEMMA RateOpens ==
  ASSUME NEW A \in SUBSET Requests, NEW x \in Requests, NEW s \in Nat, NEW n \in Nat, n <= Limit,
         RateHeld(A, s, n), NEW u \in Nat, u >= s + Window
  PROVE  RateHeld(A \cup {x}, u, 1)
<1>1. PICK k \in Nat : Window * k <= s /\ Cardinality(A) <= Limit * k + n BY DEF RateHeld
<1>2. Window * (k + 1) <= u BY <1>1, Times, LimitsAssumption
<1>3. Cardinality(A \cup {x}) <= Limit * (k + 1) + 1
  <2>1. A \cup {x} \in SUBSET Requests OBVIOUS
  <2>2. Cardinality(A \cup {x}) <= Cardinality(A) + 1 BY <2>1, CardUpTo
  <2> QED BY <1>1, <2>1, <2>2, Times, Card, LimitsAssumption
<1>4. k + 1 \in Nat OBVIOUS
<1> QED BY <1>2, <1>3, <1>4 DEF RateHeld

LEMMA RateAdds ==
  ASSUME NEW A \in SUBSET Requests, NEW x \in Requests, NEW s \in Nat, NEW n \in Nat,
         RateHeld(A, s, n)
  PROVE  RateHeld(A \cup {x}, s, n + 1)
<1>1. PICK k \in Nat : Window * k <= s /\ Cardinality(A) <= Limit * k + n BY DEF RateHeld
<1>2. A \cup {x} \in SUBSET Requests OBVIOUS
<1>3. Cardinality(A \cup {x}) <= Cardinality(A) + 1 BY <1>2, CardUpTo
<1>4. Cardinality(A \cup {x}) <= Limit * k + (n + 1) BY <1>1, <1>2, <1>3, Times, Card
<1> QED BY <1>1, <1>4 DEF RateHeld

(* What was admitted before keeps its times.                                *)
LEMMA SameTimes ==
  ASSUME NEW A, NEW f, NEW g, \A r \in A : g[r] = f[r], NEW s, NEW t
  PROVE  /\ From(A, g, s) = From(A, f, s) /\ After(A, g, s) = After(A, f, s)
         /\ Between(A, g, s, t) = Between(A, f, s, t)
BY DEF From, After, Between

LEMMA PackedOpens ==
  ASSUME NEW A \in SUBSET Requests, NEW x \in Requests \ A, NEW s \in Nat, NEW n \in Nat, n <= Limit,
         NEW f \in [Requests -> Nat], Packed(A, f, s, n), f[x] >= s + Window
  PROVE  Packed(A \cup {x}, f, f[x], 1)
<1> DEFINE B == A \cup {x}  u == f[x]
<1>0. u \in Nat /\ Limit \in Nat /\ Limit >= 1 /\ Window \in Nat /\ Window >= 1 /\ B \in SUBSET Requests
  BY LimitsAssumption
<1>a. \A r \in A : f[r] \in Nat /\ f[r] < s + Window /\ f[r] < u BY <1>0 DEF Packed
<1>1. \A r \in B : f[r] < u + Window BY <1>0, <1>a
<1>2. Cardinality(From(B, f, u)) <= 1
  <2>1. From(B, f, u) \in SUBSET {x} BY <1>0, <1>a DEF From
  <2> QED BY <2>1, CardSingle
<1>3. Cardinality(After(B, f, u)) <= 1 - 1
  <2>1. After(B, f, u) = {} BY <1>0, <1>a DEF After
  <2> QED BY <2>1, FS_EmptySet
<1>4. ASSUME NEW t \in Nat, u < t + Window PROVE Cardinality(Between(B, f, t, u)) <= Limit - 1
  <2>1. Between(B, f, t, u) \subseteq After(A, f, s) BY <1>0, <1>a, <1>4 DEF Between, After
  <2>2. Between(B, f, t, u) \in SUBSET Requests /\ After(A, f, s) \in SUBSET Requests
    BY DEF Between, After
  <2>3. Cardinality(Between(B, f, t, u)) <= Cardinality(After(A, f, s)) BY <2>1, <2>2, CardWithin
  <2>4. Cardinality(After(A, f, s)) <= n - 1 BY DEF Packed
  <2>5. Cardinality(Between(B, f, t, u)) \in Nat /\ Cardinality(After(A, f, s)) \in Nat BY <2>2, Card
  <2> HIDE DEF B, u
  <2> QED BY <1>0, <2>3, <2>4, <2>5
<1>5. ASSUME NEW t \in Nat PROVE Cardinality(Between(B, f, t, t + Window)) < 2 * Limit
  <2>0. Between(B, f, t, t + Window) \in SUBSET Requests /\ Between(A, f, t, t + Window) \in SUBSET Requests
        /\ Between(B, f, t, u) \in SUBSET Requests
    BY DEF Between
  <2>c. /\ Cardinality(Between(B, f, t, t + Window)) \in Nat /\ Cardinality(Between(B, f, t, u)) \in Nat
        /\ Cardinality(Between(A, f, t, t + Window)) \in Nat
    BY <2>0, Card
  <2>1. CASE u < t + Window
    <3>1. Between(B, f, t, t + Window) \subseteq Between(B, f, t, u) \cup {x}
      BY <1>0, <1>a DEF Between
    <3>2. Cardinality(Between(B, f, t, t + Window)) <= Cardinality(Between(B, f, t, u)) + 1
      BY <2>0, <3>1, CardUpTo
    <3>3. Cardinality(Between(B, f, t, u)) <= Limit - 1 BY <1>4, <2>1
    <3> HIDE DEF B, u
    <3> QED BY <1>0, <2>c, <3>2, <3>3
  <2>2. CASE u >= t + Window
    <3>1. Between(B, f, t, t + Window) \subseteq Between(A, f, t, t + Window)
      BY <1>0, <2>2 DEF Between
    <3>2. Cardinality(Between(B, f, t, t + Window)) <= Cardinality(Between(A, f, t, t + Window))
      BY <2>0, <3>1, CardWithin
    <3>3. Cardinality(Between(A, f, t, t + Window)) < 2 * Limit BY DEF Packed
    <3> HIDE DEF B
    <3> QED BY <1>0, <2>c, <3>2, <3>3
  <2> QED BY <1>0, <2>1, <2>2
<1> QED BY <1>1, <1>2, <1>3, <1>4, <1>5 DEF Packed

LEMMA PackedFirst ==
  ASSUME NEW x \in Requests, NEW f \in [Requests -> Nat]
  PROVE  Packed({x}, f, f[x], 1)
<1>0. f[x] \in Nat /\ Limit \in Nat /\ Limit >= 1 /\ Window \in Nat /\ Window >= 1 BY LimitsAssumption
<1>1. \A s \in Nat : From({x}, f, s) \in SUBSET {x} BY DEF From
<1>2. \A s, t \in Nat : Between({x}, f, s, t) \in SUBSET {x} BY DEF Between
<1>3. After({x}, f, f[x]) = {} /\ \A t \in Nat : Between({x}, f, t, f[x]) = {}
  BY <1>0 DEF After, Between
<1>4. Cardinality({}) = 0 BY FS_EmptySet
<1>5. Cardinality(From({x}, f, f[x])) <= 1 BY <1>0, <1>1, CardSingle
<1>6. Cardinality(After({x}, f, f[x])) <= 1 - 1 BY <1>3, <1>4
<1>7. \A t \in Nat : Cardinality(Between({x}, f, t, f[x])) <= Limit - 1 BY <1>0, <1>3, <1>4
<1>8. ASSUME NEW t \in Nat PROVE Cardinality(Between({x}, f, t, t + Window)) < 2 * Limit
  <2>1. Between({x}, f, t, t + Window) \in SUBSET {x} BY DEF Between
  <2>2. Cardinality(Between({x}, f, t, t + Window)) <= 1 BY <2>1, CardSingle
  <2>3. Between({x}, f, t, t + Window) \in SUBSET Requests BY DEF Between
  <2>4. Cardinality(Between({x}, f, t, t + Window)) \in Nat BY <2>3, Card
  <2> QED BY <1>0, <2>2, <2>4
<1>9. \A r \in {x} : f[r] < f[x] + Window BY <1>0
<1> QED BY <1>5, <1>6, <1>7, <1>8, <1>9 DEF Packed

LEMMA PackedAdds ==
  ASSUME NEW A \in SUBSET Requests, NEW x \in Requests \ A, NEW s \in Nat, NEW n \in Nat, n + 1 <= Limit,
         NEW f \in [Requests -> Nat], Packed(A, f, s, n), f[x] >= s, f[x] < s + Window, n >= 1
  PROVE  Packed(A \cup {x}, f, s, n + 1)
<1> DEFINE B == A \cup {x}
<1>0. /\ f[x] \in Nat /\ Limit \in Nat /\ Limit >= 1 /\ Window \in Nat /\ Window >= 1
      /\ B \in SUBSET Requests /\ \A r \in A : f[r] \in Nat
  BY LimitsAssumption
<1>1. \A r \in B : f[r] < s + Window BY DEF Packed
<1>2. Cardinality(From(B, f, s)) <= n + 1
  <2>1. From(B, f, s) \in SUBSET Requests /\ From(A, f, s) \in SUBSET Requests
        /\ From(B, f, s) \subseteq From(A, f, s) \cup {x}
    BY DEF From
  <2>2. Cardinality(From(B, f, s)) <= Cardinality(From(A, f, s)) + 1 BY <2>1, CardUpTo
  <2>3. Cardinality(From(A, f, s)) <= n BY DEF Packed
  <2> QED BY <2>1, <2>2, <2>3, Card
<1>3. Cardinality(After(B, f, s)) <= (n + 1) - 1
  <2>1. After(B, f, s) \in SUBSET Requests /\ After(A, f, s) \in SUBSET Requests
        /\ After(B, f, s) \subseteq After(A, f, s) \cup {x}
    BY DEF After
  <2>2. Cardinality(After(B, f, s)) <= Cardinality(After(A, f, s)) + 1 BY <2>1, CardUpTo
  <2>3. Cardinality(After(A, f, s)) <= n - 1 BY DEF Packed
  <2>4. Cardinality(After(B, f, s)) \in Nat /\ Cardinality(After(A, f, s)) \in Nat BY <2>1, Card
  <2> HIDE DEF B
  <2> QED BY <2>2, <2>3, <2>4
<1>4. ASSUME NEW t \in Nat
      PROVE  /\ Between(B, f, t, s) = Between(A, f, t, s)
             /\ s < t + Window => Cardinality(Between(B, f, t, s)) <= Limit - 1
  <2>1. Between(B, f, t, s) = Between(A, f, t, s) BY <1>0 DEF Between
  <2> QED BY <2>1 DEF Packed
<1>5. ASSUME NEW t \in Nat PROVE Cardinality(Between(B, f, t, t + Window)) < 2 * Limit
  <2>0. /\ Between(B, f, t, t + Window) \in SUBSET Requests /\ Between(A, f, t, t + Window) \in SUBSET Requests
        /\ Between(B, f, t, s) \in SUBSET Requests /\ From(B, f, s) \in SUBSET Requests
    BY DEF Between, From
  <2>c. /\ Cardinality(Between(B, f, t, t + Window)) \in Nat /\ Cardinality(Between(B, f, t, s)) \in Nat
        /\ Cardinality(Between(A, f, t, t + Window)) \in Nat /\ Cardinality(From(B, f, s)) \in Nat
    BY <2>0, Card
  <2>1. CASE s < t + Window
    <3>1. Between(B, f, t, t + Window) \subseteq Between(B, f, t, s) \cup From(B, f, s)
      BY <1>0 DEF Between, From
    <3>2. Cardinality(Between(B, f, t, t + Window))
            <= Cardinality(Between(B, f, t, s)) + Cardinality(From(B, f, s))
      BY <2>0, <3>1, CardOfTwo
    <3>3. Cardinality(Between(B, f, t, s)) <= Limit - 1 BY <1>4, <2>1
    <3>4. Cardinality(From(B, f, s)) <= n + 1 BY <1>2
    <3> HIDE DEF B
    <3> QED BY <1>0, <2>c, <3>2, <3>3, <3>4
  <2>2. CASE s >= t + Window
    <3>1. Between(B, f, t, t + Window) \subseteq Between(A, f, t, t + Window)
      BY <1>0, <2>2 DEF Between
    <3>2. Cardinality(Between(B, f, t, t + Window)) <= Cardinality(Between(A, f, t, t + Window))
      BY <2>0, <3>1, CardWithin
    <3>3. Cardinality(Between(A, f, t, t + Window)) < 2 * Limit BY DEF Packed
    <3> HIDE DEF B
    <3> QED BY <1>0, <2>c, <3>2, <3>3
  <2> QED BY <1>0, <2>1, <2>2
<1> QED BY <1>1, <1>2, <1>3, <1>4, <1>5 DEF Packed

LEMMA PackedSame ==
  ASSUME NEW A, NEW f, NEW g, \A r \in A : g[r] = f[r], NEW s, NEW n, Packed(A, f, s, n)
  PROVE  Packed(A, g, s, n)
<1>2. From(A, g, s) = From(A, f, s) /\ After(A, g, s) = After(A, f, s) BY SameTimes
<1>3. \A t \in Nat : Between(A, g, t, s) = Between(A, f, t, s) BY SameTimes
<1>4. \A t \in Nat : Between(A, g, t, t + Window) = Between(A, f, t, t + Window) BY SameTimes
<1> QED BY <1>2, <1>3, <1>4 DEF Packed

LEMMA PackedOKSame ==
  ASSUME NEW A, NEW f, NEW g, \A r \in A : g[r] = f[r], NEW count, NEW s, PackedOK(A, f, count, s)
  PROVE  PackedOK(A, g, count, s)
BY PackedSame DEF PackedOK

LEMMA WindowCases ==
  ASSUME NEW count \in Nat, NEW s \in Nat, NEW t \in Nat, NEW count2 \in Nat, NEW s2 \in Nat,
         NextWindow(count, s, t, count2, s2)
  PROVE  \/ count = 0 /\ s2 = t /\ count2 = 1
         \/ count # 0 /\ t >= s + Window /\ s2 = t /\ count2 = 1
         \/ /\ count # 0 /\ t < s + Window /\ count < Limit /\ s2 = s /\ count2 # 0 /\ ~(count2 > Limit)
            /\ Used(count2) = Used(count) + 1 /\ Used(count2) <= Limit /\ Used(count) >= 1
         \/ /\ count # 0 /\ t < s + Window /\ count2 > Limit /\ s2 = s /\ count2 # 0
            /\ Used(count2) = Used(count)
BY LimitsAssumption DEF NextWindow, Used

(* One request x is counted at the time t.                                   *)
LEMMA HitRate ==
  ASSUME NEW A \in SUBSET Requests, NEW x \in Requests,
         NEW count \in Nat, NEW s \in Nat, NEW t \in Nat, NEW count2 \in Nat, NEW s2 \in Nat,
         RateOK(A, count, s), NextWindow(count, s, t, count2, s2)
  PROVE  RateOK(Joined(A, x, count2), count2, s2)
<1>0. Limit \in Nat /\ Limit >= 1 /\ ~(1 > Limit) /\ Window \in Nat BY LimitsAssumption
<1>a. Used(1) = 1 /\ Used(count) \in Nat /\ Used(count) <= Limit BY UsedRange
<1>1. CASE count = 0 /\ s2 = t /\ count2 = 1
  <2>1. A = {} BY <1>1 DEF RateOK
  <2>2. Joined(A, x, count2) = {x} BY <1>0, <1>1, <2>1 DEF Joined
  <2>3. Cardinality({x}) = 1 BY FS_Singleton
  <2>4. Window * 0 <= t /\ Cardinality({x}) <= Limit * 0 + 1 BY <1>0, <2>3
  <2>5. RateHeld({x}, t, 1) BY <2>4 DEF RateHeld
  <2> QED BY <1>1, <1>a, <2>2, <2>5 DEF RateOK
<1>2. CASE count # 0 /\ t >= s + Window /\ s2 = t /\ count2 = 1
  <2>1. RateHeld(A, s, Used(count)) BY <1>2 DEF RateOK
  <2>2. RateHeld(A \cup {x}, t, 1) BY <1>2, <1>a, <2>1, RateOpens
  <2>3. Joined(A, x, count2) = A \cup {x} BY <1>0, <1>2 DEF Joined
  <2> QED BY <1>2, <1>a, <2>2, <2>3 DEF RateOK
<1>3. CASE /\ count # 0 /\ t < s + Window /\ count < Limit /\ s2 = s /\ count2 # 0 /\ ~(count2 > Limit)
           /\ Used(count2) = Used(count) + 1 /\ Used(count2) <= Limit /\ Used(count) >= 1
  <2>1. RateHeld(A, s, Used(count)) BY <1>3 DEF RateOK
  <2>2. RateHeld(A \cup {x}, s, Used(count) + 1) BY <1>a, <2>1, RateAdds
  <2>3. Joined(A, x, count2) = A \cup {x} BY <1>3 DEF Joined
  <2> QED BY <1>3, <2>2, <2>3 DEF RateOK
<1>4. CASE /\ count # 0 /\ t < s + Window /\ count2 > Limit /\ s2 = s /\ count2 # 0
           /\ Used(count2) = Used(count)
  BY <1>4 DEF RateOK, Joined
<1> QED BY <1>1, <1>2, <1>3, <1>4, WindowCases

LEMMA HitPacked ==
  ASSUME NEW A \in SUBSET Requests, NEW x \in Requests \ A,
         NEW g \in [Requests -> Nat], NEW t \in Nat, g[x] = t,
         NEW count \in Nat, NEW s \in Nat, NEW count2 \in Nat, NEW s2 \in Nat,
         PackedOK(A, g, count, s), NextWindow(count, s, t, count2, s2), count # 0 => t >= s
  PROVE  PackedOK(Joined(A, x, count2), g, count2, s2)
<1>0. Limit \in Nat /\ Limit >= 1 /\ ~(1 > Limit) /\ Window \in Nat BY LimitsAssumption
<1>a. Used(1) = 1 /\ Used(count) \in Nat /\ Used(count) <= Limit BY UsedRange
<1>1. CASE count = 0 /\ s2 = t /\ count2 = 1
  <2>1. A = {} BY <1>1 DEF PackedOK
  <2>2. Joined(A, x, count2) = {x} BY <1>0, <1>1, <2>1 DEF Joined
  <2>3. Packed({x}, g, t, 1) BY PackedFirst
  <2> QED BY <1>1, <1>a, <2>2, <2>3 DEF PackedOK
<1>2. CASE count # 0 /\ t >= s + Window /\ s2 = t /\ count2 = 1
  <2>1. Packed(A, g, s, Used(count)) BY <1>2 DEF PackedOK
  <2>2. Packed(A \cup {x}, g, t, 1) BY <1>2, <1>a, <2>1, PackedOpens
  <2>3. Joined(A, x, count2) = A \cup {x} BY <1>0, <1>2 DEF Joined
  <2>4. Packed(Joined(A, x, count2), g, s2, Used(count2)) BY <1>2, <1>a, <2>2, <2>3
  <2>5. count2 # 0 BY <1>2
  <2> QED BY <2>4, <2>5 DEF PackedOK
<1>3. CASE /\ count # 0 /\ t < s + Window /\ count < Limit /\ s2 = s /\ count2 # 0 /\ ~(count2 > Limit)
           /\ Used(count2) = Used(count) + 1 /\ Used(count2) <= Limit /\ Used(count) >= 1
  <2>1. Packed(A, g, s, Used(count)) BY <1>3 DEF PackedOK
  <2>2. g[x] >= s /\ g[x] < s + Window /\ Used(count) + 1 <= Limit BY <1>3
  <2>3. Packed(A \cup {x}, g, s, Used(count) + 1) BY <1>3, <1>a, <2>1, <2>2, PackedAdds
  <2>4. Joined(A, x, count2) = A \cup {x} BY <1>3 DEF Joined
  <2> QED BY <1>3, <2>3, <2>4 DEF PackedOK
<1>4. CASE /\ count # 0 /\ t < s + Window /\ count2 > Limit /\ s2 = s /\ count2 # 0
           /\ Used(count2) = Used(count)
  BY <1>4 DEF PackedOK, Joined
<1> QED BY <1>1, <1>2, <1>3, <1>4, WindowCases

(***************************************************************************)
(* The counters of the specification.                                       *)
(***************************************************************************)
Mine(i) == {r \in Requests : InstanceOf[r] = i}
At == [r \in Requests |-> requests[r].at]

LimitInv ==
  /\ LimitTypeOK
  /\ \A r \in Requests : requests[r].at <= clock
  /\ backend = "local" => \A i \in Instances :
       /\ windows[i].start <= clock
       /\ RateOK(Admitted(Mine(i)), windows[i].count, windows[i].start)
       /\ ~late => PackedOK(Admitted(Mine(i)), At, windows[i].count, windows[i].start)
  /\ backend = "redis" =>
       /\ redis.count # 0 => redis.expires >= Window /\ redis.expires <= clock + Window
       /\ \E s \in Nat : /\ redis.count # 0 => s = redis.expires - Window
                         /\ RateOK(Admitted(Requests), redis.count, s)
                         /\ ~late => PackedOK(Admitted(Requests), At, redis.count, s)

LEMMA LimitInitInv == LimitInit => LimitInv
<1> SUFFICES ASSUME LimitInit PROVE LimitInv OBVIOUS
<1>1. LimitTypeOK
  <2>1. windows \in [Instances -> [start : Nat, count : Nat]] BY DEF LimitInit
  <2>2. redis \in [count : Nat, expires : Nat] BY DEF LimitInit
  <2>3. requests \in [Requests -> [state : {"new", "arrived", "admitted", "rejected", "waved through"},
                                  at : Nat]]
    BY DEF LimitInit
  <2>4. backend \in {"local", "redis"} /\ late \in BOOLEAN BY DEF LimitInit
  <2>5. clock = 0 BY DEF LimitInit
  <2>6. clock \in 0..Horizon BY <2>5, LimitsAssumption
  <2> QED BY <2>1, <2>2, <2>3, <2>4, <2>6 DEF LimitTypeOK
<1>2. \A rs \in SUBSET Requests : Admitted(rs) = {} BY DEF LimitInit, Admitted
<1>3. \A i \in Instances : windows[i].start <= clock /\ windows[i].count = 0 BY DEF LimitInit
<1>4. redis.count = 0 /\ \A r \in Requests : requests[r].at <= clock BY DEF LimitInit
<1>5. \A i \in Instances : Mine(i) \in SUBSET Requests BY DEF Mine
<1>6. 0 \in Nat /\ RateOK(Admitted(Requests), redis.count, 0) /\ PackedOK(Admitted(Requests), At, redis.count, 0)
  BY <1>2, <1>4 DEF RateOK, PackedOK
<1> QED BY <1>1, <1>2, <1>3, <1>4, <1>5, <1>6 DEF LimitInv, RateOK, PackedOK

LEMMA RequestFields ==
  ASSUME LimitTypeOK
  PROVE  /\ At \in [Requests -> Nat]
         /\ \A r \in Requests : requests[r].at \in Nat /\ At[r] = requests[r].at
         /\ \A rs : Admitted(rs) \subseteq rs
BY DEF LimitTypeOK, At, Admitted

(* A step that admits nobody and leaves the counters alone.                  *)
LEMMA Unadmitted ==
  ASSUME LimitInv, LimitTypeOK', UNCHANGED <<backend, windows, redis, late>>, clock' >= clock,
         \A r \in Requests : requests'[r].at <= clock',
         \A r \in Requests : requests'[r].state = "admitted" <=> requests[r].state = "admitted",
         \A r \in Requests : requests[r].state = "admitted" => requests'[r].at = requests[r].at
  PROVE  LimitInv'
<1>0. clock \in Nat /\ clock' \in Nat /\ late \in BOOLEAN
  <2>1. clock \in 0..Horizon /\ late \in BOOLEAN BY DEF LimitInv, LimitTypeOK
  <2>2. clock' \in 0..Horizon BY DEF LimitTypeOK
  <2> QED BY <2>1, <2>2, LimitsAssumption
<1>1. \A rs \in SUBSET Requests : Admitted(rs)' = Admitted(rs) BY DEF Admitted
<1>2. \A rs \in SUBSET Requests : \A r \in Admitted(rs) : At'[r] = At[r] BY DEF Admitted, At
<1>3. ASSUME backend = "local", NEW i \in Instances
      PROVE  /\ windows[i].start <= clock'
             /\ RateOK(Admitted(Mine(i)), windows[i].count, windows[i].start)
             /\ ~late => PackedOK(Admitted(Mine(i)), At', windows[i].count, windows[i].start)
  <2>1. /\ windows[i].start <= clock
        /\ RateOK(Admitted(Mine(i)), windows[i].count, windows[i].start)
        /\ ~late => PackedOK(Admitted(Mine(i)), At, windows[i].count, windows[i].start)
    BY <1>3 DEF LimitInv
  <2>2. \A r \in Admitted(Mine(i)) : At'[r] = At[r] BY <1>2 DEF Mine
  <2>3. ~late => PackedOK(Admitted(Mine(i)), At', windows[i].count, windows[i].start)
    BY <2>1, <2>2, PackedOKSame
  <2>4. windows[i].start \in Nat BY DEF LimitInv, LimitTypeOK
  <2> QED BY <1>0, <2>1, <2>3, <2>4
<1>4. ASSUME NEW s \in Nat, ~late => PackedOK(Admitted(Requests), At, redis.count, s)
      PROVE  ~late => PackedOK(Admitted(Requests), At', redis.count, s)
  <2>1. \A r \in Admitted(Requests) : At'[r] = At[r] BY <1>2
  <2> QED BY <1>4, <2>1, PackedOKSame
<1>5. redis.expires \in Nat BY DEF LimitInv, LimitTypeOK
<1>6. \A i \in Instances : Mine(i) \in SUBSET Requests /\ Mine(i)' = Mine(i) BY DEF Mine
<1>7. backend = "local" => \A i \in Instances :
        /\ windows[i].start <= clock'
        /\ RateOK(Admitted(Mine(i))', windows[i].count, windows[i].start)
        /\ ~late => PackedOK(Admitted(Mine(i))', At', windows[i].count, windows[i].start)
  BY <1>1, <1>3, <1>6
<1>8. backend = "redis" =>
        /\ redis.count # 0 => redis.expires >= Window /\ redis.expires <= clock' + Window
        /\ \E s \in Nat : /\ redis.count # 0 => s = redis.expires - Window
                          /\ RateOK(Admitted(Requests)', redis.count, s)
                          /\ ~late => PackedOK(Admitted(Requests)', At', redis.count, s)
  BY <1>0, <1>1, <1>4, <1>5, LimitsAssumption DEF LimitInv
<1> QED BY <1>7, <1>8, <1>6 DEF LimitInv

LEMMA ClockIsNat == ASSUME LimitInv PROVE clock \in Nat
<1>1. clock \in 0..Horizon BY DEF LimitInv, LimitTypeOK
<1> QED BY <1>1, LimitsAssumption

LEMMA TickKeeps == ASSUME LimitInv, LimitTick PROVE LimitInv'
<1>1. clock \in 0..Horizon BY DEF LimitInv, LimitTypeOK
<1>2. clock' \in 0..Horizon /\ clock' >= clock /\ clock \in Nat /\ clock' \in Nat
  BY <1>1, LimitsAssumption DEF LimitTick
<1>3. LimitTypeOK' BY <1>2 DEF LimitInv, LimitTick, LimitTypeOK
<1>4. \A r \in Requests : requests[r].at \in Nat BY RequestFields DEF LimitInv
<1>5. \A r \in Requests : requests'[r].at <= clock' BY <1>2, <1>4 DEF LimitInv, LimitTick
<1> QED BY <1>2, <1>3, <1>5, Unadmitted DEF LimitTick

LEMMA ArriveKeeps == ASSUME LimitInv, NEW r \in Requests, Arrive(r) PROVE LimitInv'
<1>1. clock \in Nat BY ClockIsNat
<1>2. /\ requests[r].state = "new" /\ UNCHANGED <<clock, backend, windows, redis, late>>
      /\ requests' = [requests EXCEPT ![r] = [state |-> "arrived", at |-> clock]]
  BY DEF Arrive
<1>3. LimitTypeOK' BY <1>1, <1>2 DEF LimitInv, LimitTypeOK
<1>4. \A q \in Requests : requests'[q] = IF q = r THEN [state |-> "arrived", at |-> clock] ELSE requests[q]
  BY <1>2 DEF LimitInv, LimitTypeOK
<1>5. \A q \in Requests : requests'[q].at <= clock' BY <1>1, <1>2, <1>4 DEF LimitInv
<1> QED BY <1>1, <1>2, <1>3, <1>4, <1>5, Unadmitted

LEMMA FaultKeeps == ASSUME LimitInv, NEW r \in Requests, RedisFault(r) PROVE LimitInv'
<1>1. clock \in Nat BY ClockIsNat
<1>2. /\ requests[r].state = "arrived" /\ UNCHANGED <<clock, backend, windows, redis, late>>
      /\ requests' = [requests EXCEPT ![r].state = "waved through"]
  BY DEF RedisFault
<1>u. UNCHANGED <<clock, backend, windows, redis, late>> BY <1>2
<1>a. requests[r].state = "arrived" BY <1>2
<1>3. LimitTypeOK' BY <1>1, <1>2 DEF LimitInv, LimitTypeOK
<1>4. \A q \in Requests : /\ requests'[q].at = requests[q].at
                         /\ requests'[q].state = IF q = r THEN "waved through" ELSE requests[q].state
  BY <1>2 DEF LimitInv, LimitTypeOK
<1>5. \A q \in Requests : requests'[q].at <= clock' BY <1>2, <1>4 DEF LimitInv
<1>6. \A q \in Requests : requests'[q].state = "admitted" <=> requests[q].state = "admitted"
  BY <1>a, <1>4
<1>7. clock' >= clock BY <1>1, <1>u
<1> QED BY <1>u, <1>3, <1>4, <1>5, <1>6, <1>7, Unadmitted

(* The answer to r is what its counter decides, and no other is touched.     *)
LEMMA AnsweredRequest ==
  ASSUME LimitTypeOK, NEW r \in Requests, requests[r].state = "arrived", NEW count, NEW t \in Nat,
         requests'[r].state = (IF count > Limit THEN "rejected" ELSE "admitted"), requests'[r].at = t,
         \A q \in Requests \ {r} : requests'[q] = requests[q]
  PROVE  /\ At' \in [Requests -> Nat] /\ At'[r] = t
         /\ \A q \in Requests \ {r} : At'[q] = At[q]
         /\ \A rs \in SUBSET Requests :
              /\ r \notin Admitted(rs)
              /\ Admitted(rs)' = IF r \in rs THEN Joined(Admitted(rs), r, count) ELSE Admitted(rs)
<1>2. At' = [q \in Requests |-> requests'[q].at] BY DEF At
<1>3. \A q \in Requests : requests[q].at \in Nat BY DEF LimitTypeOK
<1>4. /\ At' \in [Requests -> Nat] /\ At'[r] = t
      /\ \A q \in Requests \ {r} : At'[q] = At[q]
  BY <1>2, <1>3 DEF At
<1>6. ASSUME NEW rs \in SUBSET Requests
      PROVE  /\ r \notin Admitted(rs)
             /\ Admitted(rs)' = IF r \in rs THEN Joined(Admitted(rs), r, count) ELSE Admitted(rs)
  <2>1. CASE r \in rs /\ ~(count > Limit) BY <2>1 DEF Admitted, Joined
  <2>2. CASE ~(r \in rs /\ ~(count > Limit)) BY <2>2 DEF Admitted, Joined
  <2> QED BY <2>1, <2>2 DEF Admitted
<1> QED BY <1>4, <1>6

LEMMA LocalKeeps == ASSUME LimitInv, NEW r \in Requests, CheckLocal(r) PROVE LimitInv'
<1> DEFINE i == InstanceOf[r]
           t == requests[r].at
           w == Counted(windows[i], t)
<1>1. /\ backend = "local" /\ requests[r].state = "arrived"
      /\ windows' = [windows EXCEPT ![i] = w]
      /\ requests' = [requests EXCEPT ![r].state = IF w.count > Limit THEN "rejected" ELSE "admitted"]
      /\ late' = (late \/ t < clock)
      /\ UNCHANGED <<clock, backend, redis>>
  BY DEF CheckLocal, Answer
<1>2. /\ clock \in Nat /\ t \in Nat /\ t <= clock /\ i \in Instances /\ LimitTypeOK
      /\ windows[i].start \in Nat /\ windows[i].count \in Nat /\ late \in BOOLEAN
  <2>1. LimitTypeOK /\ t <= clock BY DEF LimitInv
  <2>2. i \in Instances BY DEF Instances
  <2>3. windows[i] \in [start : Nat, count : Nat] BY <2>1, <2>2 DEF LimitTypeOK
  <2>4. late \in BOOLEAN BY <2>1 DEF LimitTypeOK
  <2> QED BY <2>1, <2>2, <2>3, <2>4, ClockIsNat, RequestFields
<1>3. IF windows[i].count = 0 \/ t >= windows[i].start + Window
      THEN w = [start |-> t, count |-> 1]
      ELSE w = [windows[i] EXCEPT !.count = windows[i].count + 1]
  BY DEF Counted, Elapsed
<1>4. /\ w \in [start : Nat, count : Nat] /\ w.start \in Nat /\ w.count \in Nat
      /\ IF windows[i].count = 0 \/ t >= windows[i].start + Window THEN w.start = t /\ w.count = 1
         ELSE w.start = windows[i].start /\ w.count = windows[i].count + 1
  <2>1. windows[i] \in [start : Nat, count : Nat] BY <1>2 DEF LimitTypeOK
  <2> HIDE DEF w, i, t
  <2>2. CASE windows[i].count = 0 \/ t >= windows[i].start + Window BY <2>2, <1>2, <1>3
  <2>3. CASE ~(windows[i].count = 0 \/ t >= windows[i].start + Window) BY <2>1, <2>3, <1>2, <1>3
  <2> QED BY <2>2, <2>3
<1> HIDE DEF w
<1>5. /\ requests'[r].at = t /\ requests'[r].state = (IF w.count > Limit THEN "rejected" ELSE "admitted")
      /\ \A q \in Requests \ {r} : requests'[q] = requests[q]
      /\ requests' \in [Requests -> [state : {"new", "arrived", "admitted", "rejected", "waved through"},
                                     at : Nat]]
  BY <1>1, <1>2 DEF LimitTypeOK
<1>6. /\ At' \in [Requests -> Nat] /\ At'[r] = t
      /\ \A q \in Requests \ {r} : At'[q] = At[q]
      /\ \A rs \in SUBSET Requests :
           /\ r \notin Admitted(rs)
           /\ Admitted(rs)' = IF r \in rs THEN Joined(Admitted(rs), r, w.count) ELSE Admitted(rs)
  <2>1. PICK n, u : n = w.count /\ u = t OBVIOUS
  <2>2. /\ LimitTypeOK /\ requests[r].state = "arrived" /\ u \in Nat /\ requests'[r].at = u
        /\ requests'[r].state = (IF n > Limit THEN "rejected" ELSE "admitted")
        /\ \A q \in Requests \ {r} : requests'[q] = requests[q]
    BY <1>1, <1>2, <1>5, <2>1
  <2> HIDE DEF t
  <2>3. /\ At' \in [Requests -> Nat] /\ At'[r] = u
        /\ \A q \in Requests \ {r} : At'[q] = At[q]
        /\ \A rs \in SUBSET Requests :
             /\ r \notin Admitted(rs)
             /\ Admitted(rs)' = IF r \in rs THEN Joined(Admitted(rs), r, n) ELSE Admitted(rs)
    BY <2>2, AnsweredRequest
  <2> QED BY <2>1, <2>3
<1> HIDE DEF t
<1>l. late' \in BOOLEAN /\ (late => late') /\ (~late' => t = clock)
  <2>1. ~late' => ~(t < clock) BY <1>1
  <2>2. late => late' BY <1>1
  <2>3. late' \in BOOLEAN BY <1>1
  <2> QED BY <1>2, <2>1, <2>2, <2>3
<1>7. LimitTypeOK'
  <2>1. windows' \in [Instances' -> [start : Nat, count : Nat]] BY <1>1, <1>2, <1>4 DEF LimitTypeOK, Instances
  <2> QED BY <1>1, <1>2, <1>5, <1>l, <2>1 DEF LimitTypeOK
<1>8. \A q \in Requests : requests'[q].at <= clock' BY <1>1, <1>2, <1>5 DEF LimitInv
<1>9. ASSUME NEW j \in Instances
      PROVE  /\ windows'[j].start <= clock'
             /\ RateOK(Admitted(Mine(j))', windows'[j].count, windows'[j].start)
             /\ ~late' => PackedOK(Admitted(Mine(j))', At', windows'[j].count, windows'[j].start)
  <2> DEFINE A == Admitted(Mine(j))
  <2>0. Mine(j) \in SUBSET Requests /\ A \in SUBSET Requests /\ r \in Requests \ A
    BY <1>2, <1>6, RequestFields DEF Mine
  <2>1. /\ windows[j].start <= clock
        /\ RateOK(A, windows[j].count, windows[j].start)
        /\ ~late => PackedOK(A, At, windows[j].count, windows[j].start)
    BY <1>1 DEF LimitInv
  <2>2. \A q \in A : At'[q] = At[q] BY <1>6, <2>0
  <2>p. ~late' => PackedOK(A, At', windows[j].count, windows[j].start)
    BY <1>l, <2>1, <2>2, PackedOKSame
  <2>3. CASE j = i
    <3>1. windows'[j] = w BY <1>1, <1>2, <2>3 DEF LimitTypeOK
    <3>2. Admitted(Mine(j))' = Joined(A, r, w.count)
      <4>1. r \in Mine(j) BY <2>3 DEF Mine
      <4> QED BY <1>6, <2>0, <4>1
    <3>3. windows[j].count \in Nat /\ windows[j].start \in Nat BY <1>2, <2>3
    <3>4. NextWindow(windows[j].count, windows[j].start, t, w.count, w.start)
      BY <1>4, <2>3 DEF NextWindow
    <3> HIDE DEF A, i
    <3>5. RateOK(Joined(A, r, w.count), w.count, w.start)
      BY <1>2, <1>4, <2>0, <2>1, <3>3, <3>4, HitRate
    <3>6. ASSUME ~late' PROVE PackedOK(Joined(A, r, w.count), At', w.count, w.start)
      <4>1. PackedOK(A, At', windows[j].count, windows[j].start) BY <2>p, <3>6
      <4>2. t >= windows[j].start BY <1>2, <1>l, <2>1, <3>3, <3>6
      <4> QED BY <1>2, <1>4, <1>6, <2>0, <3>3, <3>4, <4>1, <4>2, HitPacked
    <3>7. w.start <= clock' BY <1>1, <1>2, <1>4, <2>1, <2>3
    <3> QED BY <3>1, <3>2, <3>5, <3>6, <3>7
  <2>4. CASE j # i
    <3>1. windows'[j] = windows[j] BY <1>1, <1>2, <2>4 DEF LimitTypeOK
    <3>2. Admitted(Mine(j))' = A
      <4>1. r \notin Mine(j) BY <2>4 DEF Mine
      <4> QED BY <1>6, <2>0, <4>1
    <3> QED BY <1>1, <2>1, <2>p, <3>1, <3>2
  <2> QED BY <2>3, <2>4
<1>10. Instances' = Instances /\ backend' = "local" /\ \A j \in Instances : Mine(j)' = Mine(j)
  BY <1>1 DEF Instances, Mine
<1> QED BY <1>7, <1>8, <1>9, <1>10 DEF LimitInv

LEMMA RedisKeeps == ASSUME LimitInv, NEW r \in Requests, CheckRedis(r) PROVE LimitInv'
<1> DEFINE live == redis.count > 0 /\ Later(redis.expires)
           next == IF live THEN [redis EXCEPT !.count = redis.count + 1]
                   ELSE [count |-> 1, expires |-> clock + Window]
<1>1. /\ backend = "redis" /\ requests[r].state = "arrived" /\ redis' = next
      /\ requests' = [requests EXCEPT ![r] =
           [state |-> IF next.count > Limit THEN "rejected" ELSE "admitted", at |-> clock]]
      /\ UNCHANGED <<clock, backend, windows, late>>
  BY DEF CheckRedis
<1>2. /\ clock \in Nat /\ LimitTypeOK /\ Window \in Nat /\ Window >= 1 /\ late \in BOOLEAN
      /\ redis \in [count : Nat, expires : Nat] /\ redis.count \in Nat /\ redis.expires \in Nat
  <2>1. LimitTypeOK BY DEF LimitInv
  <2>2. redis \in [count : Nat, expires : Nat] /\ late \in BOOLEAN BY <2>1 DEF LimitTypeOK
  <2> QED BY <2>1, <2>2, ClockIsNat, LimitsAssumption
<1>3. /\ redis.count # 0 => redis.expires >= Window /\ redis.expires <= clock + Window
      /\ \E s \in Nat : /\ redis.count # 0 => s = redis.expires - Window
                        /\ RateOK(Admitted(Requests), redis.count, s)
                        /\ ~late => PackedOK(Admitted(Requests), At, redis.count, s)
  BY <1>1 DEF LimitInv
<1>4. PICK s \in Nat : /\ redis.count # 0 => s = redis.expires - Window
                       /\ RateOK(Admitted(Requests), redis.count, s)
                       /\ ~late => PackedOK(Admitted(Requests), At, redis.count, s)
  BY <1>3
<1>5. live <=> redis.count # 0 /\ redis.expires > clock BY <1>2 DEF Later
<1>6. /\ next \in [count : Nat, expires : Nat]
      /\ IF redis.count # 0 /\ redis.expires > clock
         THEN next.count = redis.count + 1 /\ next.expires = redis.expires
         ELSE next.count = 1 /\ next.expires = clock + Window
  <2>1. CASE live
    <3>1. next = [redis EXCEPT !.count = redis.count + 1] BY <2>1
    <3> HIDE DEF next, live
    <3> QED BY <1>2, <1>5, <2>1, <3>1
  <2>2. CASE ~live
    <3>1. next = [count |-> 1, expires |-> clock + Window] BY <2>2
    <3> HIDE DEF next, live
    <3> QED BY <1>2, <1>5, <2>2, <3>1
  <2> QED BY <2>1, <2>2
<1> HIDE DEF next, live
<1>7. next.count \in Nat /\ next.expires \in Nat BY <1>6
<1>t. /\ requests'[r].at = clock
      /\ requests'[r].state = (IF next.count > Limit THEN "rejected" ELSE "admitted")
      /\ \A q \in Requests \ {r} : requests'[q] = requests[q]
      /\ requests' \in [Requests -> [state : {"new", "arrived", "admitted", "rejected", "waved through"},
                                     at : Nat]]
  BY <1>1, <1>2 DEF LimitTypeOK
<1>8. /\ At' \in [Requests -> Nat] /\ At'[r] = clock
      /\ \A q \in Requests \ {r} : At'[q] = At[q]
      /\ \A rs \in SUBSET Requests :
           /\ r \notin Admitted(rs)
           /\ Admitted(rs)' = IF r \in rs THEN Joined(Admitted(rs), r, next.count) ELSE Admitted(rs)
  <2>1. PICK n, x : n = next.count /\ x = clock OBVIOUS
  <2>2. /\ LimitTypeOK /\ requests[r].state = "arrived" /\ x \in Nat /\ requests'[r].at = x
        /\ requests'[r].state = (IF n > Limit THEN "rejected" ELSE "admitted")
        /\ \A q \in Requests \ {r} : requests'[q] = requests[q]
    BY <1>1, <1>2, <1>t, <2>1
  <2>3. /\ At' \in [Requests -> Nat] /\ At'[r] = x
        /\ \A q \in Requests \ {r} : At'[q] = At[q]
        /\ \A rs \in SUBSET Requests :
             /\ r \notin Admitted(rs)
             /\ Admitted(rs)' = IF r \in rs THEN Joined(Admitted(rs), r, n) ELSE Admitted(rs)
    BY <2>2, AnsweredRequest
  <2> QED BY <2>1, <2>3
<1>9. LimitTypeOK' BY <1>1, <1>2, <1>6, <1>t DEF LimitTypeOK, Instances
<1>10. \A q \in Requests : requests'[q].at <= clock'
  <2>1. \A q \in Requests : requests[q].at <= clock BY DEF LimitInv
  <2>2. clock' = clock BY <1>1
  <2>3. \A q \in Requests \ {r} : requests'[q].at <= clock BY <1>t, <2>1
  <2>a. requests'[r].at = clock BY <1>t
  <2>b. clock \in Nat /\ clock <= clock BY <1>2
  <2>4. requests'[r].at <= clock BY <2>a, <2>b
  <2> QED BY <2>2, <2>3, <2>4
<1> DEFINE u == IF redis.count # 0 /\ redis.expires > clock THEN s ELSE clock
           A == Admitted(Requests)
<1>11. u \in Nat /\ next.expires - Window = u /\ next.expires >= Window /\ next.expires <= clock + Window
  BY <1>2, <1>3, <1>4, <1>6
<1>n. NextWindow(redis.count, s, clock, next.count, u)
  <2>1. CASE redis.count # 0 /\ redis.expires > clock
    <3>1. u = s /\ next.count = redis.count + 1 /\ s = redis.expires - Window BY <1>4, <1>6, <2>1
    <3> HIDE DEF u
    <3> QED BY <1>2, <2>1, <3>1 DEF NextWindow
  <2>2. CASE redis.count # 0 /\ ~(redis.expires > clock)
    <3>1. u = clock /\ next.count = 1 /\ s = redis.expires - Window BY <1>4, <1>6, <2>2
    <3> HIDE DEF u
    <3> QED BY <1>2, <2>2, <3>1 DEF NextWindow
  <2>3. CASE redis.count = 0 BY <1>6, <2>3 DEF NextWindow
  <2> QED BY <2>1, <2>2, <2>3
<1>a. A \in SUBSET Requests /\ r \in Requests \ A BY <1>2, <1>8, RequestFields
<1>b. \A q \in A : At'[q] = At[q] BY <1>8, <1>a
<1>c. redis.count # 0 => clock >= s BY <1>2, <1>3, <1>4
<1>d. RateOK(A, redis.count, s) /\ (~late => PackedOK(A, At, redis.count, s)) BY <1>4
<1>12. Admitted(Requests)' = Joined(A, r, next.count) BY <1>8
<1> HIDE DEF u, A
<1>13. RateOK(Joined(A, r, next.count), next.count, u)
  BY <1>2, <1>7, <1>11, <1>n, <1>a, <1>d, HitRate
<1>14. ASSUME ~late PROVE PackedOK(Joined(A, r, next.count), At', next.count, u)
  <2>1. PackedOK(A, At', redis.count, s) BY <1>14, <1>b, <1>d, PackedOKSame
  <2> QED BY <1>2, <1>7, <1>8, <1>11, <1>n, <1>a, <1>c, <2>1, HitPacked
<1>15. \E x \in Nat : /\ redis'.count # 0 => x = redis'.expires - Window
                      /\ RateOK(Admitted(Requests)', redis'.count, x)
                      /\ ~late' => PackedOK(Admitted(Requests)', At', redis'.count, x)
  BY <1>1, <1>11, <1>12, <1>13, <1>14
<1> QED BY <1>1, <1>9, <1>10, <1>11, <1>15 DEF LimitInv

LEMMA LimitStep == LimitInv /\ [LimitNext]_limitVars => LimitInv'
<1> SUFFICES ASSUME LimitInv, [LimitNext]_limitVars PROVE LimitInv' OBVIOUS
<1>1. CASE LimitTick BY <1>1, TickKeeps
<1>2. ASSUME NEW r \in Requests, Arrive(r) PROVE LimitInv' BY <1>2, ArriveKeeps
<1>3. ASSUME NEW r \in Requests, CheckLocal(r) PROVE LimitInv' BY <1>3, LocalKeeps
<1>4. ASSUME NEW r \in Requests, CheckRedis(r) PROVE LimitInv' BY <1>4, RedisKeeps
<1>5. ASSUME NEW r \in Requests, RedisFault(r) PROVE LimitInv' BY <1>5, FaultKeeps
<1>6. CASE UNCHANGED limitVars
  <2>1. UNCHANGED <<clock, backend, windows, redis, requests, late>> BY <1>6 DEF limitVars
  <2>2. clock \in Nat BY ClockIsNat
  <2>3. LimitTypeOK' BY <2>1 DEF LimitInv, LimitTypeOK, Instances
  <2>4. clock' >= clock BY <2>1, <2>2
  <2>5. \A r \in Requests : requests'[r].at <= clock' BY <2>1 DEF LimitInv
  <2> QED BY <2>1, <2>3, <2>4, <2>5, Unadmitted
<1> QED BY <1>1, <1>2, <1>3, <1>4, <1>5, <1>6 DEF LimitNext

(***************************************************************************)
(* What the invariant says of one counter.                                  *)
(***************************************************************************)
LEMMA RateGives ==
  ASSUME NEW A \in SUBSET Requests, NEW count \in Nat, NEW s \in Nat, NEW c \in Nat,
         RateOK(A, count, s), count # 0 => s <= c
  PROVE  \E k \in 0..c : Window * k <= c /\ Cardinality(A) <= Limit * (k + 1)
<1>0. Limit \in Nat /\ Window \in Nat BY LimitsAssumption
<1>1. CASE count = 0
  <2>1. Cardinality(A) = 0 BY <1>1, FS_EmptySet DEF RateOK
  <2>2. 0 \in 0..c /\ Window * 0 <= c /\ Cardinality(A) <= Limit * (0 + 1) BY <1>0, <2>1
  <2> QED BY <2>2
<1>2. CASE count # 0
  <2>1. PICK k \in Nat : Window * k <= s /\ Cardinality(A) <= Limit * k + Used(count)
    BY <1>2 DEF RateOK, RateHeld
  <2>2. Window * k \in Nat /\ k <= Window * k /\ Limit * k \in Nat /\ Limit * (k + 1) = Limit * k + Limit
    BY Times
  <2>3. Used(count) \in Nat /\ Used(count) <= Limit BY UsedRange
  <2>4. Cardinality(A) \in Nat BY Card
  <2>5. Cardinality(A) <= Limit * (k + 1) BY <1>0, <2>1, <2>2, <2>3, <2>4
  <2>6. k \in 0..c /\ Window * k <= c BY <1>2, <2>1, <2>2
  <2> QED BY <2>5, <2>6
<1> QED BY <1>1, <1>2

LEMMA PackedGives ==
  ASSUME NEW A, NEW f, NEW count \in Nat, NEW s \in Nat, PackedOK(A, f, count, s), NEW t \in Nat
  PROVE  Cardinality(Between(A, f, t, t + Window)) < 2 * Limit
<1>0. Limit \in Nat /\ Limit >= 1 BY LimitsAssumption
<1>1. CASE count = 0
  <2>1. Between(A, f, t, t + Window) = {} BY <1>1 DEF PackedOK, Between
  <2>2. Cardinality(Between(A, f, t, t + Window)) = 0 BY <2>1, FS_EmptySet
  <2> QED BY <1>0, <2>2
<1>2. CASE count # 0 BY <1>2 DEF PackedOK, Packed
<1> QED BY <1>1, <1>2

LEMMA WithinIsBetween ==
  ASSUME LimitTypeOK, NEW rs \in SUBSET Requests, NEW t \in Nat
  PROVE  Within(rs, t) = Between(Admitted(rs), At, t, t + Window)
<1>1. Window \in Nat /\ t + Window \in Nat BY LimitsAssumption
<1>2. \A r \in Admitted(rs) : requests[r].at \in Nat /\ At[r] = requests[r].at
  BY RequestFields
<1>3. \A n \in Nat : n \in t..(t + Window - 1) <=> t <= n /\ n < t + Window BY <1>1
<1> QED BY <1>2, <1>3 DEF Within, Between

LEMMA InvAdmits == LimitInv => WindowAdmits
<1> SUFFICES ASSUME LimitInv, NEW rs \in Counters
             PROVE  /\ ~late => \A t \in 0..Horizon : Cardinality(Within(rs, t)) < 2 * Limit
                    /\ \E k \in 0..clock : Window * k <= clock
                                           /\ Cardinality(Admitted(rs)) <= Limit * (k + 1)
  BY DEF WindowAdmits
<1>0. LimitTypeOK /\ clock \in Nat /\ Window \in Nat BY ClockIsNat, LimitsAssumption DEF LimitInv
<1>1. PICK count \in Nat, s \in Nat :
        /\ rs \in SUBSET Requests
        /\ RateOK(Admitted(rs), count, s)
        /\ ~late => PackedOK(Admitted(rs), At, count, s)
        /\ count # 0 => s <= clock
  <2>1. CASE backend = "redis"
    <3>1. PICK s \in Nat : /\ redis.count # 0 => s = redis.expires - Window
                           /\ RateOK(Admitted(Requests), redis.count, s)
                           /\ ~late => PackedOK(Admitted(Requests), At, redis.count, s)
      BY <2>1 DEF LimitInv
    <3>2. redis.count \in Nat /\ redis.expires \in Nat BY <1>0 DEF LimitTypeOK
    <3>3. redis.count # 0 => redis.expires <= clock + Window BY <2>1 DEF LimitInv
    <3>4. redis.count # 0 => s <= clock BY <1>0, <3>1, <3>2, <3>3
    <3>5. rs = Requests BY <2>1 DEF Counters
    <3> QED BY <3>1, <3>2, <3>4, <3>5
  <2>2. CASE backend = "local"
    <3>1. PICK i \in Instances : rs = Mine(i) BY <2>2 DEF Counters, Mine
    <3>2. windows[i].count \in Nat /\ windows[i].start \in Nat BY <1>0 DEF LimitTypeOK
    <3>3. Mine(i) \in SUBSET Requests BY DEF Mine
    <3>4. /\ windows[i].start <= clock
          /\ RateOK(Admitted(Mine(i)), windows[i].count, windows[i].start)
          /\ ~late => PackedOK(Admitted(Mine(i)), At, windows[i].count, windows[i].start)
      BY <2>2 DEF LimitInv
    <3> QED BY <3>1, <3>2, <3>3, <3>4
  <2> QED BY <1>0, <2>1, <2>2 DEF LimitTypeOK
<1>2. Admitted(rs) \in SUBSET Requests BY <1>1 DEF Admitted
<1>3. ASSUME ~late, NEW t \in 0..Horizon PROVE Cardinality(Within(rs, t)) < 2 * Limit
  <2>1. t \in Nat BY LimitsAssumption
  <2>2. Within(rs, t) = Between(Admitted(rs), At, t, t + Window) BY <1>0, <1>1, <2>1, WithinIsBetween
  <2>3. PICK A, f : A = Admitted(rs) /\ f = At OBVIOUS
  <2>4. PackedOK(A, f, count, s) BY <1>1, <1>3, <2>3
  <2>5. Cardinality(Between(A, f, t, t + Window)) < 2 * Limit BY <2>1, <2>4, PackedGives
  <2> QED BY <2>2, <2>3, <2>5
<1>4. \E k \in 0..clock : Window * k <= clock /\ Cardinality(Admitted(rs)) <= Limit * (k + 1)
  <2>1. PICK A, c : A = Admitted(rs) /\ c = clock OBVIOUS
  <2>2. A \in SUBSET Requests /\ c \in Nat /\ RateOK(A, count, s) /\ (count # 0 => s <= c)
    BY <1>0, <1>1, <1>2, <2>1
  <2>3. \E k \in 0..c : Window * k <= c /\ Cardinality(A) <= Limit * (k + 1) BY <2>2, RateGives
  <2> QED BY <2>1, <2>3
<1> QED BY <1>3, <1>4

(* LimitInv is inductive, so it holds of every reachable state.              *)
LEMMA LimitInvHolds == LimitSpec => []LimitInv
<1> USE DEF LimitSpec
<1> HIDE DEF LimitInv, LimitInit, LimitNext, limitVars
<1> QED BY LimitInitInv, LimitStep, PTL

(* The state keeps its types, whatever the limit, the window, the requests   *)
(* and the backend: no counter leaves the naturals, no request is answered   *)
(* in a state of its own.                                                   *)
THEOREM LimitTypes == LimitSpec => []LimitTypeOK
<1>1. LimitInv => LimitTypeOK BY DEF LimitInv
<1> QED BY <1>1, LimitInvHolds, PTL

(* For every limit, window and number of requests and instances: while no    *)
(* request is held up before the lock, no stretch of a window's length       *)
(* admits 2 * Limit requests of one counter, and whatever is held up, a      *)
(* counter admits Limit for each window begun (api/limits.py:76-101).        *)
THEOREM WindowsAdmit == LimitSpec => []WindowAdmits
BY InvAdmits, LimitInvHolds, PTL

-----------------------------------------------------------------------------
(***************************************************************************)
(* ModelReplies: an answer is the model's to that question, and who asks   *)
(* alone asks once.                                                        *)
(***************************************************************************)

ModelReply == UNION {ReplyLines[task] : task \in Tasks}
Given == {AnswerOf(key[1], key[2], lines) : key \in ReplyKeys, lines \in ModelReply}
Answers == Given \cup {<<text>> : text \in Questions} \cup {<<>>, NoAnswerYet}
AskStages == {"idle", "lookup", "ask", "keep", "use", "done"}
CallerRecords == [pc : AskStages, task : Tasks, text : Questions \cup {""},
                  answer : Answers, names : Answers]

ReplyTypes ==
  /\ replyCache \in [ReplyKeys -> Answers]
  /\ callers \in [Callers -> CallerRecords]
  /\ replies \in [ReplyKeys -> Seq(ModelReply)]

Asking(c) == callers[c].pc \in {"ask", "keep"}

(* Only HyDE's answers are dropped after the model gave them.                *)
SpoiltByHyde == \A key \in spoilt : key[1] = "hyde"

(* Who asks alone asks first: the model has given no reply before, one once  *)
(* it is about to be kept, and a text without a kept answer or a caller      *)
(* about to keep one has had no reply.                                       *)
AskedOnce ==
  \A key \in ReplyKeys : key \notin crowded \cup spoilt =>
    /\ \A c, d \in Callers : Asking(c) /\ Asking(d) /\ KeyOf(c) = key /\ KeyOf(d) = key => c = d
    /\ \A c \in Callers : Asking(c) /\ KeyOf(c) = key => replyCache[key] = NoAnswerYet
    /\ \A c \in Callers : callers[c].pc = "ask" /\ KeyOf(c) = key => replies[key] = <<>>
    /\ replyCache[key] = NoAnswerYet /\ (\A c \in Callers : callers[c].pc = "keep" => KeyOf(c) # key)
         => replies[key] = <<>>
    /\ Len(replies[key]) <= 1

Answered(answer, all, key) ==
  \E i \in DOMAIN all[key] : answer = AnswerOf(key[1], key[2], all[key][i])
CallerKey(r) == <<r.task, r.text>>

(* What a caller is about to keep, or uses for a memory, was answered to the *)
(* question it asks.                                                         *)
Sound(r, all) ==
  /\ r.pc # "idle" => CallerKey(r) \in ReplyKeys
  /\ r.pc = "keep" => r.answer # NoAnswerYet
  /\ r.pc = "keep" \/ (r.pc \in {"use", "done"} /\ r.task = "extract") =>
       Answered(r.answer, all, CallerKey(r))
  /\ r.names # NoAnswerYet => r.pc # "idle" /\ r.task = "extract" /\ Answered(r.names, all, CallerKey(r))

AnswersGiven ==
  /\ \A key \in ReplyKeys : replyCache[key] # NoAnswerYet => Answered(replyCache[key], replies, key)
  /\ \A c \in Callers : Sound(callers[c], replies)

RepliesInv == ReplyTypes /\ SpoiltByHyde /\ AskedOnce /\ AnswersGiven

LEMMA ChangedCaller ==
  ASSUME NEW r \in CallerRecords, NEW pc \in AskStages
  PROVE  /\ [r EXCEPT !.pc = pc] \in CallerRecords
         /\ [r EXCEPT !.pc = pc].pc = pc
         /\ [r EXCEPT !.pc = pc].task = r.task /\ [r EXCEPT !.pc = pc].text = r.text
         /\ [r EXCEPT !.pc = pc].answer = r.answer /\ [r EXCEPT !.pc = pc].names = r.names
BY DEF CallerRecords

AnsweredTo(r, pc, answer) == [r EXCEPT !.pc = pc, !.answer = answer]
LEMMA AnsweredCaller ==
  ASSUME NEW r \in CallerRecords, NEW pc \in AskStages, NEW answer \in Answers
  PROVE  LET to == AnsweredTo(r, pc, answer)
         IN /\ to \in CallerRecords /\ to.pc = pc /\ to.answer = answer
            /\ to.names = r.names /\ to.task = r.task /\ to.text = r.text
BY DEF CallerRecords, AnsweredTo

LEMMA IdleCaller ==
  /\ NotAsking \in CallerRecords /\ NotAsking.pc = "idle"
  /\ NotAsking.names = NoAnswerYet /\ NotAsking.task # "extract"
BY DEF NotAsking, CallerRecords, AskStages, Tasks, Answers

LEMMA MovedCaller ==
  ASSUME ReplyTypes, NEW c \in Callers, NEW r \in CallerRecords,
         callers' = [callers EXCEPT ![c] = r]
  PROVE  /\ callers' \in [Callers -> CallerRecords] /\ callers'[c] = r
         /\ \A d \in Callers \ {c} : callers'[d] = callers[d]
         /\ \A d \in Callers \ {c} : KeyOf(d)' = KeyOf(d) /\ (Asking(d)' <=> Asking(d))
<1>1. /\ callers' \in [Callers -> CallerRecords] /\ callers'[c] = r
      /\ \A d \in Callers \ {c} : callers'[d] = callers[d]
  BY DEF ReplyTypes
<1> QED
  BY <1>1 DEF KeyOf, Asking

(* No answer is mistaken for a missing one.                                  *)
LEMMA AnswersAreAnswers ==
  ASSUME NEW key \in ReplyKeys, NEW lines \in ReplyLines[key[1]]
  PROVE  AnswerOf(key[1], key[2], lines) # NoAnswerYet
<1>1. key[1] \in Tasks /\ key[2] \in Questions
  BY DEF ReplyKeys
<1>2. lines # NoAnswerYet
  BY <1>1, RepliesAssumption
<1>3. <<key[2]>> # NoAnswerYet
  BY <1>1, RepliesAssumption DEF NoAnswerYet
<1>4. Verdict(lines) # NoAnswerYet
  BY DEF Verdict, NoAnswerYet
<1>5. Hypothetical(key[2], lines) # NoAnswerYet
  BY <1>2, <1>3 DEF Hypothetical
<1>6. Lookups(key[2], lines) # NoAnswerYet
  <2>1. ~(Len(NoAnswerYet) > 1)
    BY DEF NoAnswerYet
  <2> QED
    BY <1>3, <2>1 DEF Lookups
<1>7. Knowledge(lines) # NoAnswerYet
  BY <1>2 DEF Knowledge, NoAnswerYet
<1> QED
  BY <1>1, <1>4, <1>5, <1>6, <1>7 DEF AnswerOf, Tasks

LEMMA RepliesInvInit == ReplyInit => RepliesInv
<1> SUFFICES ASSUME ReplyInit PROVE RepliesInv
  OBVIOUS
<1> USE DEF ReplyInit
<1>1. NoAnswerYet \in Answers /\ <<>> \in Seq(ModelReply)
  BY DEF Answers
<1>2. ReplyTypes
  BY <1>1, IdleCaller DEF ReplyTypes
<1>3. \A c \in Callers : callers[c].pc = "idle" /\ callers[c].names = NoAnswerYet
                         /\ callers[c].task # "extract"
  BY IdleCaller
<1>4. SpoiltByHyde
  BY DEF SpoiltByHyde
<1>5. AskedOnce
  BY <1>3 DEF AskedOnce, Asking
<1>6. AnswersGiven
  BY <1>3 DEF AnswersGiven, Sound
<1> QED
  BY <1>2, <1>4, <1>5, <1>6 DEF RepliesInv

(* A step that gives no reply and keeps none, and after which its caller     *)
(* does not ask, unless it dropped an answer about to be kept.               *)
LEMMA AskedOnceElsewhere ==
  ASSUME ReplyTypes, AskedOnce, NEW c \in Callers, NEW r \in CallerRecords,
         callers' = [callers EXCEPT ![c] = r], UNCHANGED <<replyCache, replies>>,
         crowded \subseteq crowded', spoilt \subseteq spoilt',
         r.pc \notin {"ask", "keep"},
         callers[c].pc = "keep" => KeyOf(c) \in spoilt'
  PROVE  AskedOnce'
<1>1. callers'[c] = r /\ \A d \in Callers \ {c} : callers'[d] = callers[d] /\ KeyOf(d)' = KeyOf(d)
  BY MovedCaller
<1> SUFFICES ASSUME NEW key \in ReplyKeys, key \notin crowded', key \notin spoilt'
             PROVE  /\ \A d, e \in Callers : Asking(d)' /\ Asking(e)' /\ KeyOf(d)' = key /\ KeyOf(e)' = key => d = e
                    /\ \A d \in Callers : Asking(d)' /\ KeyOf(d)' = key => replyCache'[key] = NoAnswerYet
                    /\ \A d \in Callers : callers'[d].pc = "ask" /\ KeyOf(d)' = key => replies'[key] = <<>>
                    /\ replyCache'[key] = NoAnswerYet
                         /\ (\A d \in Callers : callers'[d].pc = "keep" => KeyOf(d)' # key)
                         => replies'[key] = <<>>
                    /\ Len(replies'[key]) <= 1
  BY DEF AskedOnce
<1>2. \A d \in Callers : Asking(d)' => d # c /\ Asking(d) /\ KeyOf(d)' = KeyOf(d) /\ callers'[d] = callers[d]
  BY <1>1 DEF Asking
<1>3. (\A d \in Callers : callers'[d].pc = "keep" => KeyOf(d)' # key) =>
         \A d \in Callers : callers[d].pc = "keep" => KeyOf(d) # key
  BY <1>1
<1> QED
  BY <1>2, <1>3 DEF AskedOnce, Asking

LEMMA AnswersStayGiven ==
  ASSUME NEW all, NEW more, \A key \in ReplyKeys : \A a : Answered(a, all, key) => Answered(a, more, key),
         NEW r, Sound(r, all)
  PROVE  Sound(r, more)
BY DEF Sound

(* A step of one caller that gives no reply and keeps none.                  *)
LEMMA SoundCaller ==
  ASSUME RepliesInv, NEW c \in Callers, NEW r \in CallerRecords,
         callers' = [callers EXCEPT ![c] = r], UNCHANGED <<replyCache, replies>>,
         Sound(r, replies)
  PROVE  ReplyTypes' /\ AnswersGiven'
<1>1. callers' \in [Callers -> CallerRecords] /\ callers'[c] = r
      /\ \A d \in Callers \ {c} : callers'[d] = callers[d]
  BY MovedCaller DEF RepliesInv
<1>2. ReplyTypes'
  BY <1>1 DEF RepliesInv, ReplyTypes
<1>3. \A d \in Callers : Sound(callers'[d], replies)
  BY <1>1 DEF RepliesInv, AnswersGiven
<1> QED
  BY <1>2, <1>3 DEF RepliesInv, AnswersGiven

LEMMA BeginAskingStep ==
  ASSUME RepliesInv, NEW c \in Callers, NEW task \in Tasks, NEW text \in Questions,
         BeginAsking(c, task, text)
  PROVE  RepliesInv'
<1> DEFINE r == [pc |-> "lookup", task |-> task, text |-> text, answer |-> <<>>, names |-> NoAnswerYet]
<1>1. r \in CallerRecords /\ r.pc = "lookup" /\ r.names = NoAnswerYet /\ CallerKey(r) \in ReplyKeys
  BY DEF CallerRecords, AskStages, Answers, CallerKey, ReplyKeys
<1>2. /\ callers' = [callers EXCEPT ![c] = r] /\ callers[c].pc # "keep"
      /\ UNCHANGED <<replyCache, replies, crowded, spoilt>>
  BY DEF BeginAsking
<1> HIDE DEF r
<1>3. Sound(r, replies)
  BY <1>1 DEF Sound
<1>4. ReplyTypes' /\ AnswersGiven'
  BY <1>1, <1>2, <1>3, SoundCaller
<1>5. AskedOnce'
  BY <1>1, <1>2, AskedOnceElsewhere DEF RepliesInv
<1>6. SpoiltByHyde'
  BY <1>2 DEF RepliesInv, SpoiltByHyde
<1> QED
  BY <1>4, <1>5, <1>6 DEF RepliesInv

LEMMA ReadCacheStep ==
  ASSUME RepliesInv, NEW c \in Callers, ReadCache(c)
  PROVE  RepliesInv'
<1> DEFINE me == callers[c]
<1>1. /\ ReplyTypes /\ me \in CallerRecords /\ me.pc = "lookup" /\ Sound(me, replies)
      /\ CallerKey(me) = KeyOf(c)
  BY DEF RepliesInv, ReplyTypes, ReadCache, AnswersGiven, KeyOf, CallerKey
<1>2. PICK key \in ReplyKeys : key = KeyOf(c) /\ key = CallerKey(me)
  BY <1>1 DEF Sound
<1>3. PICK kept \in Answers : kept = replyCache[key]
  BY <1>1 DEF ReplyTypes
<1>4. /\ callers' = [callers EXCEPT ![c] =
           IF kept = NoAnswerYet THEN [me EXCEPT !.pc = "ask"]
           ELSE [me EXCEPT !.pc = "use", !.answer = kept]]
      /\ UNCHANGED <<replyCache, replies, spoilt>> /\ crowded \subseteq crowded'
      /\ kept = NoAnswerYet /\ (\E d \in Callers \ {c} : KeyOf(d) = key /\ Asking(d)) => key \in crowded'
  BY <1>2, <1>3 DEF ReadCache, Asking
<1>5. "ask" \in AskStages /\ "use" \in AskStages
  BY DEF AskStages
<1>6. SpoiltByHyde'
  BY <1>4 DEF RepliesInv, SpoiltByHyde
<1>7. CASE kept # NoAnswerYet
  <2> DEFINE hit == AnsweredTo(me, "use", kept)
  <2>1. /\ hit \in CallerRecords /\ hit.pc = "use" /\ hit.answer = kept
        /\ hit.names = me.names /\ hit.task = me.task /\ hit.text = me.text
    BY <1>1, <1>5, AnsweredCaller
  <2>2. callers' = [callers EXCEPT ![c] = hit]
    BY <1>4, <1>7 DEF AnsweredTo
  <2>3. Answered(kept, replies, key)
    BY <1>3, <1>7 DEF RepliesInv, AnswersGiven
  <2> HIDE DEF hit, me
  <2>4. CallerKey(hit) = key
    BY <1>2, <2>1 DEF CallerKey
  <2>5. Sound(hit, replies)
    BY <1>1, <1>2, <2>1, <2>3, <2>4 DEF Sound
  <2>6. ReplyTypes' /\ AnswersGiven'
    BY <1>4, <2>1, <2>2, <2>5, SoundCaller
  <2>7. AskedOnce'
    BY <1>1, <1>4, <2>1, <2>2, AskedOnceElsewhere DEF RepliesInv, me
  <2> QED
    BY <1>6, <2>6, <2>7 DEF RepliesInv
<1>8. CASE kept = NoAnswerYet
  <2> DEFINE miss == [me EXCEPT !.pc = "ask"]
  <2>1. /\ miss \in CallerRecords /\ miss.pc = "ask"
        /\ miss.names = me.names /\ miss.task = me.task /\ miss.text = me.text
    BY <1>1, <1>5, ChangedCaller
  <2>2. callers' = [callers EXCEPT ![c] = miss]
    BY <1>4, <1>8
  <2> HIDE DEF miss, me
  <2>3. CallerKey(miss) = key
    BY <1>2, <2>1 DEF CallerKey
  <2>4. Sound(miss, replies)
    BY <1>1, <1>2, <2>1, <2>3 DEF Sound
  <2>5. ReplyTypes' /\ AnswersGiven'
    BY <1>4, <2>1, <2>2, <2>4, SoundCaller
  <2>6. /\ callers'[c] = miss /\ KeyOf(c)' = key
        /\ \A d \in Callers \ {c} : callers'[d] = callers[d]
        /\ \A d \in Callers \ {c} : KeyOf(d)' = KeyOf(d) /\ (Asking(d)' <=> Asking(d))
    BY <1>1, <2>1, <2>2, <2>3, MovedCaller DEF KeyOf, CallerKey
  <2>7. AskedOnce'
    <3> SUFFICES ASSUME NEW k \in ReplyKeys, k \notin crowded', k \notin spoilt
                 PROVE  /\ \A d, e \in Callers : Asking(d)' /\ Asking(e)' /\ KeyOf(d)' = k /\ KeyOf(e)' = k => d = e
                        /\ \A d \in Callers : Asking(d)' /\ KeyOf(d)' = k => replyCache[k] = NoAnswerYet
                        /\ \A d \in Callers : callers'[d].pc = "ask" /\ KeyOf(d)' = k => replies[k] = <<>>
                        /\ replyCache[k] = NoAnswerYet
                             /\ (\A d \in Callers : callers'[d].pc = "keep" => KeyOf(d)' # k)
                             => replies[k] = <<>>
                        /\ Len(replies[k]) <= 1
      BY <1>4 DEF AskedOnce
    <3>1. k \notin crowded \cup spoilt
      BY <1>4
    <3>2. ASSUME \A d \in Callers : callers'[d].pc = "keep" => KeyOf(d)' # k, NEW d \in Callers
          PROVE  callers[d].pc = "keep" => KeyOf(d) # k
      <4>1. CASE d = c
        BY <4>1, <1>1 DEF me
      <4>2. CASE d # c
        BY <4>2, <3>2, <2>6
      <4> QED
        BY <4>1, <4>2
    <3>3. /\ replyCache[k] = NoAnswerYet
             /\ (\A d \in Callers : callers'[d].pc = "keep" => KeyOf(d)' # k)
             => replies[k] = <<>>
          /\ Len(replies[k]) <= 1
      BY <3>1, <3>2 DEF RepliesInv, AskedOnce
    <3>4. CASE k = key
      <4>1. \A d \in Callers \ {c} : ~(Asking(d) /\ KeyOf(d) = k)
        BY <1>4, <1>8, <3>4
      <4>2. \A d \in Callers : callers[d].pc = "keep" => KeyOf(d) # k
        BY <1>1, <4>1 DEF Asking, me
      <4>3. replyCache[k] = NoAnswerYet /\ replies[k] = <<>>
        BY <1>3, <1>8, <3>1, <3>4, <4>2 DEF RepliesInv, AskedOnce
      <4>4. \A d \in Callers : Asking(d)' /\ KeyOf(d)' = k => d = c
        BY <2>6, <4>1
      <4> QED
        BY <3>3, <4>3, <4>4
    <3>5. CASE k # key
      <4>1. \A d \in Callers : KeyOf(d)' = k =>
              /\ d \in Callers \ {c} /\ callers'[d] = callers[d] /\ KeyOf(d) = k
              /\ Asking(d)' => Asking(d)
        BY <2>6, <3>5
      <4> QED
        BY <3>1, <3>3, <4>1 DEF RepliesInv, AskedOnce
    <3> QED
      BY <3>4, <3>5
  <2> QED
    BY <1>6, <2>5, <2>7 DEF RepliesInv
<1> QED
  BY <1>7, <1>8

LEMMA ModelAnswersStep ==
  ASSUME RepliesInv, NEW c \in Callers, NEW lines \in ReplyLines[callers[c].task],
         ModelAnswers(c, lines)
  PROVE  RepliesInv'
<1> DEFINE me == callers[c]
<1>1. /\ ReplyTypes /\ me \in CallerRecords /\ me.pc = "ask" /\ Sound(me, replies)
      /\ CallerKey(me) = KeyOf(c)
  BY DEF RepliesInv, ReplyTypes, ModelAnswers, AnswersGiven, KeyOf, CallerKey
<1>2. PICK key \in ReplyKeys : key = KeyOf(c) /\ key = CallerKey(me)
  BY <1>1 DEF Sound
<1>3. key[1] = me.task /\ key[2] = me.text /\ me.task \in Tasks
  <2>1. me.task \in Tasks
    BY <1>1 DEF CallerRecords
  <2>2. key = <<me.task, me.text>>
    BY <1>2 DEF CallerKey
  <2> HIDE DEF me
  <2> QED
    BY <2>1, <2>2
<1>4. PICK answer \in Answers : answer = AnswerOf(key[1], key[2], lines) /\ answer # NoAnswerYet
  <2>1. lines \in ModelReply
    BY <1>3 DEF ModelReply
  <2>2. AnswerOf(key[1], key[2], lines) \in Answers
    BY <2>1 DEF Given, Answers
  <2> QED
    BY <1>3, <2>2, AnswersAreAnswers
<1> DEFINE to == AnsweredTo(me, "keep", answer)
<1>5. /\ to \in CallerRecords /\ to.pc = "keep" /\ to.answer = answer
      /\ to.names = me.names /\ to.task = me.task /\ to.text = me.text
  <2>1. "keep" \in AskStages
    BY DEF AskStages
  <2> QED
    BY <1>1, <2>1, AnsweredCaller
<1>6. /\ callers' = [callers EXCEPT ![c] = to]
      /\ replies' = [replies EXCEPT ![key] = Append(replies[key], lines)]
      /\ UNCHANGED <<replyCache, crowded, spoilt>>
  BY <1>2, <1>3, <1>4 DEF ModelAnswers, AnsweredTo
<1>7. replies[key] \in Seq(ModelReply) /\ lines \in ModelReply
  BY <1>1, <1>3 DEF ReplyTypes, ModelReply
<1> HIDE DEF to, me
<1>8. /\ replies' \in [ReplyKeys -> Seq(ModelReply)]
      /\ replies'[key] = Append(replies[key], lines)
      /\ \A k \in ReplyKeys \ {key} : replies'[k] = replies[k]
  BY <1>1, <1>6, <1>7 DEF ReplyTypes
<1>9. CallerKey(to) = key
  BY <1>2, <1>5 DEF CallerKey
<1>10. /\ callers' \in [Callers -> CallerRecords] /\ callers'[c] = to /\ KeyOf(c)' = key
       /\ \A d \in Callers \ {c} : callers'[d] = callers[d]
       /\ \A d \in Callers \ {c} : KeyOf(d)' = KeyOf(d) /\ (Asking(d)' <=> Asking(d))
  BY <1>1, <1>5, <1>6, <1>9, MovedCaller DEF KeyOf, CallerKey
<1>11. ReplyTypes' /\ SpoiltByHyde'
  BY <1>1, <1>6, <1>8, <1>10 DEF ReplyTypes, RepliesInv, SpoiltByHyde
<1>12. AnswersGiven'
  <2>1. ASSUME NEW k \in ReplyKeys, NEW a, Answered(a, replies, k)
        PROVE  Answered(a, replies', k)
    <3>1. CASE k = key
      <4>1. PICK i \in DOMAIN replies[key] : a = AnswerOf(key[1], key[2], replies[key][i])
        BY <2>1, <3>1 DEF Answered
      <4>2. i \in DOMAIN replies'[key] /\ replies'[key][i] = replies[key][i]
        BY <1>7, <1>8, AppendProperties
      <4> QED
        BY <3>1, <4>1, <4>2 DEF Answered
    <3>2. CASE k # key
      BY <2>1, <3>2, <1>8 DEF Answered
    <3> QED
      BY <3>1, <3>2
  <2>2. Answered(answer, replies', key)
    <3>1. /\ Len(replies[key]) + 1 \in DOMAIN replies'[key]
          /\ replies'[key][Len(replies[key]) + 1] = lines
      BY <1>7, <1>8
    <3> QED
      BY <1>4, <3>1 DEF Answered
  <2>3. \A d \in Callers \ {c} : Sound(callers'[d], replies')
    BY <1>10, <2>1, AnswersStayGiven DEF RepliesInv, AnswersGiven
  <2>4. Sound(to, replies')
    BY <1>1, <1>2, <1>4, <1>5, <1>9, <2>1, <2>2 DEF Sound
  <2>5. \A k \in ReplyKeys : replyCache[k] # NoAnswerYet => Answered(replyCache[k], replies', k)
    BY <2>1 DEF RepliesInv, AnswersGiven
  <2> QED
    BY <1>6, <1>10, <2>3, <2>4, <2>5 DEF AnswersGiven
<1>13. AskedOnce'
  <2> SUFFICES ASSUME NEW k \in ReplyKeys, k \notin crowded \cup spoilt
               PROVE  /\ \A d, e \in Callers : Asking(d)' /\ Asking(e)' /\ KeyOf(d)' = k /\ KeyOf(e)' = k => d = e
                      /\ \A d \in Callers : Asking(d)' /\ KeyOf(d)' = k => replyCache[k] = NoAnswerYet
                      /\ \A d \in Callers : callers'[d].pc = "ask" /\ KeyOf(d)' = k => replies'[k] = <<>>
                      /\ replyCache[k] = NoAnswerYet
                           /\ (\A d \in Callers : callers'[d].pc = "keep" => KeyOf(d)' # k)
                           => replies'[k] = <<>>
                      /\ Len(replies'[k]) <= 1
    BY <1>6 DEF AskedOnce
  <2>1. Asking(c) /\ callers[c].pc = "ask" /\ KeyOf(c) = key
    BY <1>1, <1>2 DEF Asking, me
  <2>2. CASE k = key
    <3>1. replyCache[k] = NoAnswerYet /\ replies[k] = <<>>
      BY <2>1, <2>2 DEF RepliesInv, AskedOnce
    <3>2. \A d \in Callers : Asking(d)' /\ KeyOf(d)' = k => d = c
      BY <1>10, <2>1, <2>2 DEF RepliesInv, AskedOnce
    <3>3. Len(replies'[k]) = 1
      <4>1. Len(Append(replies[key], lines)) = Len(replies[key]) + 1
        BY <1>7
      <4>2. Len(replies[key]) = 0
        BY <2>2, <3>1
      <4> QED
        BY <1>8, <2>2, <4>1, <4>2
    <3>4. callers'[c].pc = "keep" /\ KeyOf(c)' = k
      BY <1>5, <1>10, <2>2
    <3>5. \A d \in Callers : callers'[d].pc = "ask" => Asking(d)'
      BY DEF Asking
    <3> QED
      BY <3>1, <3>2, <3>3, <3>4, <3>5
  <2>3. CASE k # key
    <3>1. \A d \in Callers : KeyOf(d)' = k =>
            /\ d \in Callers \ {c} /\ callers'[d] = callers[d] /\ KeyOf(d) = k
            /\ Asking(d)' => Asking(d)
      BY <1>10, <2>3
    <3>2. replies'[k] = replies[k]
      BY <1>8, <2>3
    <3>3. ASSUME \A d \in Callers : callers'[d].pc = "keep" => KeyOf(d)' # k, NEW d \in Callers
          PROVE  callers[d].pc = "keep" => KeyOf(d) # k
      <4>1. CASE d = c
        BY <4>1, <2>1
      <4>2. CASE d # c
        BY <4>2, <3>3, <1>10
      <4> QED
        BY <4>1, <4>2
    <3> QED
      BY <3>1, <3>2, <3>3 DEF RepliesInv, AskedOnce
  <2> QED
    BY <2>2, <2>3
<1> QED
  BY <1>11, <1>12, <1>13 DEF RepliesInv

LEMMA KeepReplyStep ==
  ASSUME RepliesInv, NEW c \in Callers, KeepReply(c)
  PROVE  RepliesInv'
<1> DEFINE me == callers[c]
<1>1. /\ ReplyTypes /\ me \in CallerRecords /\ me.pc = "keep" /\ Sound(me, replies)
      /\ CallerKey(me) = KeyOf(c)
  BY DEF RepliesInv, ReplyTypes, KeepReply, AnswersGiven, KeyOf, CallerKey
<1>2. PICK key \in ReplyKeys : key = KeyOf(c) /\ key = CallerKey(me)
  BY <1>1 DEF Sound
<1>3. PICK answer \in Answers : answer = me.answer /\ answer # NoAnswerYet /\ Answered(answer, replies, key)
  BY <1>1, <1>2 DEF Sound, CallerRecords
<1> DEFINE to == [me EXCEPT !.pc = "use"]
<1>4. /\ to \in CallerRecords /\ to.pc = "use" /\ to.answer = answer
      /\ to.names = me.names /\ to.task = me.task /\ to.text = me.text
  BY <1>1, <1>3, ChangedCaller DEF AskStages
<1>5. /\ callers' = [callers EXCEPT ![c] = to]
      /\ replyCache' = [replyCache EXCEPT ![key] = answer]
      /\ UNCHANGED <<replies, crowded, spoilt>>
  BY <1>2, <1>3 DEF KeepReply, Kept
<1> HIDE DEF to, me
<1>6. /\ replyCache' \in [ReplyKeys -> Answers]
      /\ replyCache'[key] = answer
      /\ \A k \in ReplyKeys \ {key} : replyCache'[k] = replyCache[k]
  BY <1>1, <1>5 DEF ReplyTypes
<1>7. CallerKey(to) = key
  BY <1>2, <1>4 DEF CallerKey
<1>8. /\ callers' \in [Callers -> CallerRecords] /\ callers'[c] = to /\ KeyOf(c)' = key
      /\ \A d \in Callers \ {c} : callers'[d] = callers[d]
      /\ \A d \in Callers \ {c} : KeyOf(d)' = KeyOf(d) /\ (Asking(d)' <=> Asking(d))
  BY <1>1, <1>4, <1>5, <1>7, MovedCaller DEF KeyOf, CallerKey
<1>9. ReplyTypes' /\ SpoiltByHyde'
  BY <1>1, <1>5, <1>6, <1>8 DEF ReplyTypes, RepliesInv, SpoiltByHyde
<1>10. AnswersGiven'
  <2>1. Sound(to, replies)
    BY <1>1, <1>2, <1>3, <1>4, <1>7 DEF Sound
  <2>2. \A d \in Callers : Sound(callers'[d], replies)
    BY <1>8, <2>1 DEF RepliesInv, AnswersGiven
  <2>3. \A k \in ReplyKeys : replyCache'[k] # NoAnswerYet => Answered(replyCache'[k], replies, k)
    BY <1>3, <1>6 DEF RepliesInv, AnswersGiven
  <2> QED
    BY <1>5, <2>2, <2>3 DEF AnswersGiven
<1>11. AskedOnce'
  <2> SUFFICES ASSUME NEW k \in ReplyKeys, k \notin crowded \cup spoilt
               PROVE  /\ \A d, e \in Callers : Asking(d)' /\ Asking(e)' /\ KeyOf(d)' = k /\ KeyOf(e)' = k => d = e
                      /\ \A d \in Callers : Asking(d)' /\ KeyOf(d)' = k => replyCache'[k] = NoAnswerYet
                      /\ \A d \in Callers : callers'[d].pc = "ask" /\ KeyOf(d)' = k => replies[k] = <<>>
                      /\ replyCache'[k] = NoAnswerYet
                           /\ (\A d \in Callers : callers'[d].pc = "keep" => KeyOf(d)' # k)
                           => replies[k] = <<>>
                      /\ Len(replies[k]) <= 1
    BY <1>5 DEF AskedOnce
  <2>1. Asking(c) /\ callers[c].pc = "keep" /\ KeyOf(c) = key /\ ~Asking(c)'
    BY <1>1, <1>2, <1>4, <1>8 DEF Asking, me
  <2>2. CASE k = key
    <3>1. \A d \in Callers : ~(Asking(d)' /\ KeyOf(d)' = k)
      BY <1>8, <2>1, <2>2 DEF RepliesInv, AskedOnce
    <3>2. \A d \in Callers : callers'[d].pc = "ask" => Asking(d)'
      BY DEF Asking
    <3>3. Len(replies[k]) <= 1
      BY DEF RepliesInv, AskedOnce
    <3> QED
      BY <1>3, <1>6, <2>2, <3>1, <3>2, <3>3
  <2>3. CASE k # key
    <3>1. \A d \in Callers : KeyOf(d)' = k =>
            /\ d \in Callers \ {c} /\ callers'[d] = callers[d] /\ KeyOf(d) = k
            /\ Asking(d)' => Asking(d)
      BY <1>8, <2>3
    <3>2. replyCache'[k] = replyCache[k]
      BY <1>6, <2>3
    <3>3. ASSUME \A d \in Callers : callers'[d].pc = "keep" => KeyOf(d)' # k, NEW d \in Callers
          PROVE  callers[d].pc = "keep" => KeyOf(d) # k
      <4>1. CASE d = c
        BY <4>1, <2>1, <2>3
      <4>2. CASE d # c
        BY <4>2, <3>3, <1>8
      <4> QED
        BY <4>1, <4>2
    <3> QED
      BY <3>1, <3>2, <3>3 DEF RepliesInv, AskedOnce
  <2> QED
    BY <2>2, <2>3
<1> QED
  BY <1>9, <1>10, <1>11 DEF RepliesInv

LEMMA ModelFailsStep ==
  ASSUME RepliesInv, NEW c \in Callers, ModelFails(c)
  PROVE  RepliesInv'
<1> DEFINE me == callers[c]
<1>1. /\ ReplyTypes /\ me \in CallerRecords /\ Sound(me, replies)
      /\ me.pc = "ask" \/ (me.pc = "keep" /\ me.task = "hyde")
      /\ CallerKey(me) = KeyOf(c)
  BY DEF RepliesInv, ReplyTypes, ModelFails, AnswersGiven, KeyOf, CallerKey
<1>2. PICK key \in ReplyKeys : key = KeyOf(c) /\ key = <<me.task, me.text>>
  BY <1>1 DEF Sound, CallerKey
<1>3. PICK answer \in Answers : answer = <<me.text>>
  <2> HIDE DEF me
  <2>1. me.text \in Questions
    BY <1>2 DEF ReplyKeys
  <2> QED
    BY <2>1 DEF Answers
<1>4. PICK to \in CallerRecords :
        /\ callers' = [callers EXCEPT ![c] = to]
        /\ to.pc \notin {"ask", "keep"} /\ Sound(to, replies)
  <2>1. CASE me.task \in {"hyde", "decompose"}
    <3> DEFINE used == [me EXCEPT !.pc = "use", !.answer = answer]
    <3>1. callers' = [callers EXCEPT ![c] = used]
      BY <1>3, <2>1 DEF ModelFails
    <3>2. /\ used \in CallerRecords /\ used.pc = "use" /\ used.answer = answer
          /\ used.names = me.names /\ used.task = me.task /\ used.text = me.text
      BY <1>1 DEF CallerRecords, AskStages
    <3> HIDE DEF used, me
    <3>3. Sound(used, replies)
      BY <1>1, <1>2, <2>1, <3>2 DEF Sound, CallerKey
    <3> QED
      BY <3>1, <3>2, <3>3
  <2>2. CASE me.task \notin {"hyde", "decompose"}
    <3>1. callers' = [callers EXCEPT ![c] = NotAsking]
      BY <2>2 DEF ModelFails
    <3>2. Sound(NotAsking, replies)
      BY IdleCaller DEF Sound
    <3> QED
      BY <3>1, <3>2, IdleCaller
  <2> QED
    BY <2>1, <2>2
<1>5. /\ UNCHANGED <<replyCache, replies, crowded>> /\ spoilt \subseteq spoilt'
      /\ me.pc = "keep" => KeyOf(c) \in spoilt'
      /\ spoilt' \subseteq spoilt \cup {k \in {key} : me.pc = "keep"}
  BY <1>2 DEF ModelFails
<1>6. SpoiltByHyde'
  BY <1>1, <1>2, <1>5 DEF RepliesInv, SpoiltByHyde
<1>7. ReplyTypes' /\ AnswersGiven'
  BY <1>4, <1>5, SoundCaller
<1>8. AskedOnce'
  BY <1>1, <1>4, <1>5, AskedOnceElsewhere DEF RepliesInv
<1> QED
  BY <1>6, <1>7, <1>8 DEF RepliesInv

LEMMA UseAnswerStep ==
  ASSUME RepliesInv, NEW c \in Callers, UseAnswer(c)
  PROVE  RepliesInv'
<1> DEFINE me == callers[c]
<1>1. /\ ReplyTypes /\ me \in CallerRecords /\ Sound(me, replies) /\ me.pc = "use"
  BY DEF RepliesInv, ReplyTypes, UseAnswer, AnswersGiven
<1>2. /\ CallerKey(me) \in ReplyKeys /\ me.text \in Questions /\ me.answer \in Answers
      /\ me.names # NoAnswerYet => me.task = "extract"
  BY <1>1 DEF Sound, CallerKey, ReplyKeys, CallerRecords
<1>3. PICK to \in CallerRecords :
        /\ callers' = [callers EXCEPT ![c] = to]
        /\ to.pc \notin {"ask", "keep"} /\ Sound(to, replies)
  <2> DEFINE hyde == [me EXCEPT !.pc = "lookup", !.task = "hyde"]
             relations == [me EXCEPT !.pc = "lookup", !.names = me.answer]
             done == [me EXCEPT !.pc = "done"]
  <2>1. CASE me.task = "gate" /\ me.answer # <<"skip">>
    <3>1. callers' = [callers EXCEPT ![c] = hyde]
      BY <2>1 DEF UseAnswer
    <3>2. /\ hyde \in CallerRecords /\ hyde.pc = "lookup" /\ hyde.task = "hyde"
          /\ hyde.text = me.text /\ hyde.names = me.names
      BY <1>1 DEF CallerRecords, AskStages, Tasks
    <3> HIDE DEF hyde, me
    <3>3. Sound(hyde, replies)
      BY <1>2, <2>1, <3>2 DEF Sound, CallerKey, ReplyKeys, Tasks
    <3> QED
      BY <3>1, <3>2, <3>3
  <2>2. CASE /\ me.task = "extract" /\ me.names = NoAnswerYet
             /\ AsksForNames(me.text) /\ AsksForRelations(me.text)
    <3>1. callers' = [callers EXCEPT ![c] = relations]
      BY <2>2 DEF UseAnswer
    <3>2. /\ relations \in CallerRecords /\ relations.pc = "lookup" /\ relations.task = me.task
          /\ relations.text = me.text /\ relations.names = me.answer
      BY <1>1 DEF CallerRecords, AskStages
    <3> HIDE DEF relations, me
    <3>3. Sound(relations, replies)
      BY <1>1, <1>2, <2>2, <3>2 DEF Sound, CallerKey
    <3> QED
      BY <3>1, <3>2, <3>3
  <2>3. CASE /\ ~(me.task = "gate" /\ me.answer # <<"skip">>)
             /\ ~(/\ me.task = "extract" /\ me.names = NoAnswerYet
                  /\ AsksForNames(me.text) /\ AsksForRelations(me.text))
    <3>1. callers' = [callers EXCEPT ![c] = done]
      BY <2>3 DEF UseAnswer
    <3>2. /\ done \in CallerRecords /\ done.pc = "done" /\ done.task = me.task
          /\ done.text = me.text /\ done.names = me.names /\ done.answer = me.answer
      BY <1>1, ChangedCaller DEF AskStages
    <3> HIDE DEF done, me
    <3>3. Sound(done, replies)
      BY <1>1, <1>2, <3>2 DEF Sound, CallerKey
    <3> QED
      BY <3>1, <3>2, <3>3
  <2> QED
    BY <2>1, <2>2, <2>3
<1>4. /\ UNCHANGED <<replyCache, replies, crowded, spoilt>>
  BY DEF UseAnswer
<1>5. SpoiltByHyde'
  BY <1>4 DEF RepliesInv, SpoiltByHyde
<1>6. ReplyTypes' /\ AnswersGiven'
  BY <1>3, <1>4, SoundCaller
<1>7. AskedOnce'
  BY <1>1, <1>3, <1>4, AskedOnceElsewhere DEF RepliesInv
<1> QED
  BY <1>5, <1>6, <1>7 DEF RepliesInv

LEMMA RepliesInvStep == RepliesInv /\ [ReplyNext]_replyVars => RepliesInv'
<1> SUFFICES ASSUME RepliesInv, [ReplyNext]_replyVars PROVE RepliesInv'
  OBVIOUS
<1>1. CASE UNCHANGED replyVars
  <2> USE <1>1 DEF replyVars, RepliesInv
  <2>1. ReplyTypes' /\ SpoiltByHyde'
    BY DEF ReplyTypes, SpoiltByHyde
  <2>2. AnswersGiven'
    BY DEF AnswersGiven
  <2>3. \A c \in Callers : (KeyOf(c)' = KeyOf(c)) /\ (Asking(c)' <=> Asking(c))
    BY DEF KeyOf, Asking
  <2>4. AskedOnce'
    BY <2>3 DEF AskedOnce
  <2> QED
    BY <2>1, <2>2, <2>4
<1>2. CASE ReplyNext
  BY <1>2, BeginAskingStep, ReadCacheStep, ModelAnswersStep, KeepReplyStep, ModelFailsStep,
     UseAnswerStep DEF ReplyNext
<1> QED
  BY <1>1, <1>2

LEMMA RepliesInvReused == RepliesInv => RepliesReused
<1> SUFFICES ASSUME RepliesInv PROVE RepliesReused
  OBVIOUS
<1>1. \A key \in ReplyKeys : replies[key] \in Seq(ModelReply)
  BY DEF RepliesInv, ReplyTypes
<1>2. \A key \in ReplyKeys : Len(replies[key]) > 1 => key \in crowded \cup spoilt
  <2> SUFFICES ASSUME NEW key \in ReplyKeys, key \notin crowded \cup spoilt
               PROVE  ~(Len(replies[key]) > 1)
    OBVIOUS
  <2>1. Len(replies[key]) <= 1 /\ Len(replies[key]) \in Nat
    BY <1>1 DEF RepliesInv, AskedOnce
  <2> QED
    BY <2>1
<1>3. \A key \in ReplyKeys : replyCache[key] # NoAnswerYet => replyCache[key] \in AnswersTo(key)
  BY DEF RepliesInv, AnswersGiven, Answered, AnswersTo
<1>4. ASSUME NEW c \in Callers, callers[c].pc = "done", callers[c].names # NoAnswerYet,
             KeyOf(c) \notin crowded
      PROVE  callers[c].names = callers[c].answer
  <2>1. PICK key \in ReplyKeys : key = KeyOf(c) /\ key = CallerKey(callers[c])
    BY <1>4 DEF RepliesInv, AnswersGiven, Sound, KeyOf, CallerKey
  <2>2. /\ callers[c].task = "extract"
        /\ Answered(callers[c].names, replies, key) /\ Answered(callers[c].answer, replies, key)
    BY <1>4, <2>1 DEF RepliesInv, AnswersGiven, Sound
  <2>3. key[1] = "extract"
    BY <2>1, <2>2 DEF KeyOf
  <2>4. key \notin spoilt
    BY <2>3 DEF RepliesInv, SpoiltByHyde
  <2>5. ~(Len(replies[key]) > 1)
    BY <1>2, <1>4, <2>1, <2>4
  <2>6. \A i, j \in DOMAIN replies[key] : i = j
    BY <1>1, <2>5
  <2> QED
    BY <2>2, <2>6 DEF Answered
<1> QED
  BY <1>2, <1>3, <1>4 DEF RepliesReused

(* A text is asked about once unless two callers asked at once, a failure is *)
(* never remembered, and a memory's names and relations then come from one   *)
(* reply (ingest/extract.py:234, retrieve/decompose.py:62).                  *)
THEOREM RepliesAreReused == ReplySpec => []RepliesReused
<1> QED
  BY RepliesInvInit, RepliesInvStep, RepliesInvReused, PTL DEF ReplySpec
=============================================================================
