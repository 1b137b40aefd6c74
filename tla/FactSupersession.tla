-------------------------- MODULE FactSupersession --------------------------
(***************************************************************************)
(* run_supersession (lifecycle/supersession.py): a pass takes the memories  *)
(* of a tenant that were never checked, oldest first, asks a model which of *)
(* the older statements each one updates, links those to it and stamps it.  *)
(* Passes take no lock, memories arrive and are forgotten meanwhile, and a  *)
(* pass may die between any two statements.                                 *)
(***************************************************************************)
EXTENDS Naturals, FiniteSets

CONSTANTS
  Facts,          \* memories that hold a statement; working memories take no part
  When,           \* [Facts -> Nat], content time: event_time, else created_at
  SpokenBy,       \* [Facts -> agents]
  Passes,         \* passes that may run
  Gates,          \* [name of a gate -> the pairs of facts it lets through]
  MaxCandidates,  \* older statements shown to the model
  MaxStarts       \* bound: passes started

NoFact == "no fact"

ASSUME WhenAssumption == When \in [Facts -> Nat] /\ NoFact \notin Facts
ASSUME GatesAssumption == \A g \in DOMAIN Gates : Gates[g] \subseteq Facts \X Facts

VARIABLES
  gate,           \* supersession_gate
  facts,          \* per fact: absent, live or forgotten
  supersededBy,   \* superseded_by
  checked,        \* facts with supersession_checked_at
  passes,         \* per pass: the rows left, the one compared, the links to write
  starts,         \* bounded count
  arrivedLate,    \* history: some fact arrived older than one already there
  overlap         \* history: two passes ran at once

factVars == <<gate, facts, supersededBy, checked, passes, starts, arrivedLate, overlap>>

NotRunning == [pc |-> "out", todo |-> {}, row |-> NoFact, older |-> {}, picked |-> {}]
Live == {f \in Facts : facts[f] = "live"}
Row(p) == passes[p].row

FactInit ==
  /\ gate \in DOMAIN Gates
  /\ facts = [f \in Facts |-> "absent"]
  /\ supersededBy = [f \in Facts |-> NoFact]
  /\ checked = {}
  /\ passes = [p \in Passes |-> NotRunning]
  /\ starts = 0 /\ arrivedLate = FALSE /\ overlap = FALSE

Remember(f) ==
  /\ facts[f] = "absent"
  /\ facts' = [facts EXCEPT ![f] = "live"]
  /\ arrivedLate' = (arrivedLate \/ \E e \in Facts : facts[e] # "absent" /\ When[e] > When[f])
  /\ UNCHANGED <<gate, supersededBy, checked, passes, starts, overlap>>

ForgetFact(f) ==
  /\ facts[f] = "live"
  /\ facts' = [facts EXCEPT ![f] = "forgotten"]
  /\ UNCHANGED <<gate, supersededBy, checked, passes, starts, arrivedLate, overlap>>

\* rows.sort(key=when): the rows of one time come in any order.
\* Mutant: the rows in any order.
AnyOf(rows) == rows
OldestOf(rows) == {f \in rows : \A e \in rows : When[f] <= When[e]}

StartPass(p) ==
  /\ passes[p].pc = "out" /\ starts < MaxStarts
  /\ passes' = [passes EXCEPT ![p] =
       [NotRunning EXCEPT !.pc = "compare", !.todo = Live \ checked]]
  /\ starts' = starts + 1
  /\ overlap' = (overlap \/ \E q \in Passes : passes[q].pc # "out")
  /\ UNCHANGED <<gate, facts, supersededBy, checked, arrivedLate>>

\* The older statements the gate's query returns; both similarity gates skip
\* memories that were not checked yet.
\* Mutant: statements already superseded are offered again.
CandidatesAnew(f) ==
  {o \in Live \ {f} : /\ SpokenBy[o] = SpokenBy[f]
                      /\ <<f, o>> \in Gates[gate] /\ (gate # "entity" => o \in checked)}
Candidates(f) ==
  {o \in Live \ {f} : /\ SpokenBy[o] = SpokenBy[f] /\ supersededBy[o] = NoFact
                      /\ <<f, o>> \in Gates[gate] /\ (gate # "entity" => o \in checked)}

\* Mutant: a statement of the same time counts as older.
NotNewer(o, f) == When[o] <= When[f]
Older(o, f) == When[o] < When[f]

Compare(p) ==
  /\ passes[p].pc = "compare"
  /\ \E f \in OldestOf(passes[p].todo) :
       passes' = [passes EXCEPT ![p].pc = "ask", ![p].row = f,
                                ![p].older = {o \in Candidates(f) : Older(o, f)}]
  /\ UNCHANGED <<gate, facts, supersededBy, checked, starts, arrivedLate, overlap>>

\* The model picks any of the statements it is shown; NONE, and a reply without
\* a well-formed ANSWER line, pick none.
Ask(p) ==
  /\ passes[p].pc = "ask"
  /\ \E picked \in SUBSET passes[p].older :
       /\ Cardinality(picked) <= MaxCandidates
       /\ passes' = [passes EXCEPT ![p].pc = "link", ![p].picked = picked, ![p].older = {}]
  /\ UNCHANGED <<gate, facts, supersededBy, checked, starts, arrivedLate, overlap>>

\* The update is unconditional: it does not look at superseded_by again.
LinkOne(p) ==
  /\ passes[p].pc = "link"
  /\ \E o \in passes[p].picked :
       /\ supersededBy' = [supersededBy EXCEPT ![o] = Row(p)]
       /\ passes' = [passes EXCEPT ![p].picked = @ \ {o}]
  /\ UNCHANGED <<gate, facts, checked, starts, arrivedLate, overlap>>

StampRow(p) ==
  /\ passes[p].pc = "link" /\ passes[p].picked = {}
  /\ checked' = checked \cup {Row(p)}
  /\ passes' = [passes EXCEPT ![p].pc = "compare", ![p].todo = @ \ {Row(p)},
                              ![p].row = NoFact]
  /\ UNCHANGED <<gate, facts, supersededBy, starts, arrivedLate, overlap>>

\* The pass is done, or a statement or the model failed.
EndPass(p) ==
  /\ passes[p].pc # "out"
  /\ passes' = [passes EXCEPT ![p] = NotRunning]
  /\ UNCHANGED <<gate, facts, supersededBy, checked, starts, arrivedLate, overlap>>

FactNext ==
  \/ \E f \in Facts : Remember(f) \/ ForgetFact(f)
  \/ \E p \in Passes :
       StartPass(p) \/ Compare(p) \/ Ask(p) \/ LinkOne(p) \/ StampRow(p) \/ EndPass(p)

FactSpec == FactInit /\ [][FactNext]_factVars

FactTypeOK ==
  /\ gate \in DOMAIN Gates
  /\ facts \in [Facts -> {"absent", "live", "forgotten"}]
  /\ supersededBy \in [Facts -> Facts \cup {NoFact}]
  /\ checked \subseteq Facts
  /\ starts \in Nat
  /\ passes \in [Passes -> [pc : {"out", "compare", "ask", "link"}, todo : SUBSET Facts,
                            row : Facts \cup {NoFact}, older : SUBSET Facts, picked : SUBSET Facts]]

\* A statement is superseded by a strictly newer one of the same agent, however
\* passes interleave: no chain of links that a retrieval follows has a cycle.
LinksClimb ==
  \A f \in Facts : supersededBy[f] # NoFact =>
    When[f] < When[supersededBy[f]] /\ SpokenBy[f] = SpokenBy[supersededBy[f]]

\* While passes do not overlap, a statement is superseded once: a failed and
\* repeated pass leaves the links it made (lifecycle/supersession.py:193).
LinkKept ==
  [][~overlap' => \A f \in Facts :
       supersededBy[f] # NoFact => supersededBy'[f] = supersededBy[f]]_factVars

\* When facts arrive in order, every older statement of the tenant was checked
\* before a newer one is compared, so the similarity gates skip none of them
\* (the comment at lifecycle/supersession.py:90); also across failed passes.
NoOlderSkipped ==
  \A p \in Passes : ~arrivedLate /\ passes[p].pc = "ask" =>
    \A o \in Live : When[o] < When[Row(p)] => o \in checked
=============================================================================
