------------------------------ MODULE Ontology ------------------------------
(***************************************************************************)
(* Ontology evolution (lifecycle/ontology.py): a pass groups the generic    *)
(* co-occurrence edges of a tenant by the labels of their ends, has a model *)
(* name each large group and records a proposal; a reviewer lists the       *)
(* proposals and approves or rejects one by its key.  Approval relabels the *)
(* edges and then marks the proposal.  Nothing locks a proposal, and its    *)
(* key leaves out the characters of labels that keys may not have, so two   *)
(* groups may share one.                                                    *)
(***************************************************************************)
EXTENDS Naturals, FiniteSets, FiniteSetsExt

CONSTANTS
  Edges,          \* relates_to edges that extraction may write
  TenantOf,       \* [Edges -> tenant of the entity it leaves]
  LabelsOf,       \* [Edges -> pair of its ends' labels]
  ProposalKey,          \* [tenants x label pairs -> proposal key]
  Relations,      \* relationships a model may name, normalised
  MinSupport,     \* ontology_min_support
  MaxPasses,      \* bound: passes started
  MaxReviews,     \* bound: approvals and rejections started
  MaxFades        \* bound: entities forgotten, with an edge each

Generic == "associated_with"
NoRelation == "none"

ASSUME OntologyAssumption ==
  /\ MinSupport \in Nat \ {0} /\ MaxPasses \in Nat /\ MaxReviews \in Nat /\ MaxFades \in Nat
  /\ {Generic, NoRelation} \cap Relations = {}

Tenants == {TenantOf[e] : e \in Edges}
Groups == {<<TenantOf[e], LabelsOf[e]>> : e \in Edges}
GroupOf(e) == <<TenantOf[e], LabelsOf[e]>>
Keys == {ProposalKey[g] : g \in Groups}

VARIABLES
  relation,       \* per edge: absent, or its relationship
  faded,          \* edges of an entity forgotten since
  proposals,      \* per key: group, relation and status, or NoProposal
  pass,           \* the pass: its tenant and the groups left
  review,         \* the review: tenant, key, the proposal as it was listed and as it was
                  \* read for the verdict, and whether it was upserted in between
  passed, reviewed, fades,  \* bounded counts
  named,          \* history: pairs of a group and a relationship named for it
  approvals       \* history: per relabelled edge, the review that relabelled it

ontologyVars == <<relation, faded, proposals, pass, review, passed, reviewed, fades, named, approvals>>

NoProposal == [group |-> <<>>, relation |-> NoRelation, status |-> NoRelation]
NoPass == [tenant |-> "", todo |-> {}]
NoReview == [pc |-> "none", tenant |-> "", key |-> "", shown |-> NoProposal,
             read |-> NoProposal, renewed |-> FALSE]

OntologyInit ==
  /\ relation = [e \in Edges |-> NoRelation] /\ faded = {}
  /\ proposals = [k \in Keys |-> NoProposal]
  /\ pass = NoPass /\ review = NoReview
  /\ passed = 0 /\ reviewed = 0 /\ fades = 0
  /\ named = {}
  /\ approvals = [e \in Edges |-> NoReview]

\* ingest/entities.py writes a generic edge for a pair that co-occurs.
Cooccur(e) ==
  /\ relation[e] = NoRelation
  /\ relation' = [relation EXCEPT ![e] = Generic]
  /\ UNCHANGED <<faded, proposals, pass, review, passed, reviewed, fades, named, approvals>>

\* An entity at one end of e is forgotten.
Fade(e) ==
  /\ relation[e] # NoRelation /\ e \notin faded /\ fades < MaxFades
  /\ faded' = faded \cup {e} /\ fades' = fades + 1
  /\ UNCHANGED <<relation, proposals, pass, review, passed, reviewed, named, approvals>>

---------------------------------------------------------------------------
(* propose_relationship_types                                               *)

Support(g) == Cardinality({e \in Edges \ faded : relation[e] = Generic /\ GroupOf(e) = g})

ReadClusters(t) ==
  /\ pass = NoPass /\ passed < MaxPasses
  /\ pass' = [tenant |-> t, todo |-> {g \in Groups : g[1] = t /\ Support(g) >= MinSupport}]
  /\ passed' = passed + 1
  /\ UNCHANGED <<relation, faded, proposals, review, reviewed, fades, named, approvals>>

\* An existing proposal keeps its group and its status.
Upserted(p, g, rel) ==
  IF p = NoProposal THEN [group |-> g, relation |-> rel, status |-> "pending"]
  ELSE [p EXCEPT !.relation = rel]

Propose(g, rel) ==
  /\ g \in pass.todo
  /\ proposals' = [proposals EXCEPT ![ProposalKey[g]] = Upserted(@, g, rel)]
  /\ pass' = [pass EXCEPT !.todo = @ \ {g}]
  /\ named' = named \cup {<<g, rel>>}
  /\ review' = [review EXCEPT !.renewed = @ \/ (review.pc = "listed" /\ review.key = ProposalKey[g])]
  /\ UNCHANGED <<relation, faded, passed, reviewed, fades, approvals>>

\* The model finds no relationship, or only the generic one.
Decline(g) ==
  /\ g \in pass.todo
  /\ pass' = [pass EXCEPT !.todo = @ \ {g}]
  /\ UNCHANGED <<relation, faded, proposals, review, passed, reviewed, fades, named, approvals>>

\* Done, or the model or a statement failed.
EndProposing ==
  /\ pass # NoPass
  /\ pass' = NoPass
  /\ UNCHANGED <<relation, faded, proposals, review, passed, reviewed, fades, named, approvals>>

---------------------------------------------------------------------------
(* list_proposals, approve_proposal, reject_proposal                        *)

Owned(t, p) == p # NoProposal /\ p.group[1] = t

List(t, k) ==
  /\ review = NoReview /\ reviewed < MaxReviews
  /\ Owned(t, proposals[k])
  /\ review' = [NoReview EXCEPT !.pc = "listed", !.tenant = t, !.key = k, !.shown = proposals[k]]
  /\ reviewed' = reviewed + 1
  /\ UNCHANGED <<relation, faded, proposals, pass, passed, fades, named, approvals>>

\* Reads the proposal again by its key; its status is not looked at.
ReadProposal(verdict) ==
  /\ review.pc = "listed" /\ Owned(review.tenant, proposals[review.key])
  /\ review' = [review EXCEPT !.pc = verdict, !.read = proposals[review.key]]
  /\ UNCHANGED <<relation, faded, proposals, pass, passed, reviewed, fades, named, approvals>>

\* Edges of forgotten entities are relabelled too.
\* Mutant: the tenant is not looked at.
MatchesAnyTenant(e, p) == relation[e] = Generic /\ LabelsOf[e] = p.group[2]
Matches(e, p) == relation[e] = Generic /\ GroupOf(e) = p.group

Relabel ==
  /\ review.pc = "approve"
  /\ LET hit == {e \in Edges : Matches(e, review.read)}
     IN /\ relation' = [e \in Edges |-> IF e \in hit THEN review.read.relation ELSE relation[e]]
        /\ approvals' = [e \in Edges |-> IF e \in hit THEN review ELSE approvals[e]]
  /\ review' = [review EXCEPT !.pc = "approved"]
  /\ UNCHANGED <<faded, proposals, pass, passed, reviewed, fades, named>>

\* approve_proposal and reject_proposal update the status alone.
Mark ==
  /\ review.pc \in {"approved", "reject"}
  /\ proposals' = [proposals EXCEPT ![review.key].status =
       IF review.pc = "reject" THEN "rejected" ELSE "approved"]
  /\ review' = NoReview
  /\ UNCHANGED <<relation, faded, pass, passed, reviewed, fades, named, approvals>>

AbandonReview ==
  /\ review # NoReview
  /\ review' = NoReview
  /\ UNCHANGED <<relation, faded, proposals, pass, passed, reviewed, fades, named, approvals>>

OntologyNext ==
  \/ \E e \in Edges : Cooccur(e) \/ Fade(e)
  \/ \E t \in Tenants : ReadClusters(t) \/ \E k \in Keys : List(t, k)
  \/ \E g \in Groups : Decline(g) \/ \E rel \in Relations : Propose(g, rel)
  \/ EndProposing
  \/ \E verdict \in {"approve", "reject"} : ReadProposal(verdict)
  \/ Relabel \/ Mark \/ AbandonReview

OntologySpec == OntologyInit /\ [][OntologyNext]_ontologyVars

\* A relabelled edge keeps the relationship of one approval: of a proposal for
\* its own tenant and labels, named by the model for a group of that key, and
\* the one the reviewer was shown unless a pass renewed the proposal after it
\* was listed (lifecycle/ontology.py:52-63, :150-165).
RelabelledAsReviewed ==
  \A e \in Edges : LET a == approvals[e] IN
    /\ a = NoReview => relation[e] \in {NoRelation, Generic}
    /\ a # NoReview =>
         /\ relation[e] = a.read.relation /\ a.read.group = GroupOf(e)
         /\ \E g \in Groups : ProposalKey[g] = a.key /\ <<g, a.read.relation>> \in named
         /\ a.renewed \/ a.read.relation = a.shown.relation
=============================================================================
