---------------------------- MODULE Communities ----------------------------
(***************************************************************************)
(* compute_communities (lifecycle/community.py): read the tenant's valid    *)
(* entities, then the edges among them, propagate labels, write the labels  *)
(* to the entities valid by then.  Entities come and go between the three   *)
(* queries, and two passes may run at once.                                 *)
(***************************************************************************)
EXTENDS Naturals, FiniteSets, FiniteSetsExt, Functions
LOCAL INSTANCE SequencesExt
LOCAL INSTANCE Graphs

CONSTANTS
  Nodes,          \* entities; numbers, for the order of their keys
  EdgeSets,       \* the relates_to edges a run may start with: pairs of nodes
  Clusterings,    \* passes that may run
  Iterations,     \* sweeps of one propagation
  MaxGone         \* bound: entities created or forgotten

ASSUME NodesAssumption == Nodes \subseteq Nat /\ Iterations \in Nat

Unlabelled == 0
Ungrouped == 1
IdOf(label) == label + 2

VARIABLES
  present,        \* per entity: absent, valid or invalid
  relates,        \* relates_to; an edge of a pair may occur in both directions
  community,      \* per entity: Unlabelled, Ungrouped for -1, or IdOf(its label)
  clustering,     \* per pass: where it is, the nodes and edges it read
  written,        \* history: the graph and the labels of the pass that wrote last
  changes         \* bounded count

communityVars == <<present, relates, community, clustering, written, changes>>

NoGraph == [node |-> {}, edge |-> {}]
Valid == {n \in Nodes : present[n] = "valid"}

CommunityInit ==
  /\ present \in [Nodes -> {"absent", "valid"}]
  /\ relates \in EdgeSets
  /\ \A e \in relates : present[e[1]] = "valid" /\ present[e[2]] = "valid"
  /\ community = [n \in Nodes |-> Unlabelled]
  /\ clustering = [p \in Clusterings |-> [pc |-> "off", graph |-> NoGraph]]
  /\ written = [graph |-> NoGraph, labels |-> <<>>] /\ changes = 0

---------------------------------------------------------------------------
(* label_propagation: sweeps over the nodes in key order, each node taking  *)
(* the most frequent label of its neighbours, the smallest of equals.       *)

\* How often the neighbours of n carry the label: each edge counts.
Votes(graph, labels, n, label) ==
  Cardinality({e \in graph.edge : e[1] # e[2] /\
                 \/ e[1] = n /\ labels[e[2]] = label
                 \/ e[2] = n /\ labels[e[1]] = label})

\* Mutant: a node without neighbours is not skipped.
BestOfAll(graph, labels, n) ==
  LET votes(label) == Votes(graph, labels, n, label)
      used == {labels[m] : m \in graph.node}
  IN Min({l \in used : \A k \in used : votes(k) <= votes(l)})
Best(graph, labels, n) ==
  LET votes(label) == Votes(graph, labels, n, label)
      heard == {labels[m] : m \in {m \in graph.node : votes(labels[m]) > 0}}
      most == Max({votes(l) : l \in heard})
  IN IF heard = {} THEN labels[n] ELSE Min({l \in heard : votes(l) = most})

Sweep(graph, labels) ==
  FoldLeft(LAMBDA ls, n : [ls EXCEPT ![n] = Best(graph, ls, n)],
           labels, SetToSortSeq(graph.node, <))

\* A sweep that changes nothing repeats itself, so the early exit is left out.
Propagated(graph) ==
  LET after[i \in 0..Iterations] ==
        IF i = 0 THEN [n \in graph.node |-> n] ELSE Sweep(graph, after[i - 1])
  IN after[Iterations]

\* Dense ids, the largest group first, equal sizes by label.
Ranked(graph) ==
  LET label == Propagated(graph)
      size(l) == Cardinality({n \in graph.node : label[n] = l})
      before(k, l) == size(k) > size(l) \/ (size(k) = size(l) /\ k < l)
  IN [n \in graph.node |-> Cardinality({l \in Range(label) : before(l, label[n])})]

---------------------------------------------------------------------------

ReadNodes(p) ==
  /\ clustering[p].pc = "off" /\ Valid # {}
  /\ clustering' = [clustering EXCEPT ![p] =
       [pc |-> "edges", graph |-> [node |-> Valid, edge |-> {}]]]
  /\ UNCHANGED <<present, relates, community, written, changes>>

\* Edges of entities that became invalid since are read as well.
ReadEdges(p) ==
  /\ clustering[p].pc = "edges"
  /\ LET nodes == clustering[p].graph.node
     IN clustering' = [clustering EXCEPT ![p] =
          [pc |-> "write", graph |-> [node |-> nodes,
                                      edge |-> {e \in relates : e[1] \in nodes /\ e[2] \in nodes}]]]
  /\ UNCHANGED <<present, relates, community, written, changes>>

\* Entities that the pass did not read get -1.
WriteLabels(p) ==
  /\ clustering[p].pc = "write"
  /\ LET graph == clustering[p].graph
         labels == Ranked(graph)
     IN /\ community' = [n \in Nodes |->
             IF n \notin Valid THEN community[n]
             ELSE IF n \in graph.node THEN IdOf(labels[n]) ELSE Ungrouped]
        /\ written' = [graph |-> graph, labels |-> labels]
  /\ clustering' = [clustering EXCEPT ![p] = [pc |-> "off", graph |-> NoGraph]]
  /\ UNCHANGED <<present, relates, changes>>

\* ingest/entities.py: an entity appears with its edges.
Appear(n) ==
  /\ present[n] = "absent" /\ changes < MaxGone
  /\ present' = [present EXCEPT ![n] = "valid"]
  /\ \E linked \in SUBSET Valid : relates' = relates \cup {<<n, m>> : m \in linked}
  /\ changes' = changes + 1
  /\ UNCHANGED <<community, clustering, written>>

\* forget and supersession keep the edges.
Invalidate(n) ==
  /\ present[n] = "valid" /\ changes < MaxGone
  /\ present' = [present EXCEPT ![n] = "invalid"]
  /\ changes' = changes + 1
  /\ UNCHANGED <<relates, community, clustering, written>>

CommunityNext ==
  \/ \E p \in Clusterings : ReadNodes(p) \/ ReadEdges(p) \/ WriteLabels(p)
  \/ \E n \in Nodes : Appear(n) \/ Invalidate(n)

CommunitySpec == CommunityInit /\ [][CommunityNext]_communityVars

\* Valid entities of one community are connected in the graph the last pass read,
\* which none of them is outside of, and its ids are dense with the largest
\* community first (lifecycle/community.py:15-18, :47, :86-92).
Connected(graph) ==
  ConnectionsIn([node |-> graph.node, edge |-> graph.edge \cup {<<e[2], e[1]>> : e \in graph.edge}])

CommunitiesConnected ==
  LET reach == Connected(written.graph)
      nodes == written.graph.node
      size(id) == Cardinality({n \in nodes : written.labels[n] = id})
      grouped == {n \in Valid : community[n] \notin {Unlabelled, Ungrouped}}
  IN /\ grouped \subseteq nodes
     /\ \A m, n \in grouped : community[m] = community[n] => reach[m, n]
     /\ \A n \in nodes : \A id \in 0..written.labels[n] :
          size(id) >= size(written.labels[n])
=============================================================================
