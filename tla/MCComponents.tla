---------------------------- MODULE MCComponents ----------------------------
(***************************************************************************)
(* The components that share no state with the write path, instantiated for *)
(* TLC in one run: a behaviour is one of the component that part names, the *)
(* others stay in one of their initial states.                              *)
(***************************************************************************)
EXTENDS RateLimits, Migrations, FactSupersession, Retrieval, CrewRecords,
        ChatHistory, ToolCapture, Communities, Ontology, Embeddings,
        ModelReplies, TurnCapture, CrewRecall

CONSTANT Parts

VARIABLE part
vars == <<part, limitVars, migrationVars, factVars, retrievalVars, crewVars, historyVars,
          captureVars, communityVars, ontologyVars, embeddingVars, replyVars, turnVars, recallVars>>

Init ==
  /\ part \in Parts
  /\ LimitInit /\ (part = "limits" \/ backend = "local")
  /\ MigrationInit
  /\ FactInit /\ (part = "facts" \/ gate = "entity")
  /\ RetrievalInit
  /\ CrewInit
  /\ HistoryInit
  /\ CaptureInit /\ (part = "capture" \/ kind = "node")
  /\ CommunityInit /\ (part = "communities" \/ Valid = {})
  /\ OntologyInit
  /\ EmbeddingInit /\ (part = "embeddings" \/ (cacheBackend = "local" /\ \A i \in Hosts : embedder[i] = 1))
  /\ ReplyInit
  /\ TurnInit /\ (part = "turns" \/ adapter = "node")
  /\ RecallInit

Next ==
  /\ UNCHANGED part
  /\ IF part = "limits" THEN LimitNext ELSE UNCHANGED limitVars
  /\ IF part = "migrations" THEN MigrationNext ELSE UNCHANGED migrationVars
  /\ IF part = "facts" THEN FactNext ELSE UNCHANGED factVars
  /\ IF part = "retrieval" THEN RetrievalNext ELSE UNCHANGED retrievalVars
  /\ IF part = "crew" THEN CrewNext ELSE UNCHANGED crewVars
  /\ IF part = "history" THEN HistoryNext ELSE UNCHANGED historyVars
  /\ IF part = "capture" THEN CaptureNext ELSE UNCHANGED captureVars
  /\ IF part = "communities" THEN CommunityNext ELSE UNCHANGED communityVars
  /\ IF part = "ontology" THEN OntologyNext ELSE UNCHANGED ontologyVars
  /\ IF part = "embeddings" THEN EmbeddingNext ELSE UNCHANGED embeddingVars
  /\ IF part = "replies" THEN ReplyNext ELSE UNCHANGED replyVars
  /\ IF part = "turns" THEN TurnNext ELSE UNCHANGED turnVars
  /\ IF part = "recall" THEN RecallNext ELSE UNCHANGED recallVars

Spec == Init /\ [][Next]_vars

---------------------------------------------------------------------------
\* RateLimits: two requests of instance "i" and "j" each window.
MCInstanceOf == [r \in Requests |-> IF r = 3 THEN "j" ELSE "i"]

\* FactSupersession: a is older than b and c, and c updates either.
MCWhen == [f \in Facts |-> IF f = "a" THEN 1 ELSE 2]
MCSpokenBy == [f \in Facts |-> "agent"]
MCGates == [entity |-> {"c"} \X {"a", "b"}, similarity |-> Facts \X Facts]

\* Retrieval: b and c are near-duplicates of a's embedding apart.
MCAt == [m \in Memories |-> CASE m = "a" -> 1 [] m = "b" -> 2 [] OTHER -> 3]
MCTier == [m \in Memories |-> IF m = "c" THEN "semantic" ELSE "episodic"]
MCCost == [m \in Memories |-> CASE m = "a" -> 4 [] m = "b" -> 3 [] OTHER -> 5]
MCFresh == [m \in Memories |-> IF m = "a" THEN 2 ELSE 1]
MCArmWeight == [bm25 |-> 2, vector |-> 1, graph |-> 1]
MCSummaryCosts == <<1, 1>>
MCEntityCosts == <<2, 1>>
MCStepCosts == <<1, 1>>
MCHeadingCost == [section \in {"episodic", "semantic", "procedural"} |-> 1]

\* ToolCapture: prompts of a growing conversation; two calls of one tool.
MCPrompts == {<<"s">>, <<"s", "t">>, <<"s", "t", "u">>}
MCStepKey == [t \in {"s", "t", "u"} |-> IF t = "u" THEN "s" ELSE t]

\* Communities: every graph over these pairs.
MCEdgeSets == SUBSET {<<1, 2>>, <<2, 1>>, <<1, 3>>, <<2, 3>>, <<3, 4>>}

\* Ontology: labels "C#" and "C++" share a proposal key.
MCTenantOf == [e \in Edges |-> IF e = 3 THEN "other" ELSE "tenant"]
MCLabelsOf == [e \in Edges |-> IF e = 2 THEN "C++" ELSE "C#"]
MCProposalKey == [g \in {"tenant", "other"} \X {"C#", "C++"} |-> g[1]]

\* Embeddings: the threads of one instance share its cache.
MCHostOf == [t \in Threads |-> "host"]

\* ModelReplies: a reply that repeats a line and one that is no object.
MCLowercase == [l \in {"skip", "a", "A", "b", "", "{"} |-> IF l = "A" THEN "a" ELSE l]
MCReplyLines == [gate |-> {<<"skip">>, <<>>}, hyde |-> {<<>>},
                 decompose |-> {<<"a">>, <<"a", "", "A", "b">>}, extract |-> {<<"a">>, <<"{">>}]
MCCheapNames == [q \in Questions |-> IF q = "q" THEN 0 ELSE 1]

\* CrewRecall: "x" and "z" share a vector.
MCVectorOf == [c \in Cues |-> IF c \in {"x", "z"} THEN "v" ELSE c]
MCCueLists == {<<"x">>, <<"z">>, <<"y", "w">>, <<"w", "x">>}
MCCosine == [v \in {"v", "y", "w"} |-> [n \in Notes |-> IF v = "v" THEN IF n = "a" THEN 5 ELSE 4
                                                      ELSE IF n = "a" THEN 0 ELSE 3]]
=============================================================================
