---------------------------- MODULE ModelReplies ----------------------------
(***************************************************************************)
(* What the core asks language models about a text, and the caches of the    *)
(* answers: the gate, HyDE and decomposition of a query (retrieve/enrich.py, *)
(* retrieve/decompose.py, one QueryCache per process) and the extraction of  *)
(* a memory's entities and relations (ingest/extract.py, a cache behind a    *)
(* lock that is not held while the model answers).  Request handlers, the    *)
(* worker and the threads of a batch extraction share both.  Every answer is *)
(* a sequence of strings here.                                              *)
(***************************************************************************)
EXTENDS Naturals, Sequences, SequencesExt, FiniteSets

CONSTANTS
  Callers,        \* threads that ask
  Questions,      \* texts asked about
  ReplyLines,     \* [task -> replies of the model, as sequences of lines]
  Lowercase,      \* [line -> its lower case]
  MaxSubqueries,  \* decompose_max_subqueries
  CheapNames,     \* [text -> entities the cheaper tiers find]
  EscalateBelow,  \* extraction_escalate_below
  CheapRelations, \* texts for which GLiNER finds relations
  MaxAsked,       \* bound: calls begun
  MaxErrors       \* bound: models or embedders that fail

NoAnswerYet == <<"not cached">>
Tasks == {"gate", "hyde", "decompose", "extract"}
ReplyKeys == Tasks \X Questions

ASSUME RepliesAssumption ==
  /\ EscalateBelow \in Nat /\ MaxSubqueries \in Nat /\ CheapNames \in [Questions -> Nat]
  /\ \A task \in Tasks : \A r \in ReplyLines[task] : Range(r) \subseteq DOMAIN Lowercase
  /\ "not cached" \notin Questions /\ \A task \in Tasks : NoAnswerYet \notin ReplyLines[task]

VARIABLES
  replyCache,     \* per task and text: the answer, or NoAnswerYet
  callers,        \* per caller: where it is, its task and text, its answers
  asked, errors,  \* bounded counts
  replies,        \* history, per task and text: replies the model gave, in order
  crowded,        \* history: keys that two callers asked for at once
  spoilt          \* history: keys whose reply was lost to a failing embedder

replyVars == <<replyCache, callers, asked, errors, replies, crowded, spoilt>>

NotAsking == [pc |-> "idle", task |-> "gate", text |-> "", answer |-> <<>>, names |-> NoAnswerYet]
KeyOf(c) == <<callers[c].task, callers[c].text>>

ReplyInit ==
  /\ replyCache = [k \in ReplyKeys |-> NoAnswerYet]
  /\ callers = [c \in Callers |-> NotAsking]
  /\ asked = 0 /\ errors = 0
  /\ replies = [k \in ReplyKeys |-> <<>>]
  /\ crowded = {} /\ spoilt = {}

---------------------------------------------------------------------------
(* What an answer is made of.                                               *)

\* should_skip_retrieval: a reply that begins with SKIP.
Verdict(lines) == IF lines # <<>> /\ Lowercase[lines[1]] = "skip" THEN <<"skip">> ELSE <<"retrieve">>

\* hyde: a blank reply leaves the query itself.
Hypothetical(text, lines) == IF lines = <<>> THEN <<text>> ELSE lines

\* decompose: lines without repetition and up to the cap; one is no split.
Parsed(lines) ==
  LET add(subs, line) ==
        IF line = "" \/ Len(subs) >= MaxSubqueries
           \/ \E i \in DOMAIN subs : Lowercase[subs[i]] = Lowercase[line]
        THEN subs ELSE Append(subs, line)
  IN FoldLeft(add, <<>>, lines)
Lookups(text, lines) == IF Len(Parsed(lines)) > 1 THEN Parsed(lines) ELSE <<text>>

\* _parse_json_object: an answer that is no object is an empty one.
Knowledge(lines) == IF "{" \in Range(lines) THEN lines ELSE <<>>

AnswerOf(task, text, lines) ==
  CASE task = "gate" -> Verdict(lines)
    [] task = "hyde" -> Hypothetical(text, lines)
    [] task = "decompose" -> Lookups(text, lines)
    [] task = "extract" -> Knowledge(lines)

---------------------------------------------------------------------------

\* The model is asked for entities when the cheaper tiers found too few, and for
\* relations when GLiNER found none.
AsksForNames(text) == CheapNames[text] < EscalateBelow
AsksForRelations(text) == text \notin CheapRelations

BeginAsking(c, task, text) ==
  /\ callers[c].pc \in {"idle", "done"} /\ asked < MaxAsked /\ task # "hyde"
  /\ task = "extract" => AsksForNames(text) \/ AsksForRelations(text)
  /\ asked' = asked + 1
  /\ callers' = [callers EXCEPT ![c] =
       [pc |-> "lookup", task |-> task, text |-> text, answer |-> <<>>, names |-> NoAnswerYet]]
  /\ UNCHANGED <<replyCache, errors, replies, crowded, spoilt>>

ReadCache(c) ==
  /\ callers[c].pc = "lookup"
  /\ LET kept == replyCache[KeyOf(c)]
     IN callers' = [callers EXCEPT ![c] =
          IF kept = NoAnswerYet THEN [callers[c] EXCEPT !.pc = "ask"]
          ELSE [callers[c] EXCEPT !.pc = "use", !.answer = kept]]
  /\ crowded' = IF replyCache[KeyOf(c)] = NoAnswerYet
                   /\ \E d \in Callers \ {c} : KeyOf(d) = KeyOf(c) /\ callers[d].pc \in {"ask", "keep"}
                THEN crowded \cup {KeyOf(c)} ELSE crowded
  /\ UNCHANGED <<replyCache, asked, errors, replies, spoilt>>

\* The model answers; no lock is held meanwhile.
ModelAnswers(c, lines) ==
  /\ callers[c].pc = "ask"
  /\ callers' = [callers EXCEPT ![c] = [callers[c] EXCEPT
       !.pc = "keep", !.answer = AnswerOf(callers[c].task, callers[c].text, lines)]]
  /\ replies' = [replies EXCEPT ![KeyOf(c)] = Append(@, lines)]
  /\ UNCHANGED <<replyCache, asked, errors, crowded, spoilt>>

\* Mutant: one slot per task.
KeptAlone(key, answer) ==
  [k \in ReplyKeys |-> IF k = key THEN answer ELSE IF k[1] = key[1] THEN NoAnswerYet ELSE replyCache[k]]
Kept(key, answer) == [replyCache EXCEPT ![key] = answer]

KeepReply(c) ==
  /\ callers[c].pc = "keep"
  /\ replyCache' = Kept(KeyOf(c), callers[c].answer)
  /\ callers' = [callers EXCEPT ![c] = [callers[c] EXCEPT !.pc = "use"]]
  /\ UNCHANGED <<asked, errors, replies, crowded, spoilt>>

\* The model fails, or the embedder of HyDE's text: nothing is cached.  Gate and
\* extraction raise; the others go on with the query.
ModelFails(c) ==
  LET me == callers[c]
  IN /\ me.pc = "ask" \/ (me.pc = "keep" /\ me.task = "hyde")
     /\ errors < MaxErrors
     /\ errors' = errors + 1
     /\ callers' = [callers EXCEPT ![c] =
          IF me.task \in {"hyde", "decompose"} THEN [me EXCEPT !.pc = "use", !.answer = <<me.text>>]
          ELSE NotAsking]
     /\ spoilt' = IF me.pc = "keep" THEN spoilt \cup {KeyOf(c)} ELSE spoilt
     /\ UNCHANGED <<replyCache, asked, replies, crowded>>

\* Full mode goes on with HyDE unless the gate says SKIP; extraction goes on
\* with the relations of the same text.
UseAnswer(c) ==
  LET me == callers[c]
  IN /\ me.pc = "use"
     /\ callers' = [callers EXCEPT ![c] =
          CASE me.task = "gate" /\ me.answer # <<"skip">> -> [me EXCEPT !.pc = "lookup", !.task = "hyde"]
            [] me.task = "extract" /\ me.names = NoAnswerYet
               /\ AsksForNames(me.text) /\ AsksForRelations(me.text) ->
                 [me EXCEPT !.pc = "lookup", !.names = me.answer]
            [] OTHER -> [me EXCEPT !.pc = "done"]]
     /\ UNCHANGED <<replyCache, asked, errors, replies, crowded, spoilt>>

ReplyNext ==
  \E c \in Callers :
    \/ \E task \in Tasks, text \in Questions : BeginAsking(c, task, text)
    \/ \E lines \in ReplyLines[callers[c].task] : ModelAnswers(c, lines)
    \/ ReadCache(c) \/ KeepReply(c) \/ ModelFails(c) \/ UseAnswer(c)

ReplySpec == ReplyInit /\ [][ReplyNext]_replyVars

AnswersTo(key) == {AnswerOf(key[1], key[2], replies[key][i]) : i \in DOMAIN replies[key]}

\* A text is asked about once, however many callers ask about other texts
\* meanwhile, unless two asked about it at once; then, and only then, the
\* entities and the relations of a memory may come from different replies.  What
\* is kept was answered to that question: a failure is never remembered
\* (HaikuExtractor._call, ingest/extract.py:234; decompose, retrieve/decompose.py:62).
RepliesReused ==
  /\ \A key \in ReplyKeys : Len(replies[key]) > 1 => key \in crowded \cup spoilt
  /\ \A key \in ReplyKeys : replyCache[key] # NoAnswerYet => replyCache[key] \in AnswersTo(key)
  /\ \A c \in Callers :
       callers[c].pc = "done" /\ callers[c].names # NoAnswerYet /\ KeyOf(c) \notin crowded =>
         callers[c].names = callers[c].answer
=============================================================================
