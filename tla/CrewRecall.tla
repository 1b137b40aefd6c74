----------------------------- MODULE CrewRecall -----------------------------
(***************************************************************************)
(* Search in the CrewAI backend (crewai/unified.py).  CrewAI hands search()  *)
(* an embedding only; PairedEmbedder remembers, in an LRU shared by the      *)
(* threads of a crew, which text each vector came from.  With the text the   *)
(* core retrieves and the rows of its hits are read and filtered; without,   *)
(* the rows are searched by cosine.  Records are forgotten meanwhile.        *)
(***************************************************************************)
EXTENDS Integers, Sequences, Functions, FiniteSets, Orders

CONSTANTS
  Seekers,        \* threads of the crew
  Cues,           \* texts embedded
  CueLists,       \* the lists of them that a call of the embedder is given
  VectorOf,       \* [Cues -> vector]: texts may share one
  Notes,          \* memories with a row of this backend
  Plain,          \* memories of the agent without one
  Cosine,         \* [vector -> [Notes -> similarity]]
  NoteFilters,    \* sets of notes that the filters of a call select
  MinScore,
  RecallLimit,    \* limit
  Factor,         \* _CANDIDATE_FACTOR
  TextCapacity,      \* capacity of the embedder
  MaxSeeks        \* bound: calls begun, of the embedder or of search()

NoCue == "no text"
NoVector == "no vector"

ASSUME RecallAssumption ==
  /\ NoCue \notin Cues /\ NoVector \notin Range(VectorOf)
  /\ VectorOf \in [Cues -> Range(VectorOf)] /\ CueLists \subseteq Seq(Cues)
  /\ IsFiniteSet(Notes) /\ Notes \cap Plain = {} /\ NoteFilters \subseteq SUBSET Notes
  /\ Cosine \in [Range(VectorOf) -> [Notes -> Int]] /\ MinScore \in Int
  /\ TextCapacity \in Nat \ {0} /\ RecallLimit \in Nat \ {0} /\ Factor \in Nat \ {0}

VARIABLES
  paired,         \* _texts: [vector, text], least recently used first
  live,           \* memories that are not forgotten
  seekers,        \* per thread: where it is and what it holds
  seeks,          \* bounded count
  fresh           \* history: vectors embedded, latest last, each once

recallVars == <<paired, live, seekers, seeks, fresh>>

AtRest == [pc |-> "idle", vector |-> NoVector, text |-> NoCue, filter |-> {}, keys |-> <<>>,
           found |-> <<>>, seen |-> {}]

RecallInit ==
  /\ paired = <<>> /\ live = Notes \cup Plain
  /\ seekers = [s \in Seekers |-> AtRest]
  /\ seeks = 0 /\ fresh = <<>>

Newest(s, n) == IF Len(s) <= n THEN s ELSE SubSeq(s, Len(s) - n + 1, Len(s))
Foremost(s, n) == IF Len(s) <= n THEN s ELSE SubSeq(s, 1, n)

\* Where each of some keys is met last.
FinalPlaces(keys) == {i \in DOMAIN keys : \A j \in DOMAIN keys : j > i => keys[j] # keys[i]}
Vectors(entries) == [i \in DOMAIN entries |-> entries[i].vector]

\* Mutant: an entry met again keeps its place.
PairedInPlace(entries) ==
  LET firsts == {i \in DOMAIN entries : \A j \in 1..(i - 1) : entries[j].vector # entries[i].vector}
      lastOf(e) == CHOOSE i \in FinalPlaces(Vectors(entries)) : entries[i].vector = e.vector
      kept == Picked(entries, firsts)
  IN [n \in DOMAIN kept |-> entries[lastOf(kept[n])]]
\* Of the entries of a vector the last, at its place.
Paired(entries) == Picked(entries, FinalPlaces(Vectors(entries)))

\* The callable embeds a list of texts; the lock covers what it remembers of
\* them, the eviction of the oldest included.
EmbedCues(cues) ==
  LET entries == [i \in DOMAIN cues |-> [vector |-> VectorOf[cues[i]], text |-> cues[i]]]
      vectors == fresh \o Vectors(entries)
  IN /\ seeks < MaxSeeks /\ seeks' = seeks + 1
     /\ paired' = Newest(Paired(paired \o entries), TextCapacity)
     /\ fresh' = Picked(vectors, FinalPlaces(vectors))
     /\ UNCHANGED <<live, seekers>>

\* text_for: the text of a vector, if it is still known.
TextFor(vector) ==
  IF \E i \in DOMAIN paired : paired[i].vector = vector
  THEN paired[CHOOSE i \in DOMAIN paired : paired[i].vector = vector].text ELSE NoCue

StartSearch(s, vector, filter) ==
  /\ seekers[s].pc = "idle" /\ seeks < MaxSeeks /\ seeks' = seeks + 1
  /\ seekers' = [seekers EXCEPT ![s] =
       [AtRest EXCEPT !.pc = IF TextFor(vector) = NoCue THEN "scan" ELSE "retrieve",
                      !.vector = vector, !.filter = filter, !.text = TextFor(vector)]]
  /\ UNCHANGED <<paired, live, fresh>>

\* The core ranks what it likes, the agent's other memories included; nothing
\* is refreshed (record_access is off).
RetrieveHits(s) ==
  /\ seekers[s].pc = "retrieve"
  /\ \E keys \in {k \in UNION {[1..n -> live] : n \in 0..(RecallLimit * Factor)} : IsInjective(k)} :
       seekers' = [seekers EXCEPT ![s].pc = "rows", ![s].keys = keys]
  /\ UNCHANGED <<paired, live, seeks, fresh>>

\* What is returned of rows read best first.
Passing(s, rows) ==
  Foremost(Picked(rows, {i \in DOMAIN rows : Cosine[seekers[s].vector][rows[i]] >= MinScore}), RecallLimit)

Returns(s, rows) ==
  /\ seekers' = [seekers EXCEPT ![s].pc = "done", ![s].found = Passing(s, rows), ![s].seen = live]
  /\ UNCHANGED <<paired, live, seeks, fresh>>

\* Rows join their memory, so what was forgotten since is not read.
ReadHitRows(s) ==
  /\ seekers[s].pc = "rows"
  /\ LET keys == seekers[s].keys
     IN Returns(s, Picked(keys, {i \in DOMAIN keys : keys[i] \in seekers[s].filter \cap live}))

\* SORT COSINE_SIMILARITY DESC LIMIT: ties in any order.
ScanRows(s) ==
  LET score == Cosine[seekers[s].vector]
      rows == seekers[s].filter \cap live
  IN /\ seekers[s].pc = "scan"
     /\ \E order \in {o \in [1..Cardinality(rows) -> rows] : IsInjective(o)} :
          /\ \A i \in DOMAIN order : \A j \in 1..i : score[order[j]] >= score[order[i]]
          /\ Returns(s, Foremost(order, RecallLimit))

Rest(s) ==
  /\ seekers[s].pc = "done"
  /\ seekers' = [seekers EXCEPT ![s] = AtRest]
  /\ UNCHANGED <<paired, live, seeks, fresh>>

ForgetNote(n) ==
  /\ live' = live \ {n}
  /\ UNCHANGED <<paired, seekers, seeks, fresh>>

RecallNext ==
  \/ \E cues \in CueLists : EmbedCues(cues)
  \/ \E s \in Seekers :
       \/ \E vector \in Range(VectorOf), filter \in NoteFilters : StartSearch(s, vector, filter)
       \/ RetrieveHits(s) \/ ReadHitRows(s) \/ ScanRows(s) \/ Rest(s)
  \/ \E n \in live : ForgetNote(n)

RecallSpec == RecallInit /\ [][RecallNext]_recallVars

\* The query text of a vector is one it came from, and it is known as long as
\* fewer than capacity other vectors were embedded since.  Whatever is forgotten
\* during a search, it returns at most limit records of this backend, each once,
\* that pass the filters and the score and were not forgotten when the rows were
\* read; without the text they are the best there are, and a text that is known
\* loses no record to the core's other memories unless these fill the candidates
\* (PairedEmbedder and search, crewai/unified.py:77-92 and :303-352).
Wanted(s, n) ==
  n \in seekers[s].filter \cap seekers[s].seen /\ Cosine[seekers[s].vector][n] >= MinScore

RecallHolds ==
  /\ \A i \in DOMAIN paired : VectorOf[paired[i].text] = paired[i].vector
  /\ \A v \in Range(Newest(fresh, TextCapacity)) : TextFor(v) # NoCue
  /\ \A s \in Seekers : seekers[s].pc = "done" =>
       LET found == seekers[s].found
           missed == {n \in seekers[s].filter \cap seekers[s].seen : Wanted(s, n)} \ Range(found)
           score == Cosine[seekers[s].vector]
       IN /\ Len(found) <= RecallLimit /\ IsInjective(found)
          /\ Range(found) \subseteq Notes /\ \A n \in Range(found) : Wanted(s, n)
          /\ seekers[s].text = NoCue =>
               \A n \in missed : Len(found) = RecallLimit /\ \A m \in Range(found) : score[m] >= score[n]
          /\ seekers[s].text # NoCue =>
               \A n \in missed \cap Range(seekers[s].keys) : Len(found) = RecallLimit
=============================================================================
