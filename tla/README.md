# A TLA+ model of arango-agentic-memory

The repository is a memory service for agents: clients post turns and tool steps over HTTP, a
durable write path commits them to ArangoDB, background passes consolidate what was stored, and a
retrieval side answers queries. This directory holds TLA+ modules of the parts whose correctness
depends on interleavings, failures and ordering, TLC configurations that check them on small
instances, and theorems about them checked by TLAPS.

Source paths below are relative to `src/core/src/arango_memory/` unless they start with `src/`.

## Inventory

| Part | State it keeps | Operations | What is hard | What makes it correct |
|---|---|---|---|---|
| Write queue `ingest/queue.py` | entries with a lease (`write_intents`), or a deque and a dict | enqueue, claim, ack, nack, pending_count | lease expiry against a slow holder, several instances, lost replies | an entry has one worker; it exists until acked |
| Write worker `ingest/worker.py` | one thread, attempts, `failed_writes` | process with retries, dead-letter, replay_failed, drain, start, stop | failures between two writes, death of the thread, replay beside live workers | nothing accepted is dropped; everything is settled |
| Store endpoints `api/app.py` | event loop per instance | store, step (queued or inline), flush | a barrier that reads two things at two times | flush and sync keep their read-your-writes promise |
| Commit of a turn `ingest/store.py` | `episodes`, `memories`, `sessions` | store, store_many, topic shift, capacity sweep | check-then-insert, retries after a partial commit, two turns of a session | derived data done once and for every turn, but for the races and failures named; the working buffer keeps its bounds |
| Commit of a step `ingest/procedural.py` | `steps`, TOUCHED and TRANSITION edges | record_step | UPSERT counters under redelivery | use_count counts uses |
| Entity graph `ingest/entities.py` | `entities`, `mentions`, `produced_by`, `relates_to` | write_entities, write_entities_many | stale candidate scans, merge order, batch against sequential | counters equal independent episodes |
| Dream State `lifecycle/dream.py`, `conflict.py` | `needs_review`, `invalid_at`, `Supersedes` | run_dream_state, supersede | decisions on a snapshot, concurrent passes, chains | one survivor of each conflict |
| Fact supersession `lifecycle/supersession.py` | `superseded_by`, `valid_to`, `supersession_checked_at` | run_supersession | a pass that fails half way, out-of-order event times | links point forward in time |
| Forget and purge `security/forget.py` | `invalid_at`, deletions | forget, forget_memories, purge | several queries, writes in flight | nothing of the subject comes back |
| Decay, salience, communities, ontology `lifecycle/` | weights, labels, proposals | one-query passes, label propagation, approve/reject | fixed points, two-step approval | label stability, proposal life cycle |
| Limits and auth `api/limits.py`, `security/` | counters per key | rate_limit, require_principal | window boundary, late requests, Redis failure | fewer than twice the limit per window and counter |
| Retrieval `retrieve/search.py`, `prime.py` | none of its own; refreshes access times | retrieve, prime | seven statements beside forget and supersession, budgets shared by tiers | budget held, nothing out of view, current facts first |
| Caches `embedding_cache.py`, `retrieve/enrich.py`, `ingest/extract.py` | LRU maps | get, put | concurrent get, put and evict, a change of the model, two askers at once | bound, no wrong vector, one reply per text |
| Adapters `crewai/`, `langchain/`, `src/packages/vercel/` | side rows, texts of recent vectors, turn counter, tools seen, last step | update, delete, search, add, recall, remember, capture | several writes, concurrent callers, requests nobody awaits | one live revision, every turn once and in order, chained steps |
| Schema, migrations, ops, MCP, client, telemetry, eval, sim | collections, versions, metrics | one-shot scripts, translation layers | crash between apply and record | migration order |

Parts interact through the database and the queue: endpoints enqueue or commit inline; workers of
every instance claim from the one durable queue; both write episodes, memories and the graph;
flush and sync force the ArangoSearch view that retrieval reads; the ops command moves dead letters
back through a private queue; Dream State, supersession and forget rewrite what commits wrote.

`PROJECT.json` lists each hazard at its line, with the properties that would catch it.

## Modules

| Module | Models | Kind |
|---|---|---|
| `WriteQueue` | `ingest/queue.py`, both backends | state and operations |
| `WritePath` | endpoints, workers, commits, dead letters, replay, crashes | detailed specification, extends `WriteQueue` |
| `WriteDelivery` | what a client may rely on for one intent | abstract specification |
| `MCWritePath` | constants of the runs | model checking |
| `WritePathProofs` | types, flush, sync, nothing lost, exclusive claims, the follow-up work of a stored turn, the uses of a step; `WritePath` implements `WriteDelivery` | theorems |
| `SessionMemory` | topic tracking, shift flush, capacity sweep and TTL of one session, `ingest/store.py` | component |
| `MCSessionMemory`, `SessionMemoryProofs` | constants of its run; its invariants for all constants | model checking, theorems |
| `DreamState` | a Dream State pass and what runs beside it, `lifecycle/dream.py`, `lifecycle/conflict.py`, entities of `ingest/entities.py` and `security/forget.py` | component |
| `MCDreamState`, `DreamStateProofs` | constants of its runs; its invariants for all constants | model checking, theorems |
| `EntityGraph` | ingestion into the graph, `ingest/entities.py`, `seed` of `entity_api.py`, `purge` of `security/forget.py` | component |
| `MCEntityGraph`, `EntityGraphProofs` | constants of its run; counters, rivals, edges and purges for all constants | model checking, theorems |
| `FactSupersession` | `lifecycle/supersession.py` | component |
| `Retrieval` | `retrieve/search.py`, `retrieve/prime.py` | component |
| `ModelReplies` | `retrieve/enrich.py`, `retrieve/decompose.py`, the caching extractor of `ingest/extract.py` | component |
| `Embeddings` | `embedding_cache.py`, `migrate_embeddings` of `ops.py`, the vector index of `schema/collections.py` | component |
| `Orders` | sorting and filtering as a numbering of places, for `Retrieval` and `CrewRecall` | operators |
| `Migrations` | start-up: `schema/collections.py`, `schema/migrations.py` | component |
| `RateLimits` | `api/limits.py` | component |
| `Communities`, `Ontology` | `lifecycle/community.py`, `lifecycle/ontology.py` | components |
| `CrewRecords` | writes of `crewai/unified.py` | component |
| `CrewRecall` | search of `crewai/unified.py` | component |
| `ChatHistory` | `langchain/history.py` | component |
| `ToolCapture`, `TurnCapture` | tool steps and turns of `src/packages/vercel/src/index.ts` and `langchain/graph.py` | components |
| `LifecycleProofs` | `FactSupersession`, `Ontology`, `Migrations`, `Embeddings`, `RateLimits` and `ModelReplies` for all constants | theorems |
| `RetrievalProofs` | what `Retrieval` and `CrewRecall` answer with, for all constants | theorems |
| `AdapterProofs` | `CrewRecords`, `ToolCapture`, `TurnCapture` and `ChatHistory` for all constants | theorems |
| `SumTheorems` | sums over finite sets, induction over finite sets and initial segments of the numbers | lemmas |
| `MCComponents` | one run of the thirteen components that share no state with the write path | model checking |

### The write path

**Threads.** A service instance is one API event loop (a member of `Handlers`) and one worker thread
(a member of `Workers`); `Home` says which instance a thread runs in. `Ops` is the process of
`ops replay`. Each thread has a program counter `pc`, the intent it works on (`task`), the queue entry it
holds (`holding`), the attempt (`tries`) and what the existence check told it (`isNew`).

**Granularity.** One action is one database statement or one in-process queue call, because each
commits on its own and a failure or another thread can come between any two. Statements that follow
one another and that nothing else can tell apart are one action: the inserts of a step's edges, and
the capacity and entity work that only a first store does (`Derive`; the session's own statements are in `SessionMemory`). `flush_endpoint` gives
up the event loop while it sleeps, so its start, its answer and its timeout are three actions; the
inline commit never gives it up, so a handler serves nothing else meanwhile.

**Data.** A turn is an intent. `StoredKey` is the key `store()` computes after redaction, `FailKey` is
`intent.key`, computed before; a step's key leaves out its arguments, so several steps may share one.
Queue positions stand for `enqueued_at`: instances are taken to agree on the order of enqueues, which
no property here depends on. A lease is free, held or lapsed instead of a timestamp.

**Failures.** `CommitRetries`, `CommitExhausted` and `SyncFails`: any statement, the embedder or the
extractor raises. `ThreadDies`: the database fails `claim()`, the dead-letter insert or `ack()`, which
run outside any handler. `ClaimReplyLost`: the claim takes effect and its answer is lost. `Crash` and
`Restart`: the process is killed at any point (a clean shutdown, whose `stop()` waits at most two
seconds, is no better) and the durable entries survive it. `LeaseExpires`: an entry
nobody works on is offered again. `LeaseOverruns`: the same under a holder still at work. `ReplayDies`: the replay
command is killed.

**History.** `cut` has the turns whose commit had found them new and was stopped between the episode and the follow-up work
(`Fault` says which threads a failure stops), `raced` those that a commit found new while another that had found them new was about to
insert the episode (`NewElsewhere`). `buried` and `overrun` are what was ever dead-lettered and which leases ever lapsed under a holder.
No guard reads them.

| Action | Code |
|---|---|
| `Enqueue`, `Claim`, `Ack`, `Lapse`, `Unacked` | `ArangoQueue` and `InProcessQueue` methods, the `_CLAIM` and `_PENDING_TENANT` queries |
| `PostAsync`, `PostSync`, `Reply`, `SyncFails` | `store_endpoint`, `step_endpoint`, `_sync_commit` |
| `FlushBegins`, `FlushReturns`, `FlushTimesOut` | `flush_endpoint` |
| `ClaimNext`, `AckClaim`, `ThreadDies` | `WriteWorker._run` |
| `CheckNew`, `InsertEpisode`, `InsertMemory`, `Derive` | `_store_impl` |
| `UpsertStep`, `LinkStep` | `record_step` |
| `CommitRetries`, `CommitExhausted`, `DeadLetter` | `WriteWorker.process`, `_dead_letter` |
| `ReplayBegins`, `ReplayMoves`, `ReplayMoved`, `ReplayClaims`, `ReplayAcks`, `ReplayEnds` | `replay_dead_letters`, `replay_failed`, `drain` |

### Session memory

`WritePath` leaves out what a commit does to its session, and `SessionMemory` leaves out everything else.
A thread that commits a turn reads the clock and looks the episode up (`Begin`), inserts the episode, reads the session
(`ReadTopic`), seeds it, or flushes the working buffer and writes the shift, or writes a blend, then inserts the
memory and, for a new working turn, sweeps the buffer. Each is a database statement, so that two threads
(a worker and an inline commit, or workers of two instances) interleave between any two, and any may fail. A turn may
be committed again while it is under way. `BulkTurns` arrive through `store_many`, which does not track the
topic and does not sweep. The TTL index (`Expire`) is external.

The embedding of a turn is a point on a line: what the code decides on is a distance, and an EWA blend is the midpoint.
Clock readings are taken to be distinct (`utcnow_iso()` has microseconds); the turns of one `store_many`
batch, which share a reading in the code, are committed one by one. `seenBy` is
the number of recorded shifts when a turn was tracked, `disturbed` the turns whose commit overlapped another, failed or was
repeated, `unswept` those that should have swept the buffer or never do. They only state the properties.

What the model says of the code, and the properties therefore allow for: `docs/DESIGN.md:536` gives the cap as
"Max `working_capacity` active", and the buffer may exceed it. A working turn whose commit fails before its sweep is retried as not
new (the cause of `GraphLostOnRetry`) and does not sweep, and `store_many` never does; the next sweep makes up for both.
`BufferBounded` bounds the excess by exactly those turns. A shift recorded
from a stale read of the topic flushes what a concurrent turn of the new topic just stored; `ShiftFlushesPrior` speaks of undisturbed turns.

### Dream State

A pass takes a snapshot of the candidates (`Begin`), judges each flagged one against its conflict target read at that moment and
proposes summaries (`Review`), compares what it would hide with what it reviewed (`Conclude`), and applies the plan one
statement at a time: for each supersession the edge (`InsertEdge`), `invalid_at` of the loser (`Invalidate`) and the winner's flag (`Settle`),
then the cleared flags and the summaries. It may stop anywhere (`Abort`): a failed statement, an update of an entity that purge
removed meanwhile, or the end of the process. Beside it entities are created, flagged against a candidate of a scan that filters nothing,
mentioned, forgotten and purged, and up to `Passes` other passes run, one per service instance or cron job: `dream_endpoint` runs the
pass on the event loop of its instance. Purge removes the edges of the entities it collected and then the
entities, in separate statements; an entity created while a purge runs is left out.

The verdict of the model, whether both entities carry different community labels and whether a summary is empty are choices.
`mentions` stands for the score `(belief, mention_count)`: both only grow, by mentions. The order of the loops over
supersessions, clears and summaries is any order, as the order of the candidates is.

Two things the model shows that no property forbids: a winner that is forgotten between decision and application still hides its
loser; and applying a supersession clears the winner's own pending flag even if that flag was about a third entity.

### Entity graph

A writer is in one call of `write_entities` or `write_entities_many`, a statement per action: `Check` and `Record` are the
existence check and the documents of the turn, `LookUpIndex` and `Scan` read candidates (the nearest ones when the vector index is
ready, else the whole tenant, once per call), `Write` resolves one entity of a single memory (merge into the nearest rival, flag it, or UPSERT),
`IncrementMany` and `UpsertMany` those of a batch, then come mentions, `produced_by` and `relates_to`. `Crash` ends a call between two
statements. `Seed` inserts a profile, `PurgeStart` and `PurgeStep` are `purge` over ids it has collected, for the tenant or one agent, and `PurgeCrash` stops it.
`WriteEntities` and `WriteEntitiesMany` are the same statements run to their end, which is what `BatchEqualsOneByOne` compares. `known`
records the keys a writer could have found, `fed` how often a memory was fed to the graph, `overlapped` that a call ran
beside a purge.

A statement over many entities is one function of the graph and not a loop, so that it can be reasoned about: `KeysFor` gives
every entity at hand its key at once (the rival it merges into, the row of its natural key, or a fresh key by the place where it
is found), `Increment` adds to each row the sums over what merges into it, and `Upsert` does so with the rest. The memories at
hand are a function from their places in the call, so the ones that are new, or that the extractor did not fail on, are a restriction of it. The run starts
from `Stored`, the graph that earlier calls left; `StoredAssumption` asks of it that its keys were handed out, that its
edges end somewhere and that its counters fit its edges, which is what the properties say of every graph the calls leave. Memories and writers are finitely many, and an
extractor says an entity once (`MemoriesAssumption`; `ingest/extract.py` drops repeats). `SimilarityAssumption` holds of a cosine: symmetric, and at most that of a vector with itself.

`BatchEqualsOneByOne` takes what the docstring of `write_entities_many` promises, with an exception the docstring names (similar new entities of one batch) and one
it does not: relations are resolved by one name-to-key map for the batch (`entities.py:664`), so a batch
in which one name has two labels links relations to the first, and a batch draws the relation of one memory to an entity that only another memory says,
which one call per memory leaves out. `RelatesOwn` says that a memory relates only what it says itself; no extractor sees to it (`ingest/extract.py:257-268`), so
`CorroborationBacked` and `BatchEqualsOneByOne` have it as a hypothesis.

### Fact supersession

A pass reads its rows once (`StartPass`), takes them oldest first, compares (`Compare`, the gate's choice of older statements), asks the model
(`Ask`, any subset), writes the links one by one (`LinkOne`) and the stamp (`StampRow`). It may stop between any two
(`EndPass`). Memories arrive and are forgotten meanwhile, and passes overlap. `LinkKept` speaks of passes that do
not: a pass that read its candidates before another linked them redirects the link.

### Retrieval

One call of `retrieve` with supersession and access recording on: the gate, HyDE and decomposition (`GateSkips`, `Enrich`), per query the three arms
(each a statement, in one order), reciprocal rank fusion, the second fusion of a multi-hop question, then time view, reranking and diversification
without a statement in between (`Rank`), the links read again and followed hop by hop (`ReadLinks`, `TurnTo`, `Hop`, `EndFollow`), entity summaries and
tiered assembly (`Assemble`), the access refresh, or the briefing of `prime` (`Brief`). Beside it memories are forgotten and superseded. Scores are integers
on a scale that keeps each `1/(k+rank)` exact; what an arm finds is any ordered choice of the visible memories. A stable sort, a filter and the order keys are first met in are each
a numbering of places (`InOrder`: as many stand ahead of a member as its place says), and diversification is the set of its greedy selections, so that all of them can be reasoned about.

The lexical arm reads the search view, whose copy of a memory lags its update (`retrieve/search.py:187-188`): it filters on what the view has committed of the forgotten
memories (`indexed`, which `ViewCatchesUp` lets grow as long as the call may still read the view), the other arms and the lookup of successors on the memories themselves. `HitsInView` therefore has two parts: what the view had committed as
forgotten when the call began (`withdrawn`) is no hit, and what was forgotten before the call but not committed (`before`) is one only if the view matched it in this call (`lagging`).
Such a hit does occur; the tests of `forget` poll until it is gone.

The model shows that multi-hop is no superset of the single-shot result, although `retrieve/search.py:849-853` says so: both are cut at the same `k`. The budget counts the
text of a memory; the date prefix of an injected line comes on top. A briefing counts the tokens of its joined text, headings included, but packs only its lines into the budget, so its count can pass the budget
by its headings, and `BudgetHeldAndUsed` bounds it by that (the tokens of a joined text are taken to be the sum of its parts'). A failure of the gate answers with nothing, a failure
of HyDE falls back to the question.

### Caches

`Embeddings`: threads of an instance share the LRU cache, or all share Redis; a thread that finds a vector moves it to the end in a second step, before which another
may evict it (`move_to_end` then raises and the call fails). An instance may be reconfigured for another model while its cache or Redis keeps vectors of the old one; `migrate_embeddings` lists
the stale texts, embeds one after another and rebuilds the index of the memories, only of the memories, while instances store, and build the index themselves
(`SelfHeal`, possibly with the old dimensions).

`ModelReplies`: every model question with a cache: look up, ask, parse, keep. What is kept stays: a wrong SKIP, a blank HyDE answer or an extraction that does not parse is not asked again. Two callers of one
text both ask (`crowded`), and entities and relations of a memory may then come from different replies; the comment at `ingest/extract.py:220`, that a memory costs one call, has callers of different texts in mind. A call without a query cache keeps
nothing and is left out.

### Start-up, limits, communities, ontology

`Migrations`: instances boot together, each going through the schema objects (check, create) and then the migrations above the version it read; an instance dies
between any two statements or fails to start when another creates what it found missing. Two instances can apply one migration twice, and a crash between applying and
recording repeats it, where `schema/migrations.py:7` says "exactly once"; no registered migration exists yet for which that matters.

`RateLimits`: requests read the clock, then take the lock of their instance, or go to Redis, whose faults let them pass uncounted. `late` records that a request was held up
between the two: it may then be counted in a window begun after its time, and a stretch of one window may admit more than `2 * Limit - 1`.

`Communities`: nodes, edges and labels are three queries, with entities appearing and being invalidated in between. `Ontology`: clusters, proposals, a listing, an approval that reads the proposal
again, the relabelling and the mark. Labels that differ in characters a key may not have ("C#", "C++") share a proposal; approval does not look at its status; a pass may rename it after the reviewer saw it
(`renewed`).

### Adapters

`CrewRecords`: `update` and `delete` statement by statement, by several clients, with a failure at any of them and a tenant-level forget beside them. `CrewRecall`: the paired embedder and the two
ways of `search`, by the text the vector came from or by cosine over the rows. The core's answer may be filled by other memories of the crew, so the three-fold candidates need not yield `limit` records
(`crewai/unified.py:49-50` expects them to). Searches write nothing, so one searching thread stands for all.

`ChatHistory`: an object counts the session's episodes when it is made. An object that missed another's add may reuse a turn index, and a message with the text of the other's is then lost; `clean` excludes it from
`TranscriptKeepsAdds`. An add repeated after `clear` finds its cleared episode and shows nothing.

`ToolCapture`: captures of successive prompts, which the Vercel middleware does not await and which may overlap (`together`) or lose a request; the LangGraph node captures in `remember`, in whatever thread calls it: the check, the mark and the record of a call are three steps there, so that two
threads may both trace one call, and a step whose record failed is never recorded. `TurnCapture`: what
reaches the core as turns: generated and streamed answers, streams cut off, requests that arrive in any order or not at all, and the node that remembers the whole state each time. `recall` of the node adds a memory block each time, where
`langchain/graph.py:7-8` says a stale block is replaced; `remember` skips the blocks, which `TurnsHeard` relies on. Its stores raise, where lines 11-13 say memory faults never break the graph.

## Runs

| Run | Properties | Bounds |
|---|---|---|
| `WritePathSafety` | `NothingLost`, `FlushBarrier`, `ExclusiveClaim`, `DeliversAsPromised` | two instances, one turn sent twice, two faults, one attempt per commit, one replay |
| `WritePathLive` | `GraphLostOnlyByCut`, `DerivedTwiceOnlyByRace`, `StepsCounted`, `SyncReadable`, `EventuallySettled` | two instances, one turn and one step, each queued or inline, one enqueue and two inline commits, one fault of any kind, two attempts, one replay that may die |
| `DuplicatesRace` | `DerivedAtMostOnce`, violated | one instance with the in-memory queue, one turn queued and inline, no fault |
| `GraphLostOnRetry` | `GraphCompleteAtRest`, violated | one instance, one fault |
| `DeadWorkerThread` | `EventuallySettled`, violated | one instance, one fault |
| `DeadLettersCollide` | `NothingLost`, violated | one instance, two steps with one key, two faults |
| `SessionMemory` | `BufferBounded`, `ShiftFlushesPrior`, `BufferHoldsNewest`, `ShiftStaysFlagged`, `PromotedIsKept` | two threads, four turns (three working, one of them by `store_many`) whose topic drifts and then shifts, capacity one, two attempts per turn, four commits |
| `DreamState` | `ConflictKeepsOne`, `HiddenIsAudited`, `BreakerHolds` | one pass process that may run twice, three entities, two mentions each, one forgotten or purged |
| `DreamPassesRace` | `ConflictKeepsOne`, violated | two pass processes, two entities, no forget |
| `EntityGraph` | `EvidenceMatchesMentions`, `CorroborationBacked`, `KnownRivalsResolved`, `NoDanglingEdges`, `BatchEqualsOneByOne`, `PurgeLeavesNothing` | two writers, two agents, three memories over four entities of which two pairs are similar (one to merge, one to flag), a batch that repeats a memory and one that does not, two calls or purges at once, one crash, seed or purge |
| `Components` | one to three properties of each of thirteen components, see below | see below |
| `CrewResaveLost` | `SavedIsShown`, violated | two records, two contents, two clients |

`Components` picks one component per behaviour (`part`); the others stay where they start, so its state space is the sum of theirs.

| Component | Properties | Bounds |
|---|---|---|
| `RateLimits` | `WindowAdmits` | limit two, window two, five requests at two instances, clock up to four |
| `Migrations` | `NoMigrationSkipped` | two instances, four boots, three schema objects, three migrations |
| `FactSupersession` | `LinksClimb`, `LinkKept`, `NoOlderSkipped` | three facts, two of one time, two passes, two starts |
| `Retrieval` | `BudgetHeldAndUsed`, `HitsInView`, `SuccessorAboveStale` | three memories (two of them alike), `k` two, two hops, two sub-queries, two forgets or links meanwhile, budget ten against costs of three to five |
| `CrewRecords` | `RecordsReadBack` | two records, two contents, two clients, four operations, one failure |
| `ChatHistory` | `TranscriptKeepsAdds` | two objects, two texts, three episodes |
| `ToolCapture` | `TracedOnceInOrder` | two captures, three tool calls of which two share a step key, one loss |
| `TurnCapture` | `TurnsHeard` | three utterances, two texts, one loss or failure |
| `Communities` | `CommunitiesConnected` | every graph over five pairs of four entities, two passes, one invalidation |
| `Ontology` | `RelabelledAsReviewed` | three edges, two tenants, two labels that share a key, two passes, one review |
| `Embeddings` | `VectorsMatchModels` | two threads, one cache entry, two models, one migration, one failure |
| `ModelReplies` | `RepliesReused` | two callers, two texts, three questions, one failure |
| `CrewRecall` | `RecallHolds` | four cues, two of one vector, two texts kept, two records and one other memory |

The type invariants are not listed in the runs of components that have a proof of them.

**Why the bounds are enough.** In the write path every property is about one intent or one queue entry and at most two
threads that meet on it: two workers on one entry (claim, lapse, claim again, ack by either), a worker
and the replay command on one dead letter, a duplicate of an intent already stored. Two entries of one
intent with two workers and two faults reach each of these. One attempt per commit only shortens the way to the
dead letter; `WritePathLive` has two. There a queued and two inline commits of one turn, the retry after a failure, a lease that overruns and the second worker, or the replay, meet on one
key in any order: every kind of repetition the code has, each beside each other one. The in-memory queue is in `DuplicatesRace` and in the theorems. A session's topic and buffer are touched by at most two statements that
race, and the capacity is smaller than the number of working turns, so that a sweep has something to choose. A conflict has two
entities, a chain three, and a second pass sees what the first left. In the graph a merge, a flag and a duplicate each need two rows and two writers whose
scans cross. Caches and limits have a bound of one or two and more users than that; a retrieval has more candidates than hits and more cost than budget. The theorems below drop the bounds for the safety properties.

**Fairness** (`LiveSpec`). Threads keep running, a killed process is restarted by its supervisor, and
clocks pass the end of a lease: weak fairness of commits, dead-lettering, claims, acks, replies, restarts and
expiry. Nothing restarts a worker thread alone, the code has no such supervisor, so `DeadWorkerThread`
finds that one instance whose thread died never drains its queue, and `WritePathLive` shows that a second
instance does. Retries, crashes, posts, flushes and replays are not fair: nobody promises them.

**What the violated properties show.**

- `GraphLostOnRetry`: the first attempt inserts the episode and fails afterwards; the second finds the
  episode, takes the turn for a replay and skips entity extraction. `docs/ops.md` says retries are safe.
- `DuplicatesRace`: an inline commit checks between the worker's check of the same turn and its insert; both find it new and both do its follow-up work, so that
  entities are counted twice. `ingest/worker.py:51` says that a sync and a duplicate async commit converge safely, `docs/DESIGN.md:691` that redeliveries cannot duplicate.
  `DerivedTwiceOnlyByRace` holds: there is no other way.
- `DeadWorkerThread`: see above. `docs/DESIGN.md` promises that a write is queued or dead-lettered
  while ArangoDB is unreachable.
- `DeadLettersCollide`: two failed steps of one tool and outcome, with different arguments, leave one dead letter.
- `DreamPassesRace`: two passes take their snapshots on both sides of a mention, each finds the other entity the weaker, and
  both supersessions are applied. `docs/DESIGN.md` promises a lock that lets one worker run; no code takes it. With one pass
  at a time the property holds (`DreamState`, `OnePassKeepsOne`).
- `CrewResaveLost`: a record saved, deleted and saved again with one content gets the key of its soft-deleted memory, which `store()` leaves alone: the save returns and the record is never shown.
  `crewai/unified.py:16-20` says that it never collides. `RecordsReadBack` holds for all records that did not come back from a deletion, a forget, a failure or an overlap in this way (`spent`).

Without a run of their own, but within the model: a step that fails after its UPSERT is counted twice by its retry, which `StepsCounted` allows for; a briefing counts more than `max_tokens`
(with `answer.brief <= MaxTokens` for an invariant of `Components`, twelve tokens against ten), although `retrieve/prime.py:162` says "under one budget" and `src/core/tests/test_prime.py:20-24` asserts it for a
budget that leaves room; a replay command that dies before its commit loses the dead letter it
had deleted (`ReplayMayDie = TRUE` in `WritePathSafety`); and the id returned to a client is computed before
redaction, so that for a turn redaction changes it names nothing stored. `_supersession` says that a stale statement keeps
its place below its current successor; with a chain of more links than the hops followed (`MaxHops = 1` and three links), the statement in the
middle, raised above an older one, can stand above the successor that marked it. With memories that relate what they do not say (`m2` saying only "Ana" in
`MCEntityGraph`), a batch builds another graph than single calls, although the docstring of `write_entities_many` (`entities.py:561`) promises that "the result equals calling `write_entities`
per memory" up to two differences of which this is none.

## Theorems

**Write path**: `Spec` of `WritePath`, for any sets of instances, threads, intents and keys, any retry limit
and any bounds.

| Theorem | States | Under |
|---|---|---|
| `TypesHold` | `[]TypeOK` | the modules' assumptions only |
| `FlushIsABarrier` | `[]FlushBarrier` | the same |
| `CommittedIsReadable` | `[]SyncReadable` | the same |
| `ClaimsAreExclusive` | `[]ExclusiveClaim` | the same |
| `NothingIsLost` | `[]NothingLost` | no two intents share a dead-letter key; the replay command is not interrupted |
| `GraphLossIsCut` | `[]GraphLostOnlyByCut` | the modules' assumptions only |
| `GraphIsComplete` | `[](faults = 0 => GraphCompleteAtRest)` | the same |
| `FollowUpTwiceIsRaced` | `[]DerivedTwiceOnlyByRace` | the same |
| `StepsAreCounted` | `[](faults = 0 => StepsCounted)` | the same |
| `WritePathDelivers` | `DeliversAsPromised` | those of `NothingIsLost` and the durable backend |

The two hypotheses of `NothingIsLost` are exactly what `DeadLettersCollide` and a killed replay refute. `GraphLostOnRetry`
refutes `GraphCompleteAtRest` once something fails, `DuplicatesRace` that follow-up work is done once; what is left of both promises holds whatever fails and
however many commits of a turn meet.

**The argument.** `TypeOK` is not inductive: a statement writes under the key of the thread's intent, so one has to
know that a thread between its first statement and its ack has one (`TaskInHand`). `PromiseInv` adds
what a thread has already written by where it stands (`CommitProgress`), that an entry still holds the
intent of whoever claimed it or was acked (`HoldsItsTask`), that an enqueue overwrites nothing
(`PositionsInUse`), that the replay command only handles what was dead-lettered (`ReplayHasBuried`) and that
an accepted intent is stored, queued or was dead-lettered (`AcceptedIsSomewhere`). When flush finds nothing
unacked, the last of these is its promise. `KeptInv` sharpens it to where a
dead-lettered intent is now: an ack is only reached when the intent is stored, in `failed_writes`, or in the
replay command's hands (`AckedIsKept`). For the follow-up work, a memory is only written after its episode (`EpisodeFirst`);
an episode has been followed up, or whoever found it new is on the way, or such a commit was cut (`SomebodyDerives`, and nothing is cut before the first fault: `NothingCutYet`);
two commits under way that both found their turn new have raced (`RacersAreKnown`), and whoever is on the way without having raced finds the work undone
(`NotYetDerived`). What the other actions leave alone is one lemma (`CommitFrame`). `LeaseInv` ties each holder to a held lease. For the uses of a step,
`CountInv` adds up what was counted, what waits in the queue and what a handler has in hand: while nothing fails their sum is what was sent (`CountsAddUp`), and every action moves one use from one of the
three to another. No entry has then two holders, and nothing was dead-lettered or died (`Calm`). The refinement maps every step to
a move of one intent, to a set of intents becoming stored (redaction may map several to one key), or to a
stutter (`StepMaps`).

**Session memory** (`SessionMemoryProofs`) and **Dream State** (`DreamStateProofs`), for any sets of threads, turns, entities and
passes, any capacity, threshold and breaker, from the modules' assumptions:

| Theorem | States | Under |
|---|---|---|
| `SessionTypes` | `[]TypeOK` | |
| `WorkingBufferIsBounded` | `[]BufferBounded` | |
| `ShiftsFlush`, `ShiftsStayFlagged` | `[]ShiftFlushesPrior`, `[]ShiftStaysFlagged` | |
| `OldestIsPromotedFirst` | `[]BufferHoldsNewest` | |
| `PromotedMemoriesStay` | `PromotedIsKept` | |
| `DreamTypes` | `[]TypeOK` | |
| `LossesAreAudited` | `[]HiddenIsAudited` | |
| `BreakerBoundsPasses` | `[]BreakerHolds` | |
| `OnePassKeepsOne` | `[]ConflictKeepsOne` | one pass process |

For the session, the invariant adds what two commits know of each other: a commit that did not find its turn new repeats an earlier one
(`Repeats`), and two that run side by side are both disturbed (`Overlaps`); that promoted memories have no expiry (`KindsFit`); that nothing newer
is stored while an undisturbed commit runs and whatever runs after it is newer (`Times`); and that between a flush and the record of its
shift only disturbed commits refill the buffer (`Flushed`). `Times` gives the order of promotion, `Flushed` the shift.

For Dream State, the types of a plan depend on a flagged candidate having a target, which its snapshot fixes for good (`FlaggedHasTarget`). The audit
trail follows from the edge of the pair under way being there or purged (`EdgeFirst`); the breaker from counting what is hidden
together with what is still planned (`WithinBreaker`). That one pass keeps one of each conflict needs more: the target of a conflict
is the older entity, so that two entities never have each other for target (`TargetsAreOlder`); whoever lost is invalid
or gone (`LostAreHidden`), so that a later pass, which starts from valid entities and looks at the target again, cannot decide
against an earlier loss; while it reviews, nobody it has yet to judge has lost and each planned pair comes from one already judged (`Undecided`); and
so no pending decision is the reverse of another or of a loss (`NoReverse`).

**Entity graph** (`EntityGraphProofs`), for any writers, agents, memories, entities, similarities, thresholds, batches, seeds and purges, from the modules' assumptions:

| Theorem | States |
|---|---|
| `EdgesEndAtDocuments` | `[]NoDanglingEdges` |
| `KnownRivalsAreResolved` | `[]KnownRivalsResolved` |
| `CorroborationIsBacked` | `[]CorroborationBacked` |
| `CountersMatchMentions` | `[]EvidenceMatchesMentions` |
| `PurgeLeavesNoneOfScope` | `PurgeLeavesNothing`, an action property |

`EntityInv` is the invariant. Dangling edges need to know where everybody stands: while no call ran beside a purge, what a writer goes by exists, that is, its documents, the rows of its
pool and cache, and the keys of the entities it has resolved (`WritersHold`); and a purge is alone and has collected, cut and removed what its step says (`PurgeAlone`:
`ScopeCollected`, `EdgesRemoved`, `DocsRemoved`), from which `PurgeLeavesNothing` follows at its last step. Rivals need that the pool or cache of a writer about to resolve shows every row that was there when it looked,
under the entity the row has now (`RivalsInSight`): rows come and go but never change their entity, and a key is never handed out again (`WellFormed`).

The statements are dealt with before the actions. `UpsertMakes` and `SeedKeeps` say what a statement that adds rows does: it keeps the old rows up to counters and conflict flag, adds keys at the end, and
flags what it adds against its pool (`Resolved`); `NewKeyInRange` is the counting behind the fresh keys. `NearestIsNearest` finds the best of a finite pool by the well-foundedness of the numbers, and
`ResolvedAgainst` draws from it that no candidate is left unresolved. Writers then only let the graph grow (`Grows`, with a lemma per part of the invariant), purges only let it shrink (`PurgeShrinks`).

For the counts of a relation, a writer that recorded a memory owes it to a pair of keys until it has related it (`Owes`), and never owes more than was fed (`Affordable`). What a relation has counted is
at most the sum, over the memories that mention both its ends, of what was fed less what is owed (`Covered`): `Record` feeds and owes at once, and a statement that relates pays one place of the call for each unit it adds (`PlacesPay`, from `SumOfPlaces`).
That both ends are mentioned follows from the mentions being written first, under the keys the writer still goes by (`Linked`).

For the counters of a row, both bounds are sums over finite sets of tuples, each worth what its memory weighs (`ByMemory`), and every statement moves tuples from one set to another. From above: what the row
has counted, with what calls have yet to count for its entity (`ToCount`), is at most what was fed (`Fedings`, `WithinFed`); `Record` feeds for each tuple it will count (`FedForIt`). From below: the mentions drawn (`Mentionings`) and those that a call
has counted and not drawn yet (`Promised`) are at most what the row has counted (`MentionsCounted`). An increment or upsert adds to a row just the tuples of the entities at hand that resolve to it (`Adds`, by `TellsAll`); these were left to count and no longer are (`Taken`), and any new
promise is among them (`Pledged`). `CountingStep` draws both bounds from that, and drawing the mentions turns promises into edges one for one (`PromisesKept`). It needs that what a call goes by is still so (`CallTrue`),
which holds even when a purge runs beside it, since no key is handed out twice.

**Life cycle** (`LifecycleProofs`): fact supersession, the ontology pass, start-up and the vectors of the texts, for any facts, gates, passes, tenants, edges, relationships, instances, objects,
migrations, hosts, threads, models and cache size, from the modules' assumptions:

| Theorem | States |
|---|---|
| `FactTypes`, `MigrationTypes` | the type invariants |
| `LinksNeverCycle` | `[]LinksClimb` |
| `LinksAreKept` | `LinkKept`, an action property |
| `CheckedInOrder` | `[]NoOlderSkipped` |
| `RelabelsAreReviewed` | `[]RelabelledAsReviewed` |
| `NothingIsSkipped` | `[]NoMigrationSkipped` |
| `VectorsAreTrue` | `[]VectorsMatchModels` |

For supersession, what a pass shows to the model and what it picks is strictly older than its row (`OlderAtWork`), which gives `LinksClimb` without any assumption on overlap; that a lone pass links only what
has no link (`AloneUnlinked`) gives `LinkKept`; and that whatever a pass did not take is checked or no older than what it has left (`TakenInOrder`) gives `NoOlderSkipped`.

For the ontology pass, a proposal under a key is of a group of that key and bears a name the model gave for one of them (`ProposalsBacked`). What the reviewer was shown is what the key
still holds, or a pass has renewed it; what was read for the verdict stays backed (`ReviewBacked`).

For start-up the invariant adds that an instance has seen every object before the one it is at (`BaselineBehind`), and that a version it believes in, however stale, was
applied (`VersionsBacked`); the rest is that the next version of an instance is the least above what it believes in, which needs the well-foundedness of the numbers (`MinOfPending`).

For the vectors, a cached one was made by the version in its key (`EntriesTrue`), the one a thread holds by the embedder of its instance (`AtHandTrue`), a stored one by the version of its stamp (`StampsTrue`). A migration
has listed, or has yet to list, every text of another version that was not stored behind its back (`MigrationOnCourse`), so a finished one has left none. A cache may exceed its bound by the threads about to evict (`CacheInBounds`, which counts them).

In the same module, limits and model replies, for any requests, limit, window, callers, texts and answers, from the modules' assumptions:

| Theorem | States |
|---|---|
| `LimitTypes` | `[]LimitTypeOK` |
| `WindowsAdmit` | `[]WindowAdmits` |
| `RepliesAreReused` | `[]RepliesReused` |

For limits, the invariant holds one counter at a time. `RateHeld` bounds what was admitted by the limit per window begun and the hits of the current one. `Packed` is the burst: a window is opened by a hit that counts, so of the
stretches that end in the current window at most `Limit - 1` hits can lie before its start, and with at most `Limit` in it they never reach `2 * Limit`. Redis keeps the end of a window and not its start, so there the start is
quantified. `Packed` is kept only while no request was held up before the lock.

For the replies, whatever is cached, about to be cached or used was answered to that very question (`AnswersGiven`, with `Sound` for each caller). For a text that no two callers ask side by side and HyDE did not spoil
(`SpoiltByHyde`), there is one asker, nothing is kept while it asks, and nothing was answered before it asked (`AskedOnce`).

**Retrieval** (`RetrievalProofs`): one call, for any memories, readers, weights, scorings, pool and result sizes, budgets, hops and concurrent writes, from `RetrievalAssumption`, and one CrewAI
search after another, for any cues, vectors, records, filters, limits and capacity, from the assumptions of `CrewRecall`:

| Theorem | States |
|---|---|
| `HitsAreInView` | `[]HitsInView` |
| `BudgetIsHeldAndUsed` | `[]BudgetHeldAndUsed` |
| `SuccessorsStandAbove` | `[]ChainsWithinHops => []SuccessorAboveStale` |
| `RecallComplete` | `[]RecallHolds` |

First the operators. In a strict order of a finite set, how many stand ahead of a member is a one-to-one numbering (`InOrderLists`), so sorting and filtering a list of distinct memories gives such a list again (`ByScoreRanks`,
`PickedRanks`), and so do both fusions, reranking and diversification (`FusedRanks`, `MergedRanks`, `RerankedRanks`, `DiverseRanks`). Then the invariant: what was gathered is in the reader's scope and was not forgotten when the call began, unless the
view matched it (`CandidatesInScope`); once the time view was taken it is in view (`CandidatesInView`); a link that was read belongs to such a memory, and so does the successor a chain has reached (`LinksInScope`). For the size, supersession pulls in at most one memory for each
candidate it has concluded, beside at most `HitCount` selected ones (`PulledIn`), so at most `HitCount` are pulled in, and dropping the lowest of the others brings the rest to `HitCount` (`TrimRanks`, by `LastPlaces`).

For the budget, packing goes over the hits as a function of the place reached, so what holds at one place is carried to the next (`RecursionUpTo`): the total stays within what the earlier tiers left, and whatever was
passed over did not fit then and fits no later (`PackedFits`); summaries, facts, entities and procedures follow one another on what is left (`SummariesFit`, `AssembleFits`).

For supersession, a memory that is marked has one on its chain of links with a higher score (`Marked`), and only a successor is ever raised, so what must not happen is that a
marked memory is a successor itself. Its own link was read, is in view and leads to a memory that could be fetched, and a key is fetched once in a call (`LinksRead`), so a later chain that reaches it goes on past it,
unless the hops run out there. That is the one place that needs `ChainsWithinHops` (no chain of links has more than `MaxHops`): without it a second chain may stop in the middle of the first and
raise a memory above the one that marked it, and the property fails. What is being followed is a chain that starts at its candidate, each memory later than the one before (`ChainFollowed`, `NewerIsLater`), so a candidate is never its own successor; a sort puts the higher score first
(`ByScoreFollows`), and trimming keeps a memory that was not pulled in only with all that stand before it (`TrimFollows`). The other half, that a memory whose newer statement can be shown is marked, needs no hypothesis (`Hidden`).

For recall, the pairs kept are the most recent texts, each under its own vector (`PairsFit`), so the text a search takes for its vector is one of that vector; what a seeker has found or is about to return
passes its filter and its score (`SeekerFits`, `FoundRight`), in the order of its scores and cut at its limit (`PickedIs`, `OrderAtEnd`).

**Adapters** (`AdapterProofs`): CrewAI records, tool and turn captures and chat histories, for any records, contents, clients, revisions, failures, captures, prompts, losses, objects and texts, from the modules' assumptions:

| Theorem | States |
|---|---|
| `CrewTypes` | `[]CrewTypeOK` |
| `RecordsAreReadBack` | `[]RecordsReadBack` |
| `CallsAreTracedOnce` | `[]TracedOnceInOrder` |
| `TranscriptIsKept` | `[]TranscriptKeepsAdds` |
| `ConversationHeard` | `[]TurnsHeard` |

For records, the invariant is per client and per record. Two operations on one record know of each other (`OverlapsShow`) and nothing is promised of a record under work (`PromisesWait`), so an undisturbed step may rely on
what its operation read (`ReadsHold`). An undisturbed update has a live memory unless its key was forgotten before (`UpdateLives`), which its row then shows (`PromisesKept`). Which memories of a record can be live follows from
where its one operation stands (`LiveBound`): the row's alone, the row's and the new one between store and forget, the new one alone before the row is written, none before rows are deleted. That a rewrite never meets
a forgotten key needs the order of revisions: of a record never deleted, forgotten, failed on or overlapped, nothing later than its row was ever stored (`RevisionsClimb`). `StepInv` proves once that a step leaves the other clients and records as they
were; each action then answers for its own.

For tool captures, a call in flight was seen by one capture only, unless captures of a node overlap (`FlightsApart`), and is traced when received, and the step a request names was received before (`PrevTraced`). Without overlap and loss
there is one capture under way, and the step it names next is the last one traced (`ChainGoesOn`).

For histories, the number of an episode is below its place in the log (`TurnsBelowIndex`), and an object that has missed nothing numbers its next message above all of them, or repeats the one whose add raised (`CurrentAhead`). That what was told is shown in order is a statement about places: there is
an increasing map from the told texts to places after the last clear, and what a raised add left behind comes later (`ToldPlaced`).

For turn captures, each client has its half of the invariant. The node goes through the messages of its state one by one, and the core has heard, once and in order, just what those before some place say (`HeardJust`); what it has yet to remember begins no later (`NodeRemembers`).
The middleware owes only the words of the present model call (`ToBeSent`), and as long as no request was lost everything else was heard or is in flight (`MiddlewareSends`).

**Sums** (`SumTheorems`). `SumFunctionOnSet` is a fold over a set in an unspecified order, which the library says nothing about. A sum of numbers is the size of a set of units, `f[x]` of them for each `x`
(`SumCounts`); from this follow what adding a member (`SumWith`), raising (`SumGrows`) or changing (`SumChanges`) a summand does, that the sizes at the places of a sequence add up to sums over its members (`SumOfPlaces`), that a sum injected into another is at most that (`SumInjects`), and that the sums over the parts of a partition add up to the sum over the whole (`SumOfParts`). The induction over the set
is by a least counterexample among the subsets (`LeastOf`), which needs no induction theorem with an operator for a parameter.

**Only model-checked:**

- `EventuallySettled`: liveness under fairness is beyond the prover.
- `BatchEqualsOneByOne`: relates a fold of calls, each a fold over entities, to one call. The statements of the two are not pairwise equal, only their results are.
- `CommunitiesConnected`: a sweep is a fold over the nodes, the propagation a recursive function of sweeps, connectedness a transitive closure.

## Plan

Done, in this order: `WriteQueue`, `WritePath`, `WriteDelivery`, `SessionMemory`, `DreamState`, `EntityGraph`, `FactSupersession`, `Retrieval`, the caches, start-up, limits, communities and ontology, the adapters.
Left, the most useful first:

1. `EntityGraph` composed with `DreamState`: merges into an entity that a pass has just invalidated.
2. Forget beside the capacity sweep of `SessionMemory`, whose query skips invalid memories.
3. The three-tier storage and shim of `crewai/`, which `crewai/unified.py` replaces. Its docstring has Dream State write the `::insight` tier; no code does.
4. Authorization decisions as an operator, checked against the policy table of the documentation.

## Not modelled

- Embedding, generation and reranking call models; extraction rules, event times and prospective phrases parse text. Their results are inputs of the models.
- `nack`, which nothing in the service calls.
- Authentication and authorization: a decision per request that reads no shared state.
- Salience: a PageRank over one query's result. Decay is in `Retrieval` only as far as it hides memories.
- MCP server, MCP tools and the Python client translate calls to functions modelled here.
- Telemetry, evaluation, simulation and configuration: no decision of the service depends on state they keep.
- Entity and graph read endpoints, the LangChain retriever, `touch_records` and listings of the CrewAI backend: read-only, or one write to one row.

`PROJECT.json` gives the reason for each component.
