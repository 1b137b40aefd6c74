----------------------------- MODULE Embeddings -----------------------------
(***************************************************************************)
(* Where the vectors of stored texts come from: the embedding cache of an   *)
(* instance (embedding_cache.py), shared by its threads or kept in Redis    *)
(* for all instances, and the migration to another embedder (ops.py), which *)
(* lists the texts with another version, embeds them one by one and then    *)
(* rebuilds the vector index of the memories (schema/collections.py) while  *)
(* instances write and build the index themselves.                          *)
(***************************************************************************)
EXTENDS Naturals, Sequences, FiniteSets, SequencesExt

CONSTANTS
  Passages,       \* texts to store: a memory or an entity each
  Entities,       \* those that are names of entities
  Threads,        \* threads that write
  HostOf,         \* [Threads -> instance]
  Models,         \* embedder versions, each of its own dimension
  Threshold,      \* vector_training_threshold
  CacheSize,      \* embedding_cache_size
  MaxFailures,    \* bound: failures of the migration, of Redis or of a restart
  MaxRuns         \* bound: migrations started

ASSUME EmbeddingAssumption ==
  /\ Entities \subseteq Passages /\ CacheSize \in Nat \ {0} /\ Threshold \in Nat \ {0}
  /\ MaxFailures \in Nat /\ MaxRuns \in Nat /\ IsFiniteSet(Threads)

NoVersion == 0
Absent == [made |-> NoVersion, stamp |-> NoVersion]
Kinds == <<Passages \ Entities, Entities>>  \* migrate_embeddings: memories, then entities

VARIABLES
  cacheBackend,   \* "local" or "redis"
  embedder,       \* per instance: version of its embedder
  cache,          \* per instance: keys in use order with the version that made the vector
  sharedCache,    \* the same for all instances, as a set
  docs,           \* per text: version that made its vector, and embedding_version
  index,          \* version the index of the memories was built for, or none
  threads,        \* per thread: where it is, its text, the vector at hand
  migration,      \* the migration: where it is, its version, the texts left
  failures, runs, \* bounded counts
  storedLate      \* history: texts stored with another version since the list was read

hostVars == <<cacheBackend, embedder, cache, sharedCache, threads>>
corpusVars == <<docs, index, migration, runs, storedLate>>
embeddingVars == <<hostVars, corpusVars, failures>>

Hosts == {HostOf[t] : t \in Threads}
Resting == [pc |-> "idle", text |-> "", made |-> NoVersion]
NoMigration == [pc |-> "off", version |-> NoVersion, kind |-> 0, todo |-> {}]

EmbeddingInit ==
  /\ cacheBackend \in {"local", "redis"}
  /\ embedder \in [Hosts -> Models]
  /\ cache = [i \in Hosts |-> <<>>] /\ sharedCache = {}
  /\ docs = [x \in Passages |-> Absent]
  /\ index = NoVersion
  /\ threads = [t \in Threads |-> Resting]
  /\ migration = NoMigration
  /\ failures = 0 /\ runs = 0 /\ storedLate = {}

---------------------------------------------------------------------------
(* embed_cached, then the insert of the text with its vector.               *)

\* Mutant: the version is left out of the key.
TextOnly(text, version) == <<text, NoVersion>>
CacheKey(text, version) == <<text, version>>

KeyIn(t) == CacheKey(threads[t].text, embedder[HostOf[t]])
Entry(key, made) == [key |-> key, made |-> made]

\* get(): the entry is not moved yet.  A Redis error is a miss.  The name of an
\* entity is embedded on every mention.
Lookup(t, x) ==
  LET i == HostOf[t]
      key == CacheKey(x, embedder[i])
      kept == IF cacheBackend = "local" THEN ToSet(cache[i]) ELSE sharedCache
      hits == {e \in kept : e.key = key}
  IN /\ threads[t].pc = "idle" /\ (x \in Entities \/ docs[x] = Absent)
     /\ \/ \E e \in hits : threads' = [threads EXCEPT ![t] =
             [pc |-> IF cacheBackend = "local" THEN "bump" ELSE "insert", text |-> x, made |-> e.made]]
        \/ /\ hits = {} \/ (cacheBackend = "redis" /\ failures < MaxFailures)
           /\ threads' = [threads EXCEPT ![t] = [pc |-> "embed", text |-> x, made |-> NoVersion]]
     /\ failures' = IF hits # {} /\ threads'[t].pc = "embed" THEN failures + 1 ELSE failures
     /\ UNCHANGED <<corpusVars, cacheBackend, embedder, cache, sharedCache>>

\* move_to_end(): raises when another thread evicted the key meanwhile; the
\* write fails and is tried again.
Bump(t) ==
  LET i == HostOf[t]
      mine == {n \in DOMAIN cache[i] : cache[i][n].key = KeyIn(t)}
  IN /\ threads[t].pc = "bump"
     /\ IF mine = {}
        THEN /\ threads' = [threads EXCEPT ![t] = Resting]
             /\ UNCHANGED cache
        ELSE /\ threads' = [threads EXCEPT ![t].pc = "insert"]
             /\ \E n \in mine :
                  cache' = [cache EXCEPT ![i] = Append(RemoveAt(cache[i], n), cache[i][n])]
     /\ UNCHANGED <<corpusVars, cacheBackend, embedder, sharedCache, failures>>

\* The provider answers and the vector is kept; an existing key keeps its place.
Embed(t) ==
  LET i == HostOf[t]
      made == embedder[i]
      key == KeyIn(t)
  IN /\ threads[t].pc = "embed"
     /\ threads' = [threads EXCEPT ![t] = [pc |-> IF cacheBackend = "local" THEN "evict" ELSE "insert",
                                           text |-> threads[t].text, made |-> made]]
     /\ IF cacheBackend = "local"
        THEN /\ cache' = [cache EXCEPT ![i] =
                  IF \E e \in ToSet(@) : e.key = key THEN @ ELSE Append(@, Entry(key, made))]
             /\ UNCHANGED sharedCache
        ELSE /\ sharedCache' = {e \in sharedCache : e.key # key} \cup {Entry(key, made)}
             /\ UNCHANGED cache
     /\ UNCHANGED <<corpusVars, cacheBackend, embedder, failures>>

Evict(t) ==
  LET i == HostOf[t]
  IN /\ threads[t].pc = "evict"
     /\ cache' = [cache EXCEPT ![i] = IF Len(@) > CacheSize THEN Tail(@) ELSE @]
     /\ threads' = [threads EXCEPT ![t].pc = "insert"]
     /\ UNCHANGED <<corpusVars, cacheBackend, embedder, sharedCache, failures>>

\* The first insert of a text wins.
Insert(t) ==
  LET x == threads[t].text
      version == embedder[HostOf[t]]
  IN /\ threads[t].pc = "insert"
     /\ threads' = [threads EXCEPT ![t] = Resting]
     /\ IF docs[x] = Absent
        THEN /\ docs' = [docs EXCEPT ![x] = [made |-> threads[t].made, stamp |-> version]]
             /\ storedLate' = IF version # migration.version THEN storedLate \cup {x} ELSE storedLate
        ELSE UNCHANGED <<docs, storedLate>>
     /\ UNCHANGED <<cacheBackend, embedder, cache, sharedCache, index, migration, failures, runs>>

\* The instance restarts, with the embedder now configured; Redis keeps its entries.
Reconfigure(i, version) ==
  /\ failures < MaxFailures
  /\ embedder' = [embedder EXCEPT ![i] = version]
  /\ cache' = [cache EXCEPT ![i] = <<>>]
  /\ threads' = [t \in Threads |-> IF HostOf[t] = i THEN Resting ELSE threads[t]]
  /\ failures' = failures + 1
  /\ UNCHANGED <<corpusVars, cacheBackend, sharedCache>>

---------------------------------------------------------------------------
(* ensure_vector_index, which every retrieval calls, and the migration.     *)

Warm == Cardinality({x \in Kinds[1] : docs[x] # Absent}) >= Threshold

\* Built with the dimension of the caller's embedder; an existing index, also
\* one of another dimension, is left.
Ensured(version) ==
  index' = IF index = NoVersion /\ Warm THEN version ELSE index

SelfHeal(i) ==
  /\ index = NoVersion /\ Ensured(embedder[i]) /\ index' # index
  /\ UNCHANGED <<hostVars, docs, migration, failures, runs, storedLate>>

StartMigration(version) ==
  /\ migration.pc \in {"off", "done"} /\ runs < MaxRuns
  /\ migration' = [pc |-> "list", version |-> version, kind |-> 1, todo |-> {}]
  /\ runs' = runs + 1
  /\ storedLate' = {}
  /\ UNCHANGED <<hostVars, docs, index, failures>>

ListStale ==
  /\ migration.pc = "list"
  /\ migration' = [migration EXCEPT !.pc = "embed",
       !.todo = {x \in Kinds[migration.kind] : docs[x] # Absent /\ docs[x].stamp # migration.version}]
  /\ storedLate' = storedLate \ Kinds[migration.kind]
  /\ UNCHANGED <<hostVars, docs, index, failures, runs>>

\* The provider is asked directly, not through the cache.
Reembed(x) ==
  /\ migration.pc = "embed" /\ x \in migration.todo /\ docs[x] # Absent
  /\ docs' = [docs EXCEPT ![x] = [made |-> migration.version, stamp |-> migration.version]]
  /\ migration' = [migration EXCEPT !.todo = @ \ {x}]
  /\ UNCHANGED <<hostVars, index, failures, runs, storedLate>>

NextKind ==
  /\ migration.pc = "embed" /\ migration.todo = {}
  /\ migration' = IF migration.kind < Len(Kinds)
                  THEN [migration EXCEPT !.pc = "list", !.kind = @ + 1]
                  ELSE [migration EXCEPT !.pc = "drop"]
  /\ UNCHANGED <<hostVars, docs, index, failures, runs, storedLate>>

DropIndex ==
  /\ migration.pc = "drop"
  /\ index' = NoVersion
  /\ migration' = [migration EXCEPT !.pc = "ensure"]
  /\ UNCHANGED <<hostVars, docs, failures, runs, storedLate>>

RebuildIndex ==
  /\ migration.pc = "ensure"
  /\ Ensured(migration.version)
  /\ migration' = [migration EXCEPT !.pc = "done"]
  /\ UNCHANGED <<hostVars, docs, failures, runs, storedLate>>

\* The provider or a statement fails; a document purged since it was listed
\* fails its update.
MigrationFails ==
  /\ migration.pc \notin {"off", "done"} /\ failures < MaxFailures
  /\ migration' = NoMigration
  /\ failures' = failures + 1
  /\ UNCHANGED <<hostVars, docs, index, runs, storedLate>>

EmbeddingNext ==
  \/ \E t \in Threads :
       \/ \E x \in Passages : Lookup(t, x)
       \/ Bump(t) \/ Embed(t) \/ Evict(t) \/ Insert(t)
  \/ \E i \in Hosts : SelfHeal(i) \/ \E v \in Models : Reconfigure(i, v)
  \/ \E v \in Models : StartMigration(v)
  \/ ListStale \/ NextKind \/ DropIndex \/ RebuildIndex \/ MigrationFails
  \/ \E x \in Passages : Reembed(x)

EmbeddingSpec == EmbeddingInit /\ [][EmbeddingNext]_embeddingVars

\* Every stored vector was made by the model its version names, also when it
\* came from a cache that outlived a change of the model; and once a migration
\* is done, the only texts of another version are those that an instance still
\* configured for it stored after the list was read.  The cache of an instance
\* is over its size only while a thread is about to evict
\* (embedding_cache.py:48-54, :70; ops.py:53-70).
VectorsMatchModels ==
  /\ \A x \in Passages : docs[x].made = docs[x].stamp
  /\ migration.pc = "done" =>
       {x \in Passages : docs[x] # Absent /\ docs[x].stamp # migration.version} \subseteq storedLate
  /\ \A i \in Hosts :
       Len(cache[i]) <= CacheSize
         + Cardinality({t \in Threads : HostOf[t] = i /\ threads[t].pc = "evict"})
=============================================================================
