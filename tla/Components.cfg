SPECIFICATION Spec
CONSTANTS
  Parts = {"limits", "migrations", "facts", "retrieval", "crew", "history", "capture", "communities", "ontology", "embeddings", "replies", "turns", "recall"}
  Requests = {1, 2, 3, 4, 5}
  InstanceOf <- MCInstanceOf
  Limit = 2
  Window = 2
  Horizon = 4
  Booters = {"x", "y"}
  SchemaSize = 3
  CheckedObjects = {1, 3}
  Versions = {1, 2, 3}
  MaxBoots = 4
  Facts = {"a", "b", "c"}
  When <- MCWhen
  SpokenBy <- MCSpokenBy
  Passes = {"p", "q"}
  Gates <- MCGates
  MaxCandidates = 2
  MaxStarts = 2
  Memories = {"a", "b", "c"}
  Readable = {"a", "b", "c"}
  At <- MCAt
  Tier <- MCTier
  Cost <- MCCost
  Fresh <- MCFresh
  Alike = {{"a", "b"}}
  Views = {0, 2}
  Scorings = {"rrf", "event_time"}
  PoolSize = 2
  HopPoolSize = 1
  HitCount = 2
  TopN = 2
  SubQueries = 2
  RrfK = 60
  Scale = 238266
  ArmWeight <- MCArmWeight
  Lambda = 7
  Relevances = {0, 5}
  TimeWeight = 1
  MaxHops = 2
  MaxTokens = 10
  HeaderCost = 1
  SummaryCosts <- MCSummaryCosts
  EntityCosts <- MCEntityCosts
  StepCosts <- MCStepCosts
  HeadingCost <- MCHeadingCost
  MaxWrites = 2
  Records = {"r", "s"}
  Contents = {"x", "y"}
  Clients = {"k", "l"}
  MaxRev = 2
  MaxOps = 4
  MaxFaults = 1
  Histories = {"g", "h"}
  Texts = {"x", "y"}
  MaxLog = 3
  MaxTurn = 3
  Captures = {1, 2}
  Prompts <- MCPrompts
  StepKey <- MCStepKey
  MaxLost = 1
  Nodes = {1, 2, 3, 4}
  EdgeSets <- MCEdgeSets
  Clusterings = {"a", "b"}
  Iterations = 3
  MaxGone = 1
  Edges = {1, 2, 3}
  TenantOf <- MCTenantOf
  LabelsOf <- MCLabelsOf
  ProposalKey <- MCProposalKey
  Relations = {"uses", "made_by"}
  MinSupport = 1
  MaxPasses = 2
  MaxReviews = 1
  MaxFades = 1
  Passages = {"m", "e"}
  Entities = {"e"}
  Threads = {"t1", "t2"}
  HostOf <- MCHostOf
  Models = {1, 2}
  Threshold = 1
  CacheSize = 1
  MaxFailures = 1
  MaxRuns = 1
  Callers = {1, 2}
  Questions = {"q", "r"}
  ReplyLines <- MCReplyLines
  Lowercase <- MCLowercase
  MaxSubqueries = 2
  CheapNames <- MCCheapNames
  EscalateBelow = 1
  CheapRelations = {}
  MaxAsked = 3
  MaxErrors = 1
  Utterances = {"x", "y"}
  MaxSaid = 3
  MaxDropped = 1
  Seekers = {1}
  Cues = {"x", "y", "z", "w"}
  VectorOf <- MCVectorOf
  CueLists <- MCCueLists
  Notes = {"a", "b"}
  Plain = {"p"}
  Cosine <- MCCosine
  NoteFilters = {{"a", "b"}, {"b"}}
  MinScore = 2
  RecallLimit = 1
  Factor = 2
  TextCapacity = 2
  MaxSeeks = 3
INVARIANTS WindowAdmits NoMigrationSkipped LinksClimb NoOlderSkipped  HitsInView SuccessorAboveStale RecordsReadBack TranscriptKeepsAdds TracedOnceInOrder CommunitiesConnected RelabelledAsReviewed VectorsMatchModels RepliesReused TurnsHeard RecallHolds
PROPERTIES LinkKept
CHECK_DEADLOCK FALSE
