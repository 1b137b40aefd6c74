SPECIFICATION Spec
CONSTANTS
  m1 = m1
  m2 = m2
  m3 = m3
  w1 = w1
  w2 = w2
  Writers = {w1, w2}
  Agents = {"a", "b"}
  Memories = {m1, m2, m3}
  Entities = {"Anna", "Ana", "Acme", "Acme Inc"}
  AgentOf <- MCAgentOf
  Reliability <- MCReliability
  NameOf <- MCNameOf
  Says <- MCSays
  Relations <- MCRelations
  Similarity <- MCSimilarity
  Batches <- MCBatches
  Seeds <- MCSeeds
  PurgeScopes = {"everyone", "b"}
  MergeThreshold = 9
  FlagThreshold = 6
  MaxPairsPerTurn = 1
  ScanMax = 2
  TopK = 1
  MaxKeys = 4
  MaxFed = 2
  MaxBusy = 2
  MaxDisturbances = 1
  Singles = {m1, m2}
  Earlier <- MCEarlier
  Stored <- MCStored
  Identical = 10
SYMMETRY WriterSymmetry
INVARIANTS EvidenceMatchesMentions CorroborationBacked KnownRivalsResolved NoDanglingEdges BatchEqualsOneByOne
PROPERTIES PurgeLeavesNothing
CHECK_DEADLOCK FALSE
