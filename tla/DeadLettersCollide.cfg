SPECIFICATION Spec
CONSTANTS
  n1 = n1
  n2 = n2
  w1 = w1
  w2 = w2
  h1 = h1
  a = a
  b = b
  s = s
  r = r
  NoIntent = NoIntent
  Ops = Ops
  Home <- MCHome
  Keys <- MCKeys
  FailKey <- MCFailKey
  StoredKey <- MCStoredKey
  Instances = {n1}
  Workers = {w1}
  Handlers = {h1}
  Intents = {s, r}
  Steps = {s, r}
  Async = {s, r}
  Sync = {}
  Durable = TRUE
  MaxDocs = 2
  MaxRetries = 1
  MaxFaults = 2
  MaxReplays = 0
  MaxSyncs = 0
  ReplayMayDie = FALSE
INVARIANTS NothingLost
