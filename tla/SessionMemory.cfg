SPECIFICATION Spec
CONSTANTS
  a = a
  b = b
  c = c
  d = d
  u = u
  v = v
  NoTurn = NoTurn
  Topic <- MCTopic
  Writers = {u, v}
  Turns = {a, b, c, d}
  WorkingTurns = {a, b, d}
  BulkTurns = {d}
  Reach = 1
  Capacity = 1
  MaxAttempts = 2
  MaxCommits = 4
SYMMETRY WriterSymmetry
INVARIANTS BufferBounded ShiftFlushesPrior BufferHoldsNewest ShiftStaysFlagged
PROPERTIES PromotedIsKept
CHECK_DEADLOCK FALSE
