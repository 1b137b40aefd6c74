SPECIFICATION Spec
CONSTANTS
  a = a
  b = b
  c = c
  p1 = p1
  p2 = p2
  NoEntity = NoEntity
  Entities = {a, b}
  Passes = {p1, p2}
  Threshold = 1
  BreakNum = 1
  BreakDen = 2
  MaxMentions = 2
  MaxRuns = 2
  MaxForgets = 0
SYMMETRY EntitySymmetry
INVARIANTS ConflictKeepsOne
CHECK_DEADLOCK FALSE
