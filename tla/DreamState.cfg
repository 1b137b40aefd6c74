SPECIFICATION Spec
CONSTANTS
  a = a
  b = b
  c = c
  p1 = p1
  p2 = p2
  NoEntity = NoEntity
  Entities = {a, b, c}
  Passes = {p1}
  Threshold = 2
  BreakNum = 1
  BreakDen = 2
  MaxMentions = 2
  MaxRuns = 2
  MaxForgets = 1
SYMMETRY EntitySymmetry
INVARIANTS ConflictKeepsOne HiddenIsAudited BreakerHolds
CHECK_DEADLOCK FALSE
