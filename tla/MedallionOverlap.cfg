SPECIFICATION Spec
CONSTANTS
  p1 = p1
  p2 = p2
  r1 = r1
  r2 = r2
  h1 = h1
  h2 = h2
  s1 = s1
  s2 = s2
  NullHash = NullHash
  NoScore = NoScore
  Postings = {p1}
  Runs = {r1, r2}
  Contexts = {h1, h2}
  Scores = {s1, s2}
  Modes = {"daily", "reassess"}
  Overlap = TRUE
  MaxJudgements = 3
  MaxOverrides = 1
  MaxCrashes = 1
SYMMETRY MCSymmetry
INVARIANTS
  TypeOK
  TablesAreWhole
  LedgerAgrees
  PreviousWasGiven
