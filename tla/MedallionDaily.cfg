SPECIFICATION FairSpec
CONSTANTS
  p1 = p1
  p2 = p2
  r1 = r1
  r2 = r2
  h1 = h1
  h2 = h2
  s1 = s1
  s2 = s2
  NullHash = NullHash
  NoScore = NoScore
  Postings = {p1}
  Runs = {r1}
  Contexts = {h1, h2}
  Scores = {s1, s2}
  Modes = {"daily", "reassess"}
  Overlap = FALSE
  MaxJudgements = 4
  MaxOverrides = 1
  MaxCrashes = 2
INVARIANTS
  PreviousIsPredecessor
  JudgedOncePerDeath
PROPERTIES
  RejectionHolds
  LandedIsDecided
