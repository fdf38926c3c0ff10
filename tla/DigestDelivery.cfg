SPECIFICATION FairSpec
CONSTANTS
  p1 = p1
  p2 = p2
  p3 = p3
  r1 = r1
  r2 = r2
  Postings = {p1, p2}
  Fingerprint <- MCDistinct
  Id <- MCId
  Runs = {r1}
  Modes = {"daily"}
  Scores = {1, 2}
  NoScore = NoScore
  Configs <- MCOneConfig
  Overlap = FALSE
  MaxJudgements <- MCTwice
  MaxOverrides <- MCNever
  MaxDeploys = 0
  MaxCrashes = 1
PROPERTIES
  MatchIsDelivered
