SPECIFICATION Spec
CONSTANTS
  p1 = p1
  p2 = p2
  p3 = p3
  r1 = r1
  r2 = r2
  Postings = {p1, p2}
  Fingerprint <- MCReposts
  Id <- MCId
  Runs = {r1}
  Modes = {"daily", "reassess"}
  Scores = {1, 2}
  NoScore = NoScore
  Configs <- MCTwoBars
  Overlap = FALSE
  MaxJudgements <- MCTwice1
  MaxOverrides <- MCOnce1
  MaxDeploys = 1
  MaxCrashes = 1
INVARIANTS
  TypeOK
  RecordedWasSent
  AnnouncedOnce
  FirstMatchIsNews
  BadgeTellsProfile
  RepeatOnlyAfterDeath
