SPECIFICATION Spec
CONSTANTS
  w1 = w1
  w2 = w2
  Candidates = 2
  Workers = {w1, w2}
  Scores = {2, 3, 9}
  NoScore = NoScore
  Threshold = 3
  HardFloor = 1
  NearMissBand = 1
  TriggerMargin = 1
  ResampleN = 3
  MaxRetries = 1
  AttemptTime = 1
  BackoffTime = 1
  Wall = 2
  HardTimeout = 9
SYMMETRY MCThreads
INVARIANTS
  FailureIsIsolated
