SPECIFICATION Spec
CONSTANTS
  Keys = {1, 2, 3, 4}
  Rows <- MCRows
  NoRow = NoRow
  PageSize = 2
  NoLimit = NoLimit
  Limits = {3, NoLimit}
  StartTables <- MCTables
  MaxWrites = 1
  Fingerprint <- MCFingerprint
  Blank = 0
  Threshold = 2
  NoScore = NoScore
  TopN = 1
  StaleDays = 1
  Low = 2
  MaxCredit = 2
  MaxCalls = 1
CHECK_DEADLOCK FALSE
INVARIANTS
  TypeOK
  ReadIsWhole
  EveryMatchOnOneCard
  CreditIsTold
