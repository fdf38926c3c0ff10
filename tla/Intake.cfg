SPECIFICATION Spec
CONSTANTS
  Queries = 2
  MaxPages = 2
  RequestBudget = 3
  EveryNDays = 2
  FirstCleanCycle = 1
  MaxDay = 3
  MaxInvocations = 3
  MaxLosses = 1
INVARIANTS
  TypeOK
  VerdictIsHonest
  AlertHasCause
  AlertUntilSweep
  FineSweepSilences
