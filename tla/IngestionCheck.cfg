SPECIFICATION Spec
CONSTANTS
  EveryNDays = 2
  FirstCleanCycle = 2
  Window = 3
  RunDroughtDays = 2
  MaxDay = 7
  MaxOdd = 2
INVARIANTS
  TypeOK
  NoFalseAlarm
  OkIsEarned
  AgreesWithDigest
PROPERTIES
  LaterIsInvisible
