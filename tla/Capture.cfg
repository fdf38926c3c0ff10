SPECIFICATION Spec
CONSTANTS
  c1 = c1
  o1 = o1
  r1 = r1
  w1 = w1
  w2 = w2
  p1 = p1
  k1 = k1
  k2 = k2
  Callers = {c1, o1, r1}
  Clicks = {c1}
  Commands = {o1}
  Invocations = {r1}
  Budget <- MCBudget
  Interval <- MCInterval
  TimeLimit <- MCTimeLimit
  CaptureContainers = {w1}
  PipelineContainers = {w2}
  Postings = {p1}
  Keys = {k1, k2}
  NoKey = NoKey
  MaxSecrets = 1
CHECK_DEADLOCK FALSE
INVARIANTS
  TypeOK
  AnswersAreTrue
  RecordedWasAsked
PROPERTIES
  ResumeIsAbsorbed
