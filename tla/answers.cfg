\* Two uploads whose workers may die once and stall once; two check runs with
\* two faults between them.
SPECIFICATION MCSpec
CONSTANTS
  a1 = a1
  a2 = a2
  w1 = w1
  w2 = w2
  d1 = d1
  d2 = d2
  r1 = r1
  r2 = r2
  Attempts = {a1, a2}
  SameFile = {}
  AskCheck = {a1}
  Workers = {w1, w2}
  NoWorker = NoWorker
  NoAttempt = NoAttempt
  Nobody = Nobody
  MaxActive = 2
  Budget = 4
  MaxCrashes = 1
  MaxStalls = 1
INVARIANT DoneIsTrue
PROPERTIES
  RetiredIsLeftAlone UploadAnswered CancelTakesEffect EveryRunEnds
CHECK_DEADLOCK FALSE
