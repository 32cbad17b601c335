\* A worker stalls and then dies.
SPECIFICATION LiveSpec
CONSTANTS
  Attempts = {a1}
  SameFile = {}
  AskCheck = {}
  Workers = {w1, w2}
  NoWorker = NoWorker
  NoAttempt = NoAttempt
  MaxActive = 2
  Budget = 4
  MaxCrashes = 1
  MaxStalls = 1
PROPERTIES
  RecordSettles
CHECK_DEADLOCK FALSE
