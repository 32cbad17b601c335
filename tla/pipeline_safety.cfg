\* Two runs of one manuscript whose claims outlive no driver, a run whose claims
\* may, and three runs in the queue.
SPECIFICATION MCSpec
CONSTANTS
  d1 = d1
  d2 = d2
  r1 = r1
  r2 = r2
  q1 = q1
  q2 = q2
  q3 = q3
  o1 = o1
  o2 = o2
  Drivers = {d1, d2}
  Runs = {r1, r2}
  Nobody = Nobody
  Manuscripts = {"m"}
  Rubrics = {"a", "b"}
  InLibrary = {}
  Units = {"n", "s", "m1", "m2", "i"}
  Subject <- SameManuscript
  StageOf <- HalfStage
  DegradeOnQuota = TRUE
  LiveExpiry = FALSE
  MaxFaults = 3
  LateTasks = {d1, d2}
  LateRuns = {r1}
  NoTask = Nobody
  LateSubject <- LateManuscript
  LatePapers = {"m"}
  LateRubrics = {"a", "b"}
  LateLibrary = {}
  LateUnits = {"n", "s", "m1", "m2", "i"}
  LateStageOf <- HalfStage
  LateDegrade = FALSE
  MaxLate = 3
  QueuedRuns = {q1, q2, q3}
  Instructor <- TwoInstructors
  Schedulers = {s1}
  Polling = TRUE
  MaxCrashes = 0
  MaxTimeouts = 0
CHECK_DEADLOCK FALSE
SYMMETRY Interchangeable
INVARIANTS
  SettledOnce CancelledHasNoReport CancelledSaysWhere DoneIsComplete LateDriverHarmless
PROPERTIES
  FinishedKeepsArchive EndedRunUntouched ImplementsLifecycle TurnsRotate
