\* Aggregation by a driver whose claim has expired.
SPECIFICATION Spec
CONSTANTS
  d1 = d1
  d2 = d2
  r1 = r1
  r2 = r2
  Drivers = {d1, d2}
  Runs = {r1}
  Nobody = Nobody
  Manuscripts = {"m"}
  Rubrics = {"a", "b"}
  InLibrary = {}
  Units = {"n", "s", "m", "i"}
  Subject <- OneSubject
  StageOf <- OneOfEach
  DegradeOnQuota = TRUE
  LiveExpiry = TRUE
  MaxFaults = 2
CHECK_DEADLOCK FALSE
SYMMETRY Symmetry
INVARIANTS
  CancelledHasNoReport
