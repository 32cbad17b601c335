\* Cancelling a parked run while a driver resumes it.
SPECIFICATION Spec
CONSTANTS
  d1 = d1
  d2 = d2
  r1 = r1
  r2 = r2
  Drivers = {d1, d2}
  Runs = {r1}
  Nobody = Nobody
  Manuscripts = {"m"}
  Rubrics = {"a", "b"}
  InLibrary = {}
  Units = {"n", "s", "m", "i"}
  Subject <- OneSubject
  StageOf <- OneOfEach
  DegradeOnQuota = FALSE
  LiveExpiry = FALSE
  MaxFaults = 2
CHECK_DEADLOCK FALSE
SYMMETRY Symmetry
INVARIANTS
  CancelledSaysWhere
