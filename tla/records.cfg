\* Two requests on three copies of a manuscript, three on the versions of a
\* format, and three uploads.
SPECIFICATION MCSpec
CONSTANTS
  s1 = s1
  s2 = s2
  c1 = c1
  q1 = q1
  q2 = q2
  a1 = a1
  a2 = a2
  a3 = a3
  w1 = w1
  w2 = w2
  NoWorker = NoWorker
  NoAttempt = NoAttempt
  None = None
  Attempts = {a1, a2, a3}
  SameFile = {a1, a2}
  AskCheck = {}
  Workers = {w1, w2}
  MaxActive = 3
  Budget = 5
  MaxStalls = 0
  Submissions = {s1, s2}
  Checked = {c1}
  Content <- SameBytes
  Requests = {q1, q2}
  Initial = 1
  LastId = 4
  FormatRequests = {q1, q2, q3}
  Programs = {p1}
  MaxDeaths = 1
  MaxCrashes = 1
SYMMETRY Interchangeable
INVARIANTS
  CorpusIsActive OneCopy FilesFollow RequestsGoOn ReservedInBudget
PROPERTY VersionsKept
CHECK_DEADLOCK FALSE
